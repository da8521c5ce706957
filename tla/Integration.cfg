\* Two calls of Save, two sync jobs and one loss, with fairness.  The row rests
\* when all jobs are done.
SPECIFICATION FairSpec
CONSTANTS
    Keys = {k1, k2}
    NoKey = NoKey
    Savers = {c1, c2}
    Jobs = {j1, j2}
    MaxSaves = 2
    MaxFailures = 1
    MaxLosses = 1
INVARIANTS
    TypeOK
    ErrorIsRetried
PROPERTIES
    SecretKept
    StatusSettles
CHECK_DEADLOCK FALSE
