\* One sync job, one call of Save and one key: whether an error is always retried.
SPECIFICATION Spec
CONSTANTS
    Keys = {k1}
    NoKey = NoKey
    Savers = {c1}
    Jobs = {j1}
    MaxSaves = 1
    MaxFailures = 0
    MaxLosses = 1
INVARIANT EveryErrorIsRetried
CHECK_DEADLOCK FALSE
