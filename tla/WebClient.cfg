CONSTANTS
    Data = {d1}
    MaxPairs = 3
    MaxFaults = 2
SPECIFICATION FairSpec
INVARIANTS
    TypeOK
    SignOutEnds
PROPERTIES
    StoredAdvances
    DeadSessionCleared
