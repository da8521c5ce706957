\* One login at a time, and two that pass: whether every refusal ends.
SPECIFICATION FairSpec
CONSTANTS
    Logins = {l1}
    Limit = 2
    Window = 2
    MaxConns = 2
PROPERTY EveryBlockEnds
