\* Two calls at a time, three pairs in up to three families, with fairness.  The table
\* goes quiet when nobody calls.
SPECIFICATION FairSpec
CONSTANTS
    Calls = {c1, c2}
    MaxPairs = 3
    MaxExpired = 1
INVARIANTS
    TypeOK
    OneLivePair
    RevokedTogether
PROPERTIES
    ImplementsFamilies
    LogoutEndsSession
    EveryCallAnswered
