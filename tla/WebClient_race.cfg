CONSTANTS
    Data = {d1, d2}
    MaxPairs = 3
    MaxFaults = 0
SPECIFICATION FairSpec
PROPERTY RefreshKeepsSession
