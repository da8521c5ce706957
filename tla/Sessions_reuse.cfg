\* Two calls at a time and three pairs: what becomes of a family whose old token
\* comes back while a refresh is at work.
SPECIFICATION Spec
CONSTANTS
    Calls = {c1, c2}
    MaxPairs = 3
    MaxExpired = 1
PROPERTY ReuseRevokesFamily
