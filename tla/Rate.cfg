\* Two users, two requests at a time, one attempt beyond the limit; Redis
\* breaks and the process is restarted.
CONSTANTS
    Key = {k1, k2}
    Thread = {t1, t2}
    MaxCount = 2
    Window = 2
    Faults = {"redis", "crash"}
    None = None
    MaxTries = 3
SPECIFICATION RFairSpec
INVARIANTS
    RTypeOK
    NoImmortalCounter
    AtMostTwiceTheLimit
PROPERTY LimitEnds
