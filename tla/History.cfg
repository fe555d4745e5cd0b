\* Three messages of which one cannot be inserted; the call or its reply fails,
\* the Redis connection breaks, the process is killed.
CONSTANTS
    Msg = {m1, m2, m3}
    Big = {m3}
    Threshold = 2
    Faults = {"rpc", "reply", "crash", "redis"}
    Blank = Blank
    MaxRows = 4
    Ttl = 2
    None = None
SPECIFICATION HFairSpec
INVARIANTS
    HTypeOK
    Conservation
    RecentIsShown
    CacheWillExpire
PROPERTIES
    KeepsArchive
    FullQueueIsTaken
    HiddenOnlyForAWhile
