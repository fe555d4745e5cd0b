\* Two users, two handlers, two requests; statements and calls fail, and the
\* process is killed.
CONSTANTS
    User = {u1, u2}
    Thread = {t1, t2}
    Faults = {"db", "crash"}
    None = None
    MaxRequests = 2
SYMMETRY Symmetry
SPECIFICATION FSpec
INVARIANTS
    FTypeOK
    NoFriendWithoutConsent
    FriendshipIsMutual
    ConsentMakesFriends
CHECK_DEADLOCK FALSE
