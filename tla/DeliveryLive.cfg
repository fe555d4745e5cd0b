\* One message, two sessions, no fault.
CONSTANTS
    u1 = u1
    u2 = u2
    User <- TwoUsers
    Session = {s1, s2}
    Worker = {w1}
    Faults = {}
    None = None
    Msg <- One
    MaxInbox = 5
SPECIFICATION DFairSpec
PROPERTIES
    HandlersRun
    SendCompletes
    DepartedIsCleanedUp
    StoredReachesUser
