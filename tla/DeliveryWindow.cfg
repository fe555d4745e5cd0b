\* No fault: the windows around login and logout.
CONSTANTS
    u1 = u1
    u2 = u2
    User <- TwoUsers
    Session = {s1}
    Worker = {w1}
    Faults = {}
    None = None
    Msg <- One
    MaxInbox = 5
SPECIFICATION DSpec
INVARIANT PushedOrStored
