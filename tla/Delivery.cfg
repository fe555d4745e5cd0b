\* Two messages, writes that fail, lists emptied by login and by RPC.
CONSTANTS
    u1 = u1
    u2 = u2
    User <- TwoUsers
    Session = {s1, s2}
    Worker = {w1}
    Faults = {"write", "pull"}
    None = None
    Msg <- BothWays
    MaxInbox = 5
SYMMETRY Symmetry
SPECIFICATION DSpec
INVARIANTS
    DTypeOK
    NoMisdelivery
    NoUnexplainedLoss
    OnceUnlessPopsOverlap
PROPERTY
    KeepsMail
