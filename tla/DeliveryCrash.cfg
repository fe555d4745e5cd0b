\* One message; Redis breaks, the process is killed and started again.
CONSTANTS
    u1 = u1
    u2 = u2
    User <- TwoUsers
    Session = {s1, s2}
    Worker = {w1}
    Faults = {"redis", "crash", "rpc"}
    None = None
    Msg <- One
    MaxInbox = 2
SYMMETRY Symmetry
SPECIFICATION DSpec
INVARIANTS
    NoMisdelivery
    NoUnexplainedLoss
    OnceUnlessPopsOverlap
PROPERTIES
    Spec
    KeepsMail
