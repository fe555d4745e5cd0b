\* Two users, three stream addresses, one gRPC thread, every fault.
CONSTANTS
    User = {u1, u2}
    Session = {s1, s2, s3}
    Worker = {w1}
    Faults = {"listener", "redis", "crash", "rpc"}
    None = None
SYMMETRY Symmetry
SPECIFICATION Spec
INVARIANTS
    TypeOK
    NoDanglingConnection
    WriteHitsLiveStream
    OnlineIsBacked
