\* One user with two tokens, one request at a time, no faults.
CONSTANTS
    User = {u1}
    Thread = {t1}
    Lifetime = 3
    Faults = {}
    None = None
    MaxTime = 4
SPECIFICATION ASpec
PROPERTY RevokedStaysRevoked
CHECK_DEADLOCK FALSE
