\* One account that logs in, logs out and is deleted, by two requests at a time,
\* over twice the life of a token; calls to db_server fail, the Redis connection
\* breaks, auth_server is restarted.
CONSTANTS
    User = {u1}
    Thread = {t1, t2}
    Name = {n1}
    Password = {p1}
    Lifetime = 2
    Faults = {"db", "redis", "crash"}
    None = None
    MaxTime = 4
SYMMETRY Symmetry
SPECIFICATION USpec
INVARIANTS
    ATypeOK
    LoggedOutStaysOut
    DeletedIsLockedOut
CHECK_DEADLOCK FALSE
