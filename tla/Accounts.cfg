\* Three accounts one after the other under two names, two requests that begin
\* and end in one second; calls to db_server fail.
CONSTANTS
    User = {u1, u2, u3}
    Thread = {t1, t2}
    Name = {n1, n2}
    Password = {p1, p2}
    Lifetime = 1
    Faults = {"db"}
    None = None
    MaxTime = 0
SYMMETRY Symmetry
SPECIFICATION USpec
INVARIANTS
    UTypeOK
    UniqueNames
PROPERTY OwnerDecides
CHECK_DEADLOCK FALSE
