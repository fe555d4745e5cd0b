\* A call to db_server fails.
CONSTANTS
    Msg = {m1, m2}
    Big = {}
    Threshold = 2
    Faults = {"rpc"}
    Blank = Blank
    MaxRows = 5
SPECIFICATION BSpec
INVARIANT FailedBatchIsKept
