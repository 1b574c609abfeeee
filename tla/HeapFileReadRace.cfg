\* A reader overtaken by the transaction that inserts the row, updates it and
\* commits.
SPECIFICATION Spec
CONSTANTS
    TupleKey = {1, 2}
    MaxRid = 2
    MaxTxId = 2
    InitialTuples = 0
    Workers = {w1, w2}
INVARIANT ReadGivesLastVisibleVersion
CHECK_DEADLOCK FALSE
