\* A new session whose uninitialized tx_id happens to be the id of another
\* session's transaction.
SPECIFICATION Spec
CONSTANTS
    TupleKey = {k1}
    InitialRows = {k1}
    MaxTxId = 2
    TableName = {}
    Sessions = {s1, s2}
    WorkerThreads = 2
    UninitTxIds = {0, 1}
INVARIANT DisconnectAbortsOnlyInTransaction
