\* A session that ends on a connection error, in the middle of a transaction.
SPECIFICATION Spec
CONSTANTS
    TupleKey = {k1}
    InitialRows = {k1}
    MaxTxId = 2
    TableName = {}
    Sessions = {s1, s2}
    WorkerThreads = 2
    UninitTxIds = {0}
INVARIANT DisconnectAborts
