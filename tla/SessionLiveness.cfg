\* Fewer workers than sessions: the only worker sleeps in try_acquire_lock while
\* the COMMIT of the holder of the lock waits in the queue.
SPECIFICATION Spec
CONSTANTS
    TupleKey = {k1, k2}
    InitialRows = {k1, k2}
    MaxTxId = 2
    TableName = {}
    Sessions = {s1, s2}
    WorkerThreads = 1
    UninitTxIds = {0}
PROPERTIES
    TwoPhaseSpec
    CallbackEnds
