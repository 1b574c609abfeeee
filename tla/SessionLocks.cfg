\* Locks, write sets, tables and sessions: one row at the start, one that can be
\* inserted, two table names, and two transactions, of one session or of two.
SPECIFICATION Spec
CONSTANTS
    TupleKey = {k1, k2}
    InitialRows = {k1}
    MaxTxId = 2
    TableName = {n1, n2}
    Sessions = {s1, s2}
    WorkerThreads = 2
    UninitTxIds = {0}
SYMMETRY SessionAndNameSymmetry
INVARIANTS
    TypeOK
    NoOrphanLock
    StateMatchesTransaction
    NoSharedTransaction
    SnapshotCoversActive
    UniqueTableNames
    NoOrphanTable
PROPERTIES
    TwoPhaseSafety
    TablesAllOrNothing
