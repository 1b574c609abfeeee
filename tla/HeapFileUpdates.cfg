\* One tuple at the start and room for three more versions or tuples: two workers
\* update the same tuples and read them, and a transaction can come twice in a chain
\* around the other one, if nothing prevents it.
SPECIFICATION Spec
CONSTANTS
    TupleKey = {1, 2, 3, 4}
    MaxRid = 4
    MaxTxId = 2
    InitialTuples = 1
    Workers = {w1, w2}
SYMMETRY WorkerSymmetry
INVARIANTS
    TypeOK
    ChainsWellFormed
    OneOpenEnd
    NoLostUpdate
    UpdatesAreSerializable
    ReadIsLatestCommitted
    NoDirtyRead
PROPERTY UpdatesAreAtomic
CHECK_DEADLOCK FALSE
