\* A page holds two records and lacks one cell for a third; a record that takes over
\* the slot of a deleted one fits exactly.  Three rows need a second page.
SPECIFICATION Spec
CONSTANTS
    Threads = {t1, t2}
    SIZE = 13
    TUPLE_HEADER_SIZE = 1
    Lengths = {1}
    MaxPages = 3
    MaxRows = 3
    MaxVacuums = 1
    MaxScans = 1
    MaxDeletes = 1
    Uninit <- UninitValues
INVARIANTS
    TypeOK
    RowsIntact
    NoPhantomRow
    FreeSpaceIsFree
    ScanMeetsEveryRow
PROPERTIES
    VacuumReclaims
    InsertReturns
CHECK_DEADLOCK FALSE
