\* Two threads open one page.
SPECIFICATION Spec
CONSTANTS
    Threads = {t1, t2}
    SIZE = 12
    TUPLE_HEADER_SIZE = 1
    Lengths = {1, 3}
    MaxPages = 4
    MaxRows = 3
    MaxVacuums = 0
    MaxScans = 0
    MaxDeletes = 0
    Uninit <- UninitValues
INVARIANTS
    RowsReadBack
CHECK_DEADLOCK FALSE
