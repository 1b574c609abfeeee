\* A thread keeps up to two pages pinned, as a scan does that reads the header
\* of a version on another page.  Three frames: two threads that hold one pin
\* each and ask for a second page leave one frame for the clock.
SPECIFICATION Spec
CONSTANTS
    Threads = {t1, t2}
    Scanners = {t1, t2}
    IOMayFail = FALSE
    FrameCount = 3
    MaxPins = 2
    PageCount = 4
    MaxFileSize = 4
    MaxStamp = 0
INVARIANTS
    TypeOK
    PinsCountUsers
    MapIsExact
PROPERTY GetPageReturns
CHECK_DEADLOCK FALSE
