\* Flushes of a victim that has already left the map, and extensions of the file,
\* that fail.
SPECIFICATION Spec
CONSTANTS
    Threads = {t1, t2}
    Scanners = {}
    IOMayFail = TRUE
    FrameCount = 2
    MaxPins = 1
    PageCount = 3
    MaxFileSize = 4
    MaxStamp = 2
INVARIANTS
    PinnedPageIsLatest
    NoWriteIsLost
PROPERTY HeldFramesKeepTheirPage
CHECK_DEADLOCK FALSE
