\* count_pages moves the offset between lseek and write of a flush.
SPECIFICATION Spec
CONSTANTS
    Threads = {t1, t2}
    Scanners = {t1, t2}
    IOMayFail = FALSE
    FrameCount = 2
    MaxPins = 1
    PageCount = 3
    MaxFileSize = 4
    MaxStamp = 2
INVARIANT CleanMeansOnDisk
CHECK_DEADLOCK FALSE
