\* Two threads fill the blocking root stream and wait while the worker makes room.
SPECIFICATION FairSpec
CONSTANTS
    Producer = {p1, p2}
    Stream = {root}
    Root = root
    Blocking = {root}
    BuffSize = 4
    MaxLine = 2
    LineLens = {1}
    MaxPrints = 4
    NULL = NULL
CHECK_DEADLOCK FALSE
PROPERTY BlockedPrintResumes
