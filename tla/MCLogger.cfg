\* Memory: two printing threads and three streams: the root blocks, the others drop lines and may be
\* closed, at the head of the list or behind it; rings of four bytes, lines shorter than the longest.
\* Files: five lines, archives of one line, one kept; gzip or not; one crash, with its gzip or without.
SPECIFICATION LoggerSpec
CONSTANTS
    Producer = {p1, p2}
    Stream = {root, a, b}
    Root = root
    Blocking = {root}
    BuffSize = 4
    MaxLine = 2
    LineLens = {1}
    MaxPrints = 4
    NULL = NULL
    LogSize = 1
    LogCount = 1
    Compresses = {TRUE, FALSE}
    MaxLines = 5
    MaxNow = 2
    MaxCrashes = 1
    NoFile = NoFile
CHECK_DEADLOCK FALSE
INVARIANTS
    LogInv
    FlushedWhenFreed
    NeverSleepsOnData
    RotateInv
    NoLineLost
PROPERTIES
    LinesGetWritten
    ExitReturns
    GzipUndisturbed
    ZipReaped
