\* Lines as long as max_line_size, which _tlog_vprintf cuts longer ones to.
SPECIFICATION Spec
CONSTANTS
    Producer = {p1, p2}
    Stream = {root, a}
    Root = root
    Blocking = {root}
    BuffSize = 4
    MaxLine = 2
    LineLens = {1, 2}
    MaxPrints = 5
    NULL = NULL
CHECK_DEADLOCK FALSE
INVARIANT FlushedWhenFreed
