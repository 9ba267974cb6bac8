\* One thread prints on a stream that drops lines when its ring is full.
SPECIFICATION Spec
CONSTANTS
    Producer = {p1}
    Stream = {root, a}
    Root = root
    Blocking = {root}
    BuffSize = 4
    MaxLine = 2
    LineLens = {1}
    MaxPrints = 5
    NULL = NULL
CHECK_DEADLOCK FALSE
INVARIANT DroppedRecorded
