\* Upgradable control, segments, thread pool, stack and slabs, one part per behaviour.
SPECIFICATION PartsSpec
CONSTANTS
    Thread = {t1, t2, t3}
    REQUIRED_BIT = 8
    MaxCalls = 2
    Seg = {s1, s2, s3}
    Page = {p, q}
    MaxLsn = 5
    Worker = {w1, w2}
    Caller = {c1, c2}
    Work = 4
    Pusher = {a, b}
    Popper = {r, s}
    Pushes = 3
    Addr = {x, y, z}
    Null = Null
CHECK_DEADLOCK FALSE
INVARIANTS
    ControlInv
    OldReadersDrained
    SegmentInv
    StableStateKept
    PoolInv
    StackInv
    HeapInv
PROPERTIES
    CallsEnd
    WorkStarts
