\* Two threads, one callback slot: batches wait, are swapped out and refused;
\* under fairness every operation, hand-in and finalize ends.
SPECIFICATION MapFairSpec
CONSTANTS
    Thread = {t1, t2}
    SlotCount = 2
    MaxEpoch = 6
    MaxNest = 1
    Node = {n1, n2}
    CbSlotCount = 1
    Int64Max = 9
    NoThread = NoThread
CHECK_DEADLOCK FALSE
INVARIANTS
    MapInv
    NoUseAfterFree
    FinalizeFreesAll
PROPERTIES
    ImplementsGrace
    OperationsFinish
    HandInEnds
    FinalizeEnds
