\* Two threads on every list that the nodes of their calls allow; under fairness they return.
SPECIFICATION FairSpec
CONSTANTS
    Thread = {t1, t2}
    Node = {n1, n2, n3, n4}
    t1 = t1
    t2 = t2
    n1 = n1
    n2 = n2
    n3 = n3
    n4 = n4
    Key <- TwoOfAKey
    MaxHeight = 2
    Head = Head
    Tail = Tail
    Plans <- RaceOrSearch
CHECK_DEADLOCK FALSE
INVARIANTS
    ListInv
    Linearizable
    RefsExact
    NoStaleVisit
    SeekIsNearest
    ScanSeesAll
PROPERTY CallsReturn
