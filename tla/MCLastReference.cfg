\* An insert whose node is erased before its level 1 is linked.
SPECIFICATION Spec
CONSTANTS
    Thread = {t1, t2}
    Node = {n2, n3}
    t1 = t1
    t2 = t2
    n1 = n1
    n2 = n2
    n3 = n3
    n4 = n4
    Key <- TwoOfAKey
    MaxHeight = 2
    Head = Head
    Tail = Tail
    Plans <- TwoUpdatesEach
CHECK_DEADLOCK FALSE
PROPERTY LastReferenceAborts
