\* Two inserts with one splice beside two erases.
SPECIFICATION Spec
CONSTANTS
    Thread = {t1, t2}
    Node = {n1, n2, n3}
    t1 = t1
    t2 = t2
    n1 = n1
    n2 = n2
    n3 = n3
    n4 = n4
    Key <- TwoOfAKey
    MaxHeight = 2
    Head = Head
    Tail = Tail
    Plans <- SpliceAmongErases
CHECK_DEADLOCK FALSE
INVARIANT AbsentIsInserted
