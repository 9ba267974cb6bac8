----------------------------- MODULE MCSkipList -----------------------------
EXTENDS SkipList

CONSTANTS n1, n2, n3, n4, t1, t2

\* two nodes have the same key
TwoOfAKey == [n \in Node |-> CASE n = n1 -> 1 [] n = n4 -> 3 [] OTHER -> 2]
Few == Node \ {n4}

Updates == {"insert", "erase", "erase_node"}
Searches == {"lt", "gt", "last", "scan"}
Plan(left, ops, nodes) == [left |-> left, ops |-> ops, nodes |-> nodes]

\* two inserts with one splice, of mine, beside erases, of other nodes
InsertsBeside(mine, erases, others) ==
    [t \in Thread |->
        IF t = t1 THEN Plan(2, {"insert", "insert_again"}, mine) ELSE Plan(erases, {"erase"}, others)]

\* an insert beside an erase of its node and an insert of the other of its key
DirtyNode ==
    [t \in Thread |->
        IF t = t1 THEN Plan(1, {"insert"}, {n2}) ELSE Plan(2, {"insert", "erase"}, {n3})]

\* one call each, of any kind but these searches; or a search beside two
\* changes of the list; or two inserts beside an erase of a key between theirs;
\* or an insert that may meet a dirty node
RaceOrSearch ==
    {[t \in Thread |-> Plan(1, Updates \cup {"find", "le", "ge", "refresh"}, Few)],
     [t \in Thread |-> IF t = t1 THEN Plan(1, Searches, Few) ELSE Plan(2, {"insert", "erase"}, Few)],
     InsertsBeside({n1, n4}, 1, {n2}),
     DirtyNode}
\* two calls each that change the list
TwoUpdatesEach == {[t \in Thread |-> Plan(2, {"insert", "erase"}, Few)]}

\* two inserts with one splice beside two erases
SpliceAmongErases == {InsertsBeside(Few, 2, Few)}
=============================================================================
