---------------------------- MODULE GracePeriod ----------------------------
(***************************************************************************)
(* What the reclamation of CconcurrentMap promises, with no epochs: a node *)
(* that was unlinked is freed only after every thread that was inside the  *)
(* map at that time has left.                                              *)
(***************************************************************************)
CONSTANTS Thread, Node

VARIABLES
    inside,      \* the threads inside an operation of the map
    status,      \* status[n]: free memory, linked in the map, or retired
    waiting      \* waiting[n]: the threads a retired node still waits for

vars == <<inside, status, waiting>>

Init ==
    /\ inside = {}
    /\ status = [n \in Node |-> "free"]
    /\ waiting = [n \in Node |-> {}]

Enter(t) ==
    /\ inside' = inside \cup {t}
    /\ UNCHANGED <<status, waiting>>

Leave(t) ==
    /\ inside' = inside \ {t}
    /\ waiting' = [n \in Node |-> waiting[n] \ {t}]
    /\ UNCHANGED status

Link(t, n) ==
    /\ t \in inside
    /\ status[n] = "free"
    /\ status' = [status EXCEPT ![n] = "linked"]
    /\ UNCHANGED <<inside, waiting>>

Retire(t, n) ==
    /\ t \in inside
    /\ status[n] = "linked"
    /\ status' = [status EXCEPT ![n] = "retired"]
    /\ waiting' = [waiting EXCEPT ![n] = inside]
    /\ UNCHANGED inside

Free(batch) ==
    /\ \A n \in batch : status[n] = "retired" /\ waiting[n] = {}
    /\ status' = [n \in Node |-> IF n \in batch THEN "free" ELSE status[n]]
    /\ UNCHANGED <<inside, waiting>>

Next ==
    \/ \E t \in Thread : Enter(t) \/ Leave(t)
    \/ \E t \in Thread, n \in Node : Link(t, n) \/ Retire(t, n)
    \/ \E batch \in SUBSET Node : Free(batch)

Spec == Init /\ [][Next]_vars
=============================================================================
