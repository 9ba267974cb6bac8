------------------------------ MODULE MCParts -------------------------------
(***************************************************************************)
(* The upgradable control and other small parts that share no state,       *)
(* explored in one run: each behaviour is one of one part, the others      *)
(* staying as they begin.                                                  *)
(***************************************************************************)
EXTENDS ConcurrencyControl, Segment, ThreadPool, ConcurrentStack

VARIABLES part, word

Slabs == INSTANCE Heap WITH WordBits <- 8, IdxBits <- 4, MinBits <- 2, asked <- word

allVars == <<part, vars, segVars, poolVars, stackVars, word>>

PartsInit ==
    /\ part \in {"control", "segments", "pool", "stack", "slabs"}
    /\ Init /\ SegInit /\ PoolInit /\ StackInit /\ Slabs!HeapInit

PartsNext ==
    \/ /\ part = "control" /\ Next
       /\ UNCHANGED <<part, segVars, poolVars, stackVars, word>>
    \/ /\ part = "segments" /\ SegNext
       /\ UNCHANGED <<part, vars, poolVars, stackVars, word>>
    \/ /\ part = "pool" /\ PoolNext
       /\ UNCHANGED <<part, vars, segVars, stackVars, word>>
    \/ /\ part = "stack" /\ StackNext
       /\ UNCHANGED <<part, vars, segVars, poolVars, word>>
    \/ /\ part = "slabs" /\ Slabs!HeapNext
       /\ UNCHANGED <<part, vars, segVars, poolVars, stackVars>>

\* a part that has not begun is asked for nothing by its fairness
PartsSpec ==
    /\ PartsInit /\ [][PartsNext]_allVars
    /\ \A t \in Thread : WF_vars(Step(t))
    /\ PoolFair

HeapInv == Slabs!HeapInv
=============================================================================
