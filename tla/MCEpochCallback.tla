-------------------------- MODULE MCEpochCallback ---------------------------
(***************************************************************************)
(* The two halves of ebr/, each for itself: a behaviour is one of the      *)
(* epoch framework or one of the callback slots and their callers, the     *)
(* other half staying as it begins.  MapReclaim composes them.             *)
(***************************************************************************)
EXTENDS Epoch, CallbackClients, TLC

VARIABLE half

allVars == <<half, vars, clientVars>>

HalvesInit == half \in {"epoch", "callback"} /\ Init /\ ClientInit

HalvesNext ==
    \/ half = "epoch" /\ Next /\ UNCHANGED <<half, clientVars>>
    \/ half = "callback" /\ ClientNext /\ UNCHANGED <<half, vars>>

HalvesSpec == HalvesInit /\ [][HalvesNext]_allVars

\* threads and contexts are interchangeable, and so are callers: no definition names one
Symmetry == Permutations(Thread \cup Ctx) \cup Permutations(Caller)
=============================================================================
