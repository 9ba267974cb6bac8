-------------------------- MODULE CallbackPromise --------------------------
(***************************************************************************)
(* What CepochCallback promises, with no slots and no locks: a context     *)
(* handed in with a reclaim epoch is run at most once, and only when the   *)
(* safe epoch has reached its reclaim epoch.  Until then it is kept.       *)
(***************************************************************************)
EXTENDS Integers

CONSTANTS
    Ctx,             \* the contexts that callers hand in
    ReclaimEpoch     \* the epochs they name

VARIABLES
    safe,            \* the largest safe epoch any caller has seen
    pending,         \* the contexts kept, each with its reclaim epoch
    ran              \* the contexts whose callback was run

vars == <<safe, pending, ran>>

Init ==
    /\ safe \in Nat
    /\ pending = {}
    /\ ran = {}

AdvanceSafe ==
    /\ safe' >= safe
    /\ UNCHANGED <<pending, ran>>

Register(c, e) ==
    /\ c \notin ran
    /\ \A p \in pending : p[1] # c
    /\ pending' = pending \cup {<<c, e>>}
    /\ UNCHANGED <<safe, ran>>

Run(c, e) ==
    /\ <<c, e>> \in pending
    /\ e <= safe
    /\ pending' = pending \ {<<c, e>>}
    /\ ran' = ran \cup {c}
    /\ UNCHANGED safe

\* A swap takes one context in and hands another one out to be run.
Next ==
    \/ AdvanceSafe
    \/ \E c \in Ctx, e \in ReclaimEpoch : Register(c, e)
    \/ \E p \in pending : Run(p[1], p[2])

Spec == Init /\ [][Next]_vars
=============================================================================
