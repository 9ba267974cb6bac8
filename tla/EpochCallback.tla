--------------------------- MODULE EpochCallback ---------------------------
(***************************************************************************)
(* CepochCallback of ebr/epoch_callback.h: a fixed array of slots that     *)
(* keeps callbacks until their epoch is safe.  A slot's epoch word is its  *)
(* lock: FREE, LOCKED, or the epoch at which the kept callback may run.    *)
(* Loads and compare-exchanges of that word are steps of their own; what a *)
(* thread does to a slot it has LOCKED is invisible to others until the    *)
(* store that unlocks it, and is part of that store's step.                *)
(***************************************************************************)
EXTENDS Integers, FiniteSets

CONSTANTS
    Caller,       \* the calling threads
    CbSlotCount,  \* slot_number_
    Ctx,          \* CallbackContext values
    NoCtx,        \* a moved-from context
    Int64Max      \* INT64_MAX: larger than any normal epoch by two and more

ASSUME CbAssumption ==
    /\ CbSlotCount \in Nat \ {0}
    /\ Int64Max \in Nat \ {0, 1}
    /\ NoCtx \notin Ctx
    /\ IsFiniteSet(Caller)

CbSlot == 0 .. CbSlotCount - 1
CbIndex == 0 .. CbSlotCount

FREE == Int64Max
LOCKED == Int64Max - 1
NormalEpoch == 1 .. Int64Max - 2

VARIABLES
    trigger,      \* drain_list_[i].epoch
    context,      \* drain_list_[i].context
    drain_count,  \* drain_count_
    cpc,          \* where thread t is inside register_callback or drain
    draining,     \* draining[t]: the call is drain
    ci,           \* its loop index
    expected,     \* trigger_epoch it loaded
    csafe,        \* its argument safe_reclaim_epoch
    mine,         \* register_callback: its context argument
    mineEpoch,    \* register_callback: its reclaim_epoch argument
    took,         \* the context moved out of a slot and not yet run
    result        \* what t's last register_callback returned

cbCall == <<draining, csafe, mine, mineEpoch>>
cbSlots == <<trigger, context, drain_count>>
cbVars == <<trigger, context, drain_count, cpc, ci, expected, took, result,
            draining, csafe, mine, mineEpoch>>

\* where a call may stand: between calls, before a load of an epoch word,
\* before a compare-exchange, inside the lock, and after it
CbPlace == {"none", "look", "push", "swap", "pop", "count", "store", "swapped", "popped",
            "run", "decrement"}

CbTypeOK ==
    /\ trigger \in [CbSlot -> NormalEpoch \cup {FREE, LOCKED}]
    /\ context \in [CbSlot -> Ctx \cup {NoCtx}]
    /\ drain_count \in Nat
    /\ cpc \in [Caller -> CbPlace]
    /\ draining \in [Caller -> BOOLEAN]
    /\ ci \in [Caller -> CbIndex]
    /\ expected \in [Caller -> NormalEpoch \cup {FREE}]
    /\ csafe \in [Caller -> Nat]
    /\ mine \in [Caller -> Ctx \cup {NoCtx}]
    /\ mineEpoch \in [Caller -> NormalEpoch \cup {0}]
    /\ took \in [Caller -> Ctx \cup {NoCtx}]
    /\ result \in [Caller -> BOOLEAN]

CbInit ==
    /\ trigger = [i \in CbSlot |-> FREE]
    /\ context = [i \in CbSlot |-> NoCtx]
    /\ drain_count = 0
    /\ cpc = [t \in Caller |-> "none"]
    /\ draining = [t \in Caller |-> FALSE]
    /\ ci = [t \in Caller |-> 0]
    /\ expected = [t \in Caller |-> FREE]
    /\ csafe = [t \in Caller |-> 0]
    /\ mine = [t \in Caller |-> NoCtx]
    /\ mineEpoch = [t \in Caller |-> 0]
    /\ took = [t \in Caller |-> NoCtx]
    /\ result = [t \in Caller |-> FALSE]

(***************************************************************************)
(* Entering and leaving a call.                                            *)
(***************************************************************************)
\* register_callback(tc, s, e, node_reclaim, c, _); asserted: s < e
RegisterCallback(t, c, e, s) ==
    /\ cpc[t] = "none"
    /\ s < e
    /\ cpc' = [cpc EXCEPT ![t] = "look"]
    /\ ci' = [ci EXCEPT ![t] = 0]
    /\ mine' = [mine EXCEPT ![t] = c]
    /\ mineEpoch' = [mineEpoch EXCEPT ![t] = e]
    /\ csafe' = [csafe EXCEPT ![t] = s]
    /\ result' = [result EXCEPT ![t] = FALSE]
    /\ UNCHANGED <<cbSlots, draining, expected, took>>

\* drain(tc, s, _) does nothing if the counter it loads is zero
Drain(t, s) ==
    /\ cpc[t] = "none"
    /\ s > 0
    /\ IF drain_count > 0
       THEN /\ cpc' = [cpc EXCEPT ![t] = "look"]
            /\ ci' = [ci EXCEPT ![t] = 0]
            /\ csafe' = [csafe EXCEPT ![t] = s]
            /\ draining' = [draining EXCEPT ![t] = TRUE]
       ELSE UNCHANGED <<cpc, ci, csafe, draining>>
    /\ UNCHANGED <<cbSlots, expected, mine, mineEpoch, took, result>>

CbReturn(t, r) ==
    /\ cpc' = [cpc EXCEPT ![t] = "none"]
    /\ ci' = [ci EXCEPT ![t] = 0]
    /\ expected' = [expected EXCEPT ![t] = FREE]
    /\ draining' = [draining EXCEPT ![t] = FALSE]
    /\ csafe' = [csafe EXCEPT ![t] = 0]
    /\ mine' = [mine EXCEPT ![t] = NoCtx]
    /\ mineEpoch' = [mineEpoch EXCEPT ![t] = 0]
    /\ result' = [result EXCEPT ![t] = r]

NextSlot(t) ==
    /\ cpc' = [cpc EXCEPT ![t] = "look"]
    /\ ci' = [ci EXCEPT ![t] = @ + 1]
    /\ expected' = [expected EXCEPT ![t] = FREE]

(***************************************************************************)
(* The loop over the slots, shared by the two calls: load the epoch word   *)
(* and choose.  FREE and LOCKED are larger than any safe epoch.            *)
(***************************************************************************)

\* a plausible bug: a context is due only after its epoch
LookStrict(t) ==
    LET e == trigger[ci[t]] IN
    /\ cpc[t] = "look"
    /\ ci[t] < CbSlotCount
    /\ \/ /\ e = FREE /\ ~draining[t]
          /\ cpc' = [cpc EXCEPT ![t] = "push"]
          /\ expected' = [expected EXCEPT ![t] = e]
          /\ UNCHANGED ci
       \/ /\ e < csafe[t]
          /\ cpc' = [cpc EXCEPT ![t] = IF draining[t] THEN "pop" ELSE "swap"]
          /\ expected' = [expected EXCEPT ![t] = e]
          /\ UNCHANGED ci
       \/ /\ e >= csafe[t] /\ (e = FREE => draining[t])
          /\ NextSlot(t)
    /\ UNCHANGED <<cbSlots, cbCall, took, result>>

\* a plausible bug: a context is due one epoch early
LookEarly(t) ==
    LET e == trigger[ci[t]] IN
    /\ cpc[t] = "look"
    /\ ci[t] < CbSlotCount
    /\ \/ /\ e = FREE /\ ~draining[t]
          /\ cpc' = [cpc EXCEPT ![t] = "push"]
          /\ expected' = [expected EXCEPT ![t] = e]
          /\ UNCHANGED ci
       \/ /\ e <= csafe[t] + 1
          /\ cpc' = [cpc EXCEPT ![t] = IF draining[t] THEN "pop" ELSE "swap"]
          /\ expected' = [expected EXCEPT ![t] = e]
          /\ UNCHANGED ci
       \/ /\ e > csafe[t] + 1 /\ (e = FREE => draining[t])
          /\ NextSlot(t)
    /\ UNCHANGED <<cbSlots, cbCall, took, result>>

Look(t) ==
    LET e == trigger[ci[t]] IN
    /\ cpc[t] = "look"
    /\ ci[t] < CbSlotCount
    /\ \/ /\ e = FREE /\ ~draining[t]
          /\ cpc' = [cpc EXCEPT ![t] = "push"]
          /\ expected' = [expected EXCEPT ![t] = e]
          /\ UNCHANGED ci
       \/ /\ e <= csafe[t]
          /\ cpc' = [cpc EXCEPT ![t] = IF draining[t] THEN "pop" ELSE "swap"]
          /\ expected' = [expected EXCEPT ![t] = e]
          /\ UNCHANGED ci
       \/ /\ e > csafe[t] /\ (e = FREE => draining[t])
          /\ NextSlot(t)
    /\ UNCHANGED <<cbSlots, cbCall, took, result>>

\* no slot could be had: register_callback is false, drain is over
LookEnd(t) ==
    /\ cpc[t] = "look"
    /\ ci[t] = CbSlotCount
    /\ CbReturn(t, FALSE)
    /\ UNCHANGED <<cbSlots, took>>

\* the compare-exchange from the loaded value to LOCKED, in the three try_ functions
Lock(t, from, to) ==
    /\ cpc[t] = from
    /\ IF trigger[ci[t]] = expected[t]
       THEN /\ trigger' = [trigger EXCEPT ![ci[t]] = LOCKED]
            /\ cpc' = [cpc EXCEPT ![t] = to]
            /\ UNCHANGED <<ci, expected>>
       ELSE /\ NextSlot(t)
            /\ UNCHANGED trigger
    /\ UNCHANGED <<context, drain_count, cbCall, took, result>>

PushLock(t) == Lock(t, "push", "count")
SwapLock(t) == Lock(t, "swap", "swapped")
PopLock(t) == Lock(t, "pop", "popped")

(***************************************************************************)
(* try_push: the counter grows inside the lock, before the slot shows.     *)
(***************************************************************************)

PushCount(t) ==
    /\ cpc[t] = "count"
    /\ context' = [context EXCEPT ![ci[t]] = mine[t]]
    /\ drain_count' = drain_count + 1
    /\ cpc' = [cpc EXCEPT ![t] = "store"]
    /\ UNCHANGED <<trigger, ci, expected, cbCall, took, result>>

PushStore(t) ==
    /\ cpc[t] = "store"
    /\ trigger' = [trigger EXCEPT ![ci[t]] = mineEpoch[t]]
    /\ CbReturn(t, TRUE)
    /\ UNCHANGED <<context, drain_count, took>>

(***************************************************************************)
(* try_swap and try_pop: take the kept context, unlock, then run it.       *)
(***************************************************************************)
\* a plausible bug: the swapped out context is overwritten before it is moved
SwapStoreDrops(t) ==
    /\ cpc[t] = "swapped"
    /\ took' = [took EXCEPT ![t] = mine[t]]
    /\ context' = [context EXCEPT ![ci[t]] = mine[t]]
    /\ trigger' = [trigger EXCEPT ![ci[t]] = mineEpoch[t]]
    /\ mine' = [mine EXCEPT ![t] = NoCtx]
    /\ cpc' = [cpc EXCEPT ![t] = "run"]
    /\ UNCHANGED <<drain_count, ci, expected, draining, csafe, mineEpoch, result>>

SwapStore(t) ==
    /\ cpc[t] = "swapped"
    /\ took' = [took EXCEPT ![t] = context[ci[t]]]
    /\ context' = [context EXCEPT ![ci[t]] = mine[t]]
    /\ trigger' = [trigger EXCEPT ![ci[t]] = mineEpoch[t]]
    /\ mine' = [mine EXCEPT ![t] = NoCtx]
    /\ cpc' = [cpc EXCEPT ![t] = "run"]
    /\ UNCHANGED <<drain_count, ci, expected, draining, csafe, mineEpoch, result>>

PopStore(t) ==
    /\ cpc[t] = "popped"
    /\ took' = [took EXCEPT ![t] = context[ci[t]]]
    /\ context' = [context EXCEPT ![ci[t]] = NoCtx]
    /\ trigger' = [trigger EXCEPT ![ci[t]] = FREE]
    /\ cpc' = [cpc EXCEPT ![t] = "run"]
    /\ UNCHANGED <<drain_count, ci, expected, cbCall, result>>

\* the callback itself; it leaves help_drain alone, as node_reclaim does
RunCallback(t) ==
    /\ cpc[t] = "run"
    /\ took' = [took EXCEPT ![t] = NoCtx]
    /\ IF draining[t]
       THEN /\ cpc' = [cpc EXCEPT ![t] = "decrement"]
            /\ UNCHANGED <<ci, expected, draining, csafe, mine, mineEpoch, result>>
       ELSE CbReturn(t, TRUE)
    /\ UNCHANGED cbSlots

\* drain returns as soon as its decrement makes the counter zero
Decrement(t) ==
    /\ cpc[t] = "decrement"
    /\ drain_count' = drain_count - 1
    /\ IF drain_count = 1
       THEN CbReturn(t, FALSE)
       ELSE NextSlot(t) /\ UNCHANGED <<cbCall, result>>
    /\ UNCHANGED <<trigger, context, took>>

\* every step of a call but the callback, which its user completes
CbStep(t) ==
    \/ Look(t)
    \/ LookEnd(t)
    \/ PushLock(t)
    \/ SwapLock(t)
    \/ PopLock(t)
    \/ PushCount(t)
    \/ PushStore(t)
    \/ SwapStore(t)
    \/ PopStore(t)
    \/ Decrement(t)

Published(i) == trigger[i] \in NormalEpoch

(***************************************************************************)
(* Safety, for every user of the list.                                     *)
(***************************************************************************)
\* drain_count_ is exact: one for each kept context and one for each context a
\* drain has taken out and not yet deducted.  So a zero means nothing is kept,
\* on which the early exits of drain and the destructor's check rest.
Full == {i \in CbSlot : context[i] # NoCtx}
Undeducted == {t \in Caller : draining[t] /\ cpc[t] \in {"run", "decrement"}}

CountExact == drain_count = Cardinality(Full) + Cardinality(Undeducted)
=============================================================================
