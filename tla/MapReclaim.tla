----------------------------- MODULE MapReclaim -----------------------------
(***************************************************************************)
(* Memory reclamation of CconcurrentMap (util/concurrent_map.h): the epoch *)
(* framework (Epoch) and the callback list (EpochCallback) composed with   *)
(* the protocol that every operation of the map follows, and finalize.     *)
(*                                                                         *)
(* What an operation does between entering and leaving is reduced to which *)
(* nodes it links and which it unlinks for the last time, by whichever     *)
(* thread drops the reference count to zero.                               *)
(***************************************************************************)
EXTENDS Epoch, FiniteSets

CONSTANTS
    Node,          \* memory for nodes; a freed node may be allocated again
    CbSlotCount,   \* epoch_callback_slot_size
    Int64Max,      \* INT64_MAX
    NoThread       \* no thread finalizes

\* 64-bit counters do not come near the epoch words that mean FREE and LOCKED
ASSUME MapAssumption ==
    /\ CbSlotCount \in Nat \ {0}
    /\ Int64Max \in Nat /\ 4 <= Int64Max /\ MaxEpoch <= Int64Max - 2
    /\ IsFiniteSet(Thread)
    /\ NoThread \notin Thread

VARIABLES
    trigger, context, drain_count, cpc, draining, ci, expected, csafe, mine,
    mineEpoch, took, result,    \* of EpochCallback
    mpc,           \* where thread t is in the protocol
    bag,           \* tc.reclaim, and the batch made of it until it is handed in
    reclaimEpoch,  \* reclaim_epoch of that batch
    node,          \* history: what the memory of a node is
    reach,         \* history: the nodes t may hold a pointer to
    finalizer      \* the thread inside finalize(), or NoThread

\* the non-empty sets of nodes: what a reclaim_context_t carries
CB == INSTANCE EpochCallback WITH Caller <- Thread, Ctx <- (SUBSET Node) \ {{}}, NoCtx <- {}

cbVars == <<trigger, context, drain_count, cpc, draining, ci, expected, csafe, mine,
            mineEpoch, took, result>>
mapVars == <<mpc, bag, reclaimEpoch, node, reach, finalizer>>
allVars == <<vars, cbVars, mapVars>>

MapTypeOK ==
    /\ TypeOK
    /\ CB!CbTypeOK
    /\ mpc \in [Thread -> {"out", "entering", "in", "bump", "ask", "wait", "register",
                           "swept", "askdrain", "drainwait", "draining", "dead"}]
    /\ bag \in [Thread -> SUBSET Node]
    /\ reclaimEpoch \in [Thread -> Nat]
    /\ node \in [Node -> {"free", "linked", "retired"}]
    /\ reach \in [Thread -> SUBSET Node]
    /\ finalizer \in Thread \cup {NoThread}

MapInit ==
    /\ Init
    /\ CB!CbInit
    /\ mpc = [t \in Thread |-> "out"]
    /\ bag = [t \in Thread |-> {}]
    /\ reclaimEpoch = [t \in Thread |-> 0]
    /\ node = [n \in Node |-> "free"]
    /\ reach = [t \in Thread |-> {}]
    /\ finalizer = NoThread

Linked == {n \in Node : node[n] = "linked"}
Inside(t) == mpc[t] = "in"
Goto(t, l) == mpc' = [mpc EXCEPT ![t] = l]
MayStart(t) == mpc[t] = "out" /\ pc[t] = "idle" /\ finalizer \in {t, NoThread}

(***************************************************************************)
(* register_thread and unregister_thread.                                  *)
(***************************************************************************)
RegisterThread(t) ==
    /\ MayStart(t) /\ finalizer = NoThread
    /\ RegisterBegin(t)
    /\ UNCHANGED <<cbVars, mapVars>>

UnregisterThread(t) ==
    /\ MayStart(t) /\ finalizer = NoThread
    /\ Unregister(t)
    /\ UNCHANGED <<cbVars, mapVars>>

\* the remaining steps of a call into the epoch framework, publication apart
EpochStep(t) ==
    /\ Continue(t)
    /\ pc[t] # "publish"
    /\ UNCHANGED <<cbVars, mapVars>>

(***************************************************************************)
(* CautoEpochBlock: every operation runs between Enter and LeaveMap.       *)
(***************************************************************************)
\* a plausible bug: the list is read before the slot is published
EnterMapUnprotected(t) ==
    /\ MayStart(t)
    /\ EnterPlain(t)
    /\ Goto(t, "entering")
    /\ reach' = [reach EXCEPT ![t] = Linked]
    /\ UNCHANGED <<cbVars, bag, reclaimEpoch, node, finalizer>>

\* the constructor of an epoch block.  A thread has one block at a time, as each
\* operation of the map has: the throw for a nested one is not reached
EnterMap(t) ==
    /\ MayStart(t)
    /\ EnterPlain(t)
    /\ Goto(t, "entering")
    /\ UNCHANGED <<cbVars, bag, reclaimEpoch, node, reach, finalizer>>

\* from here on the thread reads links: it may come to hold any linked node
Enter(t) ==
    /\ mpc[t] = "entering"
    /\ Publish(t)
    /\ Goto(t, "in")
    /\ reach' = [reach EXCEPT ![t] = Linked]
    /\ UNCHANGED <<cbVars, bag, reclaimEpoch, node, finalizer>>

\* emplace: every thread inside may find the new node
Link(t, n) ==
    /\ Inside(t) /\ finalizer = NoThread
    /\ node[n] = "free"
    /\ node' = [node EXCEPT ![n] = "linked"]
    /\ reach' = [u \in Thread |-> IF Inside(u) THEN reach[u] \cup {n} ELSE reach[u]]
    /\ UNCHANGED <<vars, cbVars, mpc, bag, reclaimEpoch, finalizer>>

\* bound: the counter has room for the bump of every non-empty bag, and for
\* one more of finalize
RoomToBump(t) ==
    LET bumps == {u \in Thread : u = t \/ (bag[u] # {} /\ mpc[u] \in {"in", "bump"})}
    IN  epoch + Cardinality(bumps) + (IF finalizer = NoThread THEN 1 ELSE 0) <= MaxEpoch

\* decrease_reference reaches zero: the last link to the node is gone
Unlink(t, n) ==
    /\ Inside(t)
    /\ RoomToBump(t)
    /\ node[n] = "linked"
    /\ node' = [node EXCEPT ![n] = "retired"]
    /\ bag' = [bag EXCEPT ![t] = @ \cup {n}]
    /\ UNCHANGED <<vars, cbVars, mpc, reclaimEpoch, reach, finalizer>>

\* a plausible bug: the sweep of finalize starts over
OverAlways(t) == "out"

\* an operation with nothing to reclaim is over; finalize goes on
Over(t) == IF finalizer = t THEN "swept" ELSE "out"

LeaveMap(t) ==
    /\ Inside(t)
    /\ finalizer = t => Linked = {}
    /\ Leave(t)
    /\ reach' = [reach EXCEPT ![t] = {}]
    /\ Goto(t, IF bag[t] = {} THEN Over(t) ELSE "bump")
    /\ UNCHANGED <<cbVars, bag, reclaimEpoch, node, finalizer>>

(***************************************************************************)
(* schedule_async_node_reclaim and schedule_node_reclaim: after leaving.   *)
(***************************************************************************)

BumpEpoch(t) ==
    /\ mpc[t] = "bump"
    /\ Bump(t)
    /\ reclaimEpoch' = [reclaimEpoch EXCEPT ![t] = epoch]
    /\ Goto(t, "ask")
    /\ UNCHANGED <<cbVars, bag, node, reach, finalizer>>

\* a plausible bug: the cached safe epoch is used, without a scan
AskCached(t) ==
    /\ mpc[t] \in {"ask", "askdrain"}
    /\ QueryLazy(t)
    /\ Goto(t, IF mpc[t] = "ask" THEN "wait" ELSE "drainwait")
    /\ UNCHANGED <<cbVars, bag, reclaimEpoch, node, reach, finalizer>>

AskSafe(t) ==
    /\ mpc[t] \in {"ask", "askdrain"}
    /\ QuerySafe(t)
    /\ Goto(t, IF mpc[t] = "ask" THEN "wait" ELSE "drainwait")
    /\ UNCHANGED <<cbVars, bag, reclaimEpoch, node, reach, finalizer>>

FreeAll(batch) == node' = [n \in Node |-> IF n \in batch THEN "free" ELSE node[n]]

HandedIn(t) ==
    /\ bag' = [bag EXCEPT ![t] = {}]
    /\ reclaimEpoch' = [reclaimEpoch EXCEPT ![t] = 0]
    /\ Goto(t, Over(t))

\* a plausible bug: off by one in the test of the safe epoch
FreeTooEarly(t) ==
    /\ mpc[t] = "wait" /\ pc[t] = "idle"
    /\ got[t] + 1 >= reclaimEpoch[t]
    /\ FreeAll(bag[t])
    /\ HandedIn(t)
    /\ UNCHANGED <<vars, cbVars, reach, finalizer>>

FreeNow(t) ==
    /\ mpc[t] = "wait" /\ pc[t] = "idle"
    /\ got[t] >= reclaimEpoch[t]
    /\ FreeAll(bag[t])
    /\ HandedIn(t)
    /\ UNCHANGED <<vars, cbVars, reach, finalizer>>

FreeLater(t) ==
    /\ mpc[t] = "wait" /\ pc[t] = "idle"
    /\ got[t] < reclaimEpoch[t]
    /\ CB!RegisterCallback(t, bag[t], reclaimEpoch[t], got[t])
    /\ Goto(t, "register")
    /\ UNCHANGED <<vars, bag, reclaimEpoch, node, reach, finalizer>>

CallbackStep(t) ==
    /\ CB!CbStep(t)
    /\ UNCHANGED <<vars, mapVars>>

\* node_reclaim deletes the nodes of the context it is given
NodeReclaim(t) ==
    /\ CB!RunCallback(t)
    /\ FreeAll(took[t])
    /\ UNCHANGED <<vars, mpc, bag, reclaimEpoch, reach, finalizer>>

Accepted(t) ==
    /\ mpc[t] = "register" /\ cpc[t] = "none"
    /\ result[t]
    /\ HandedIn(t)
    /\ UNCHANGED <<vars, cbVars, node, reach, finalizer>>

\* a plausible bug: a refused batch is not tried again
RefusedGivesUp(t) ==
    /\ mpc[t] = "register" /\ cpc[t] = "none"
    /\ ~result[t]
    /\ HandedIn(t)
    /\ UNCHANGED <<vars, cbVars, node, reach, finalizer>>

\* a plausible bug: a refused batch is tried again with the old safe epoch
RefusedNoRefresh(t) ==
    /\ mpc[t] = "register" /\ cpc[t] = "none"
    /\ ~result[t]
    /\ Goto(t, "wait")
    /\ UNCHANGED <<vars, cbVars, bag, reclaimEpoch, node, reach, finalizer>>

\* no room in the callback list: refresh the safe epoch and try again
Refused(t) ==
    /\ mpc[t] = "register" /\ cpc[t] = "none"
    /\ ~result[t]
    /\ Goto(t, "ask")
    /\ UNCHANGED <<vars, cbVars, bag, reclaimEpoch, node, reach, finalizer>>

(***************************************************************************)
(* finalize, to be called when every thread has unregistered: register,    *)
(* enter, erase all, leave, unregister, and drain the callback list.       *)
(***************************************************************************)
BeginFinalize(t) ==
    /\ finalizer = NoThread
    /\ \A u \in Thread : mpc[u] = "out" /\ pc[u] = "idle" /\ ~Registered(u)
    /\ RegisterBegin(t)
    /\ finalizer' = t
    /\ UNCHANGED <<cbVars, mpc, bag, reclaimEpoch, node, reach>>

UnregisterFinalizer(t) ==
    /\ mpc[t] = "swept"
    /\ Unregister(t)
    /\ Goto(t, "askdrain")
    /\ UNCHANGED <<cbVars, bag, reclaimEpoch, node, reach, finalizer>>

DrainAll(t) ==
    /\ mpc[t] = "drainwait" /\ pc[t] = "idle"
    /\ CB!Drain(t, got[t])
    /\ Goto(t, "draining")
    /\ UNCHANGED <<vars, bag, reclaimEpoch, node, reach, finalizer>>

\* ~CconcurrentMap and ~CepochCallback may run now
Finalized(t) ==
    /\ mpc[t] = "draining" /\ cpc[t] = "none"
    /\ Goto(t, "dead")
    /\ UNCHANGED <<vars, cbVars, bag, reclaimEpoch, node, reach, finalizer>>

(***************************************************************************)
(* The system.                                                             *)
(***************************************************************************)
Progress(t) ==
    \/ EpochStep(t)
    \/ Enter(t)
    \/ BumpEpoch(t)
    \/ AskSafe(t)
    \/ FreeNow(t)
    \/ FreeLater(t)
    \/ CallbackStep(t)
    \/ NodeReclaim(t)
    \/ Accepted(t)
    \/ Refused(t)
    \/ UnregisterFinalizer(t)
    \/ DrainAll(t)
    \/ Finalized(t)
    \/ finalizer = t /\ (EnterMap(t) \/ \E n \in Node : Unlink(t, n))

MapNext ==
    \E t \in Thread :
        \/ RegisterThread(t)
        \/ UnregisterThread(t)
        \/ EnterMap(t)
        \/ \E n \in Node : Link(t, n) \/ Unlink(t, n)
        \/ LeaveMap(t)
        \/ BeginFinalize(t)
        \/ Progress(t)

MapSpec == MapInit /\ [][MapNext]_allVars

\* every operation is finished, in particular every thread inside leaves
MapFairSpec ==
    /\ MapSpec
    /\ \A t \in Thread : WF_allVars(Progress(t)) /\ WF_allVars(LeaveMap(t))

(***************************************************************************)
(* Safety.                                                                 *)
(***************************************************************************)
\* No thread inside the map can reach memory that was given back, however the
\* scans, bumps, deferred and direct reclaims of all threads interleave.
NoUseAfterFree == \A t \in Thread : \A n \in reach[t] : node[n] # "free"

\* what t has unlinked and not handed in; a batch that register_callback has
\* moved into a slot is no longer t's, though t has yet to return from it
Owned(t) ==
    IF mpc[t] = "register" /\ (cpc[t] \in {"store", "run"} \/ result[t]) THEN {} ELSE bag[t]

\* Each unlinked node is in exactly one bag, callback slot or running callback,
\* and no other node is in any: nothing is leaked and nothing freed twice.
Holders(n) ==
    {<<"bag", t>> : t \in {u \in Thread : n \in Owned(u)}}
    \cup {<<"slot", i>> : i \in {j \in CB!CbSlot : n \in context[j]}}
    \cup {<<"run", t>> : t \in {u \in Thread : n \in took[u]}}

RetiredHeldOnce ==
    \A n \in Node : Cardinality(Holders(n)) = IF node[n] = "retired" THEN 1 ELSE 0

\* Who may still reach an unlinked node was published no later than the epoch
\* that the node waits for: why one bump per batch, after leaving, is enough.
HoldersEnteredBefore ==
    \A t \in Thread : \A n \in reach[t] :
        /\ \A i \in CB!CbSlot : n \in context[i] /\ CB!Published(i) => entered[tcs[t]] <= trigger[i]
        /\ \A u \in Thread : n \in Owned(u) /\ reclaimEpoch[u] > 0 => entered[tcs[t]] <= reclaimEpoch[u]
        /\ \A u \in Thread : n \notin took[u]

\* Every unlinked node is held once, and waits for an epoch that everybody who
\* may reach it has entered before.
MapInv == MapTypeOK /\ RetiredHeldOnce /\ HoldersEnteredBefore

\* After finalize nothing is left: no node, no kept callback (the destructor
\* of CepochCallback aborts otherwise) and no registered thread (that of Cepoch).
FinalizeFreesAll ==
    \A t \in Thread : mpc[t] = "dead" =>
        /\ \A n \in Node : node[n] = "free"
        /\ drain_count = 0
        /\ \A s \in Slot : ~used[s]

(***************************************************************************)
(* Liveness.                                                               *)
(***************************************************************************)
\* The retry loop of schedule_node_reclaim ends although the callback list may
\* stay full: threads inside leave, so the safe epoch reaches the batch's.
HandInEnds == \A t \in Thread : mpc[t] = "bump" ~> mpc[t] \in {"out", "swept"}

\* finalize terminates: it never waits for an epoch nobody will make safe.
FinalizeEnds == finalizer # NoThread ~> \E t \in Thread : mpc[t] = "dead"

(***************************************************************************)
(* Refinement: epochs and callbacks implement grace periods.               *)
(***************************************************************************)
Grace == INSTANCE GracePeriod WITH
    inside <- {t \in Thread : Inside(t)},
    status <- node,
    waiting <- [n \in Node |-> IF node[n] = "retired" THEN {t \in Thread : n \in reach[t]} ELSE {}]

ImplementsGrace == Grace!Spec
=============================================================================
