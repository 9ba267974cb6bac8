------------------------------- MODULE Epoch -------------------------------
(***************************************************************************)
(* Cepoch of ebr/epoch.h: the epoch framework that tells a thread when     *)
(* memory unlinked from a shared structure may be freed.                   *)
(*                                                                         *)
(* One global counter (epoch), one cached bound (safe) and one slot per    *)
(* registered thread.  Every access to an atomic is a step of its own; a   *)
(* step of thread t also does the thread-local work that follows it.       *)
(* The counter is the default int64_t, for which REWIND_CHECK is false.    *)
(***************************************************************************)
EXTENDS Integers

CONSTANTS
    Thread,      \* the threads that use the framework
    SlotCount,   \* max_epoch_thread_number
    MaxEpoch,    \* bound: the counter is not bumped past it
    MaxNest      \* bound on nested enters of one thread

ASSUME SlotCountAssumption == SlotCount \in Nat \ {0}
ASSUME BoundAssumption == MaxEpoch \in Nat /\ MaxNest \in Nat

Slot == 0 .. SlotCount - 1
Index == 0 .. SlotCount     \* of a loop over the slots

EPOCH_UNPROTECTED == 0
Unregistered == -1          \* DEFAULT_TCS_VAL, a negative tcs_t

VARIABLES
    epoch,        \* epoch_
    safe,         \* safe_reclaim_epoch_
    local,        \* slots_[s].local_current_epoch
    reentrant,    \* slots_[s].reentrant
    used,         \* slots_[s].used
    tcs,          \* tcs[t]: the slot index thread t keeps, or Unregistered
    pc,           \* where thread t is inside an operation
    publishes,    \* publishes[t]: the scan of t is part of an enter
    now,          \* now_epoch of t's enter, or of its scan
    idx,          \* loop index of t over the slots
    low,          \* safe_epoch of t's scan
    last,         \* last_safe_epoch of t's scan
    got,          \* the safe epoch t's last operation returned, 0 if none
    entered       \* history: value of epoch when slot s was last published

shared  == <<epoch, safe>>
slots   == <<local, reentrant, used, tcs, entered>>
scanned == <<publishes, now, idx, low, last>>
vars    == <<epoch, safe, local, reentrant, used, tcs, entered,
             publishes, now, idx, low, last, pc, got>>

TypeOK ==
    /\ epoch \in Nat
    /\ safe \in Nat
    /\ local \in [Slot -> Nat]
    /\ reentrant \in [Slot -> Nat]
    /\ used \in [Slot -> BOOLEAN]
    /\ tcs \in [Thread -> Slot \cup {Unregistered}]
    /\ pc \in [Thread -> {"idle", "register", "lazy", "scan", "raise", "publish"}]
    /\ publishes \in [Thread -> BOOLEAN]
    /\ now \in [Thread -> Nat]
    /\ idx \in [Thread -> Index]
    /\ low \in [Thread -> Nat]
    /\ last \in [Thread -> Nat]
    /\ got \in [Thread -> Nat]
    /\ entered \in [Slot -> Nat]

Init ==
    /\ epoch = EPOCH_UNPROTECTED + 2
    /\ safe = EPOCH_UNPROTECTED + 1
    /\ local = [s \in Slot |-> EPOCH_UNPROTECTED]
    /\ reentrant = [s \in Slot |-> 0]
    /\ used = [s \in Slot |-> FALSE]
    /\ tcs = [t \in Thread |-> Unregistered]
    /\ pc = [t \in Thread |-> "idle"]
    /\ publishes = [t \in Thread |-> FALSE]
    /\ now = [t \in Thread |-> 0]
    /\ idx = [t \in Thread |-> 0]
    /\ low = [t \in Thread |-> 0]
    /\ last = [t \in Thread |-> 0]
    /\ got = [t \in Thread |-> 0]
    /\ entered = [s \in Slot |-> 0]

(***************************************************************************)
(* Reading the state.                                                      *)
(***************************************************************************)
Registered(t) == tcs[t] # Unregistered
Protected(s) == local[s] # EPOCH_UNPROTECTED
IsProtected(t) == Registered(t) /\ Protected(tcs[t])

\* safe_to_reclaim, for a counter that does not rewind
SafeToReclaim(testEpoch, safeEpoch) == safeEpoch - testEpoch >= 0

(***************************************************************************)
(* register_epoch_thread and unregister_epoch_thread.  acquire() of a free *)
(* slot wins or loses by one test_and_set; the slot fields it then resets  *)
(* are zero already.  release() throws inside a protected region.          *)
(***************************************************************************)
RegisterBegin(t) ==
    /\ pc[t] = "idle"
    /\ ~Registered(t)
    /\ pc' = [pc EXCEPT ![t] = "register"]
    /\ idx' = [idx EXCEPT ![t] = 0]
    /\ got' = [got EXCEPT ![t] = 0]
    /\ UNCHANGED <<shared, slots, publishes, now, low, last>>

\* a plausible bug: a slot is taken without the test of test_and_set
RegisterTryUntested(t) ==
    /\ pc[t] = "register"
    /\ idx[t] < SlotCount
    /\ used' = [used EXCEPT ![idx[t]] = TRUE]
    /\ local' = [local EXCEPT ![idx[t]] = EPOCH_UNPROTECTED]
    /\ reentrant' = [reentrant EXCEPT ![idx[t]] = 0]
    /\ tcs' = [tcs EXCEPT ![t] = idx[t]]
    /\ pc' = [pc EXCEPT ![t] = "idle"]
    /\ idx' = [idx EXCEPT ![t] = 0]
    /\ UNCHANGED <<shared, entered, publishes, now, low, last, got>>

RegisterTry(t) ==
    /\ pc[t] = "register"
    /\ idx[t] < SlotCount
    /\ IF used[idx[t]]
       THEN /\ idx' = [idx EXCEPT ![t] = @ + 1]
            /\ UNCHANGED <<local, reentrant, used, tcs, pc>>
       ELSE /\ used' = [used EXCEPT ![idx[t]] = TRUE]
            /\ local' = [local EXCEPT ![idx[t]] = EPOCH_UNPROTECTED]
            /\ reentrant' = [reentrant EXCEPT ![idx[t]] = 0]
            /\ tcs' = [tcs EXCEPT ![t] = idx[t]]
            /\ pc' = [pc EXCEPT ![t] = "idle"]
            /\ idx' = [idx EXCEPT ![t] = 0]
    /\ UNCHANGED <<shared, entered, publishes, now, low, last, got>>

\* every slot was taken: the caller gets an exception and stays unregistered
RegisterFull(t) ==
    /\ pc[t] = "register"
    /\ idx[t] = SlotCount
    /\ pc' = [pc EXCEPT ![t] = "idle"]
    /\ idx' = [idx EXCEPT ![t] = 0]
    /\ UNCHANGED <<shared, slots, publishes, now, low, last, got>>

Unregister(t) ==
    /\ pc[t] = "idle"
    /\ Registered(t)
    /\ local[tcs[t]] = EPOCH_UNPROTECTED
    /\ reentrant[tcs[t]] = 0
    /\ used' = [used EXCEPT ![tcs[t]] = FALSE]
    /\ tcs' = [tcs EXCEPT ![t] = Unregistered]
    /\ got' = [got EXCEPT ![t] = 0]
    /\ UNCHANGED <<shared, local, reentrant, entered, pc, scanned>>

(***************************************************************************)
(* enter: get_epoch_for_enter loads the counter, may obtain a safe epoch   *)
(* (cached, or by a scan), and only then the slot is published.            *)
(***************************************************************************)
BeginEnter(t) ==
    /\ pc[t] = "idle"
    /\ Registered(t)
    /\ reentrant[tcs[t]] < MaxNest
    /\ now' = [now EXCEPT ![t] = epoch]
    /\ got' = [got EXCEPT ![t] = 0]
    /\ UNCHANGED <<shared, slots, last>>

\* enter(id, _, nullptr): no safe epoch is asked for
EnterPlain(t) ==
    /\ BeginEnter(t)
    /\ pc' = [pc EXCEPT ![t] = "publish"]
    /\ UNCHANGED <<publishes, idx, low>>

\* enter(id, false, &safe)
EnterLazy(t) ==
    /\ BeginEnter(t)
    /\ pc' = [pc EXCEPT ![t] = "lazy"]
    /\ UNCHANGED <<publishes, idx, low>>

LazySafe(t) ==
    /\ pc[t] = "lazy"
    /\ got' = [got EXCEPT ![t] = safe]
    /\ pc' = [pc EXCEPT ![t] = "publish"]
    /\ UNCHANGED <<shared, slots, scanned>>

\* enter(id, true, &safe)
EnterRefresh(t) ==
    /\ BeginEnter(t)
    /\ pc' = [pc EXCEPT ![t] = "scan"]
    /\ idx' = [idx EXCEPT ![t] = 0]
    /\ low' = [low EXCEPT ![t] = epoch]
    /\ publishes' = [publishes EXCEPT ![t] = TRUE]

(***************************************************************************)
(* epoch_slot_t::enter: the CAS succeeds on the outermost enter only.      *)
(***************************************************************************)

Publish(t) ==
    LET s == tcs[t] IN
    /\ pc[t] = "publish"
    /\ IF local[s] = EPOCH_UNPROTECTED
       THEN /\ local' = [local EXCEPT ![s] = now[t]]
            /\ entered' = [entered EXCEPT ![s] = epoch]
       ELSE UNCHANGED <<local, entered>>
    /\ reentrant' = [reentrant EXCEPT ![s] = @ + 1]
    /\ pc' = [pc EXCEPT ![t] = "idle"]
    /\ now' = [now EXCEPT ![t] = 0]
    /\ UNCHANGED <<shared, used, tcs, publishes, idx, low, last, got>>

Leave(t) ==
    /\ pc[t] = "idle"
    /\ IsProtected(t)
    /\ reentrant' = [reentrant EXCEPT ![tcs[t]] = @ - 1]
    /\ local' = IF reentrant[tcs[t]] = 1
                THEN [local EXCEPT ![tcs[t]] = EPOCH_UNPROTECTED]
                ELSE local
    /\ got' = [got EXCEPT ![t] = 0]
    /\ UNCHANGED <<shared, used, tcs, entered, pc, scanned>>

(***************************************************************************)
(* get_safe_reclaim_epoch.  Any thread may ask, registered or not.         *)
(***************************************************************************)
QueryLazy(t) ==
    /\ pc[t] = "idle"
    /\ got' = [got EXCEPT ![t] = safe]
    /\ UNCHANGED <<shared, slots, pc, scanned>>

QuerySafe(t) ==
    /\ pc[t] = "idle"
    /\ pc' = [pc EXCEPT ![t] = "scan"]
    /\ now' = [now EXCEPT ![t] = epoch]
    /\ idx' = [idx EXCEPT ![t] = 0]
    /\ low' = [low EXCEPT ![t] = epoch]
    /\ got' = [got EXCEPT ![t] = 0]
    /\ UNCHANGED <<shared, slots, publishes, last>>

(***************************************************************************)
(* get_safe_reclaim_epoch_internal: the minimum over the published slots,  *)
(* read one by one, minus one; then safe is raised to it, never lowered.   *)
(***************************************************************************)
\* a plausible bug: the last published slot counts, not the smallest
ScanSlotLatest(t) ==
    LET ongoing == local[idx[t]] IN
    /\ pc[t] = "scan"
    /\ idx[t] < SlotCount
    /\ low' = [low EXCEPT ![t] = IF ongoing # EPOCH_UNPROTECTED THEN ongoing ELSE @]
    /\ idx' = [idx EXCEPT ![t] = @ + 1]
    /\ UNCHANGED <<shared, slots, publishes, now, last, pc, got>>

ScanSlot(t) ==
    LET ongoing == local[idx[t]] IN
    /\ pc[t] = "scan"
    /\ idx[t] < SlotCount
    /\ low' = [low EXCEPT ![t] =
                 IF ongoing # EPOCH_UNPROTECTED /\ ongoing < @ THEN ongoing ELSE @]
    /\ idx' = [idx EXCEPT ![t] = @ + 1]
    /\ UNCHANGED <<shared, slots, publishes, now, last, pc, got>>

\* a plausible bug: the minimum itself is taken for safe
ScanDoneUnreduced(t) ==
    /\ pc[t] = "scan"
    /\ idx[t] = SlotCount
    /\ last' = [last EXCEPT ![t] = safe]
    /\ idx' = [idx EXCEPT ![t] = 0]
    /\ pc' = [pc EXCEPT ![t] = "raise"]
    /\ UNCHANGED <<shared, slots, publishes, now, low, got>>

\* a plausible bug: the scan stops before the last slot
ScanDoneEarly(t) ==
    /\ pc[t] = "scan"
    /\ idx[t] >= SlotCount - 1
    /\ low' = [low EXCEPT ![t] = @ - 1]
    /\ last' = [last EXCEPT ![t] = safe]
    /\ idx' = [idx EXCEPT ![t] = 0]
    /\ pc' = [pc EXCEPT ![t] = "raise"]
    /\ UNCHANGED <<shared, slots, publishes, now, got>>

ScanDone(t) ==
    /\ pc[t] = "scan"
    /\ idx[t] = SlotCount
    /\ low' = [low EXCEPT ![t] = @ - 1]
    /\ last' = [last EXCEPT ![t] = safe]
    /\ idx' = [idx EXCEPT ![t] = 0]
    /\ pc' = [pc EXCEPT ![t] = "raise"]
    /\ UNCHANGED <<shared, slots, publishes, now, got>>

\* the scan of t returns result, to the enter it is part of or to its caller
Return(t, result) ==
    /\ got' = [got EXCEPT ![t] = result]
    /\ pc' = [pc EXCEPT ![t] = IF publishes[t] THEN "publish" ELSE "idle"]
    /\ now' = [now EXCEPT ![t] = IF publishes[t] THEN @ ELSE 0]
    /\ publishes' = [publishes EXCEPT ![t] = FALSE]
    /\ low' = [low EXCEPT ![t] = 0]
    /\ last' = [last EXCEPT ![t] = 0]
    /\ UNCHANGED <<epoch, slots, idx>>

\* a plausible bug: a store in place of the loop of comparison and exchange
RaiseBlind(t) ==
    /\ pc[t] = "raise"
    /\ safe' = low[t]
    /\ Return(t, low[t])

Raise(t) ==
    /\ pc[t] = "raise"
    /\ low[t] - last[t] > 0
    /\ safe = last[t]
    /\ safe' = low[t]
    /\ Return(t, low[t])

\* a plausible bug: the loop does not take over the value that beat it
RaiseRetryStale(t) ==
    /\ pc[t] = "raise"
    /\ low[t] - last[t] > 0
    /\ safe # last[t]
    /\ UNCHANGED vars

\* the compare-exchange lost: it loads the value that beat it
RaiseRetry(t) ==
    /\ pc[t] = "raise"
    /\ low[t] - last[t] > 0
    /\ safe # last[t]
    /\ last' = [last EXCEPT ![t] = safe]
    /\ UNCHANGED <<shared, slots, publishes, now, idx, low, pc, got>>

RaiseStale(t) ==
    /\ pc[t] = "raise"
    /\ low[t] - last[t] <= 0
    /\ Return(t, last[t])
    /\ UNCHANGED safe

(***************************************************************************)
(* bump_epoch_for_reclaim returns the counter's old value.                 *)
(***************************************************************************)
Bump(t) ==
    /\ pc[t] = "idle"
    /\ epoch < MaxEpoch
    /\ epoch' = epoch + 1
    /\ got' = [got EXCEPT ![t] = 0]
    /\ UNCHANGED <<safe, slots, pc, scanned>>

(***************************************************************************)
(* The steps that finish an operation already begun, and the whole system. *)
(***************************************************************************)
Continue(t) ==
    \/ RegisterTry(t)
    \/ RegisterFull(t)
    \/ LazySafe(t)
    \/ Publish(t)
    \/ ScanSlot(t)
    \/ ScanDone(t)
    \/ Raise(t)
    \/ RaiseRetry(t)
    \/ RaiseStale(t)

Call(t) ==
    \/ RegisterBegin(t)
    \/ Unregister(t)
    \/ EnterPlain(t)
    \/ EnterLazy(t)
    \/ EnterRefresh(t)
    \/ Leave(t)
    \/ QueryLazy(t)
    \/ QuerySafe(t)
    \/ Bump(t)

Next == \E t \in Thread : Call(t) \/ Continue(t)

Spec == Init /\ [][Next]_vars

(***************************************************************************)
(* Safety.                                                                 *)
(***************************************************************************)
\* The cached bound, and so every answer to "which epoch is safe", stays
\* below the epoch at which each thread now inside its region became visible:
\* what such a thread can still reach was retired at that epoch or later.
\* get_safe_reclaim_epoch_internal may miss a slot published behind its scan,
\* and may see one published with an old counter value; neither may hurt.
SafeBelowEntry == \A s \in Slot : Protected(s) => safe < entered[s]

\* An answer already handed out stays valid: it never exceeds the bound and
\* never covers the epoch the counter still has, so memory retired from now
\* on is not yet safe for anybody holding an old answer.
AnswerStaysSafe == safe < epoch /\ \A t \in Thread : got[t] <= safe

\* A slot belongs to one thread at a time, and a taken slot has an owner,
\* whatever the races of register_epoch_thread and unregister_epoch_thread.
\* A free slot is never protected, so a leaver leaves nothing that pins safe.
SlotOwnedOnce ==
    /\ \A t, u \in Thread : t # u /\ Registered(t) => tcs[t] # tcs[u]
    /\ \A s \in Slot : used[s] <=> \E t \in Thread : tcs[t] = s
    /\ \A s \in Slot : Protected(s) <=> reentrant[s] > 0
    /\ \A s \in Slot : Protected(s) => used[s]

(***************************************************************************)
(* The strengthening that makes the safety invariants inductive.           *)
(***************************************************************************)
\* A thread on its way to publish its slot is registered and carries an old
\* value of the counter.
EnteringInv ==
    \A t \in Thread :
        /\ pc[t] = "register" => ~Registered(t)
        /\ pc[t] \in {"lazy", "publish"} => Registered(t) /\ 0 < now[t] /\ now[t] <= epoch
        /\ publishes[t] => /\ pc[t] \in {"scan", "raise"}
                          /\ Registered(t) /\ 0 < now[t] /\ now[t] <= epoch

\* A published value is at most the counter at publication.
PublishedInv ==
    \A s \in Slot : Protected(s) => local[s] <= entered[s] /\ entered[s] <= epoch

\* A scan's minimum is bounded by the entry epoch of every slot it has
\* passed, also of those published after it passed them.
ScanInv ==
    \A t \in Thread :
        /\ pc[t] = "scan" =>
              /\ 0 < low[t] /\ low[t] <= epoch
              /\ \A s \in Slot : s < idx[t] /\ Protected(s) => low[t] <= entered[s]
        /\ pc[t] = "raise" =>
              /\ low[t] < epoch
              /\ last[t] <= safe
              /\ \A s \in Slot : Protected(s) => low[t] < entered[s]

InductiveInv ==
    /\ TypeOK
    /\ 0 < safe
    /\ SafeBelowEntry
    /\ AnswerStaysSafe
    /\ SlotOwnedOnce
    /\ EnteringInv
    /\ PublishedInv
    /\ ScanInv

(***************************************************************************)
(* Action properties.                                                      *)
(***************************************************************************)
\* "Strictly grow forwardly" (epoch.h:130): scans that overlap never take
\* the cached bound back, whichever of them finishes last.
SafeOnlyGrows == [][safe' >= safe]_safe

(***************************************************************************)
(* Liveness.                                                               *)
(***************************************************************************)
\* No operation starves: the retry loop of the scan loses a compare-exchange
\* only to a larger bound, so it ends although other threads keep scanning.
OperationsFinish == \A t \in Thread : pc[t] # "idle" ~> pc[t] = "idle"

=============================================================================
