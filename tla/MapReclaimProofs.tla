-------------------------- MODULE MapReclaimProofs --------------------------
(***************************************************************************)
(* Proofs about MapReclaim, for any number of threads, epoch slots,        *)
(* callback slots and nodes: no use after free, every unlinked node held   *)
(* exactly once, finalize frees all, and the refinement of GracePeriod.    *)
(*                                                                         *)
(* They compose the proofs about Epoch and EpochCallback: every step of    *)
(* the map is a step or a stutter of either.                               *)
(***************************************************************************)
EXTENDS MapReclaim, EpochProofs, FiniteSetTheorems

CBP == INSTANCE EpochCallbackProofs WITH Caller <- Thread, Ctx <- (SUBSET Node) \ {{}}, NoCtx <- {}

CbSlot == 0 .. CbSlotCount - 1

\* Where a thread is in each of its three automata, and what it carries there.
Mode(t) ==
    /\ ~publishes[t]
    /\ mpc[t] = "out" => pc[t] \in {"idle", "register"}
    /\ mpc[t] = "entering" => pc[t] = "publish"
    /\ mpc[t] \in {"wait", "drainwait"} => pc[t] \in {"idle", "scan", "raise"}
    /\ mpc[t] \notin {"out", "entering", "wait", "drainwait"} => pc[t] = "idle"
    /\ IF Inside(t) THEN Registered(t) /\ reentrant[tcs[t]] = 1
                    ELSE /\ Registered(t) => reentrant[tcs[t]] = 0
                         /\ reach[t] = {}
    /\ csafe[t] <= safe

\* The batch on its way from the bag into the callback list.
Batch(t) ==
    /\ mpc[t] \in {"bump", "ask", "wait", "register"} => bag[t] # {}
    /\ mpc[t] \notin {"in", "bump", "ask", "wait", "register"} => bag[t] = {}
    /\ IF mpc[t] \in {"ask", "wait", "register"}
       THEN 0 < reclaimEpoch[t] /\ reclaimEpoch[t] < epoch
       ELSE reclaimEpoch[t] = 0
    /\ cpc[t] # "none" => /\ mpc[t] \in {"register", "draining"}
                          /\ draining[t] <=> mpc[t] = "draining"
                          /\ mpc[t] = "register" => ~result[t]
    /\ mine[t] # {} => mine[t] = bag[t] /\ mineEpoch[t] = reclaimEpoch[t]

ModeInv == \A t \in Thread : Mode(t) /\ Batch(t)

\* Each unlinked node is in one place, and no other node is in any.
HeldInv ==
    \A n \in Node :
        /\ \A i, j \in CbSlot : n \in context[i] /\ n \in context[j] => i = j
        /\ \A t, u \in Thread : n \in Owned(t) /\ n \in Owned(u) => t = u
        /\ \A t, u \in Thread : n \in took[t] /\ n \in took[u] => t = u
        /\ \A t \in Thread, i \in CbSlot : n \in context[i] => n \notin Owned(t) /\ n \notin took[t]
        /\ \A t, u \in Thread : n \in Owned(t) => n \notin took[u]
        /\ node[n] = "retired" <=> \/ \E i \in CbSlot : n \in context[i]
                                   \/ \E t \in Thread : n \in Owned(t) \/ n \in took[t]

\* What a thread can reach waits for an epoch it has entered before, and is
\* in nobody's hands who is about to free it.
ReachInv ==
    \A t \in Thread :
        /\ Inside(t) => Linked \subseteq reach[t]
        /\ \A n \in reach[t] :
              /\ node[n] # "free"
              /\ \A i \in CbSlot : n \in context[i] /\ CB!Published(i) => entered[tcs[t]] <= trigger[i]
              /\ \A u \in Thread :
                    /\ n \in Owned(u) /\ reclaimEpoch[u] > 0 => entered[tcs[t]] <= reclaimEpoch[u]
                    /\ n \in mine[u] => entered[tcs[t]] <= mineEpoch[u]
                    /\ n \notin took[u]
                    /\ cpc[u] \in {"swapped", "popped"} => n \notin context[ci[u]]

\* Every kept epoch is one the counter has left behind.
EpochInv ==
    /\ epoch <= Int64Max - 2
    /\ \A i \in CbSlot : CB!Published(i) => trigger[i] < epoch

\* finalize runs alone, finds every epoch safe and empties every slot.
FinalInv ==
    /\ \A t \in Thread : mpc[t] \in {"swept", "askdrain", "drainwait", "draining", "dead"} =>
          finalizer = t
    /\ \A f \in Thread : finalizer = f =>
          /\ \A u \in Thread : u # f => mpc[u] = "out" /\ pc[u] = "idle" /\ ~Registered(u)
          /\ mpc[f] \notin {"out", "entering", "in"} => \A n \in Node : node[n] # "linked"
          /\ mpc[f] \in {"askdrain", "drainwait", "draining", "dead"} => ~Registered(f)
          /\ mpc[f] = "drainwait" =>
                /\ pc[f] = "scan" => low[f] = epoch
                /\ pc[f] = "raise" => low[f] = epoch - 1
                /\ pc[f] = "idle" => got[f] >= epoch - 1
          /\ mpc[f] = "draining" /\ cpc[f] # "none" =>
                /\ csafe[f] >= epoch - 1
                /\ \A i \in CbSlot : CBP!Passed(f, i) => context[i] = {}
                /\ cpc[f] = "pop" => trigger[ci[f]] = expected[f]
          /\ mpc[f] = "dead" \/ (mpc[f] = "draining" /\ cpc[f] = "none") =>
                drain_count = 0 /\ \A i \in CbSlot : context[i] = {}

MapInductive ==
    /\ InductiveInv
    /\ CBP!CbInductive
    /\ MapTypeOK
    /\ ModeInv
    /\ HeldInv
    /\ ReachInv
    /\ EpochInv
    /\ FinalInv

(***************************************************************************)
(* The parts: each step of the map is a step or a stutter of the epoch     *)
(* framework, and of the callback list.                                    *)
(***************************************************************************)
\* The callback list's assumption holds of the constants it is given here.
LEMMA ListAssumption == CBP!CbAssumption
<1>1. CBP!IsFiniteSet(Thread)
  BY MapAssumption DEF IsFiniteSet, CBP!IsFiniteSet
<1> QED
  BY <1>1, MapAssumption DEF CBP!CbAssumption

\* MapReclaim and these proofs instantiate the same definitions.
LEMMA SameSteps ==
  ASSUME NEW t \in Thread
  PROVE  /\ CB!Look(t) <=> CBP!Look(t)
         /\ CB!LookEnd(t) <=> CBP!LookEnd(t)
         /\ CB!PushLock(t) <=> CBP!PushLock(t)
         /\ CB!SwapLock(t) <=> CBP!SwapLock(t)
         /\ CB!PopLock(t) <=> CBP!PopLock(t)
         /\ CB!PushCount(t) <=> CBP!PushCount(t)
         /\ CB!PushStore(t) <=> CBP!PushStore(t)
         /\ CB!SwapStore(t) <=> CBP!SwapStore(t)
         /\ CB!PopStore(t) <=> CBP!PopStore(t)
         /\ CB!Decrement(t) <=> CBP!Decrement(t)
         /\ CB!RunCallback(t) <=> CBP!RunCallback(t)
<1>1. CB!Look(t) <=> CBP!Look(t)
  BY DEF CB!Look, CBP!Look, CB!NextSlot, CBP!NextSlot, CB!FREE, CBP!FREE, CB!cbSlots, CBP!cbSlots,
         CB!cbCall, CBP!cbCall
<1>2. CB!LookEnd(t) <=> CBP!LookEnd(t)
  BY DEF CB!LookEnd, CBP!LookEnd, CB!CbReturn, CBP!CbReturn, CB!FREE, CBP!FREE, CB!cbSlots, CBP!cbSlots
<1>3. /\ CB!PushLock(t) <=> CBP!PushLock(t)
      /\ CB!SwapLock(t) <=> CBP!SwapLock(t)
      /\ CB!PopLock(t) <=> CBP!PopLock(t)
  BY DEF CB!PushLock, CBP!PushLock, CB!SwapLock, CBP!SwapLock, CB!PopLock, CBP!PopLock,
         CB!Lock, CBP!Lock, CB!NextSlot, CBP!NextSlot, CB!FREE, CBP!FREE, CB!LOCKED, CBP!LOCKED,
         CB!cbCall, CBP!cbCall
<1>4. CB!PushCount(t) <=> CBP!PushCount(t)
  BY DEF CB!PushCount, CBP!PushCount, CB!cbCall, CBP!cbCall
<1>5. CB!PushStore(t) <=> CBP!PushStore(t)
  BY DEF CB!PushStore, CBP!PushStore, CB!CbReturn, CBP!CbReturn, CB!FREE, CBP!FREE
<1>6. CB!SwapStore(t) <=> CBP!SwapStore(t)
  BY DEF CB!SwapStore, CBP!SwapStore
<1>7. CB!PopStore(t) <=> CBP!PopStore(t)
  BY DEF CB!PopStore, CBP!PopStore, CB!cbCall, CBP!cbCall, CB!FREE, CBP!FREE
<1>8. CB!Decrement(t) <=> CBP!Decrement(t)
  BY DEF CB!Decrement, CBP!Decrement, CB!CbReturn, CBP!CbReturn, CB!FREE, CBP!FREE, CB!NextSlot,
         CBP!NextSlot, CB!cbCall, CBP!cbCall
<1>9. CB!RunCallback(t) <=> CBP!RunCallback(t)
  BY DEF CB!RunCallback, CBP!RunCallback, CB!CbReturn, CBP!CbReturn, CB!FREE, CBP!FREE,
         CB!cbSlots, CBP!cbSlots
<1> QED
  BY <1>1, <1>2, <1>3, <1>4, <1>5, <1>6, <1>7, <1>8, <1>9

\* The same of whole calls and of what is read from the list.
LEMMA SameOps ==
  ASSUME NEW t \in Thread, NEW c, NEW e, NEW s
  PROVE  /\ CB!CbStep(t) <=> CBP!CbStep(t)
         /\ CB!RegisterCallback(t, c, e, s) <=> CBP!RegisterCallback(t, c, e, s)
         /\ CB!Drain(t, s) <=> CBP!Drain(t, s)
         /\ CB!CbTypeOK <=> CBP!CbTypeOK
         /\ CB!CbInit <=> CBP!CbInit
         /\ CB!Published(s) <=> CBP!Published(s)
<1>1. CB!CbStep(t) <=> CBP!CbStep(t)
  BY SameSteps DEF CB!CbStep, CBP!CbStep
<1>2. CB!RegisterCallback(t, c, e, s) <=> CBP!RegisterCallback(t, c, e, s)
  BY DEF CB!RegisterCallback, CBP!RegisterCallback, CB!cbSlots, CBP!cbSlots
<1>3. CB!Drain(t, s) <=> CBP!Drain(t, s)
  BY DEF CB!Drain, CBP!Drain, CB!cbSlots, CBP!cbSlots
<1>4. CB!CbTypeOK <=> CBP!CbTypeOK
  BY DEF CB!CbTypeOK, CBP!CbTypeOK, CB!CbSlot, CBP!CbSlot, CB!CbIndex, CBP!CbIndex, CB!CbPlace,
         CBP!CbPlace, CB!NormalEpoch, CBP!NormalEpoch, CB!FREE, CBP!FREE, CB!LOCKED, CBP!LOCKED
<1>5. CB!CbInit <=> CBP!CbInit
  BY DEF CB!CbInit, CBP!CbInit, CB!CbSlot, CBP!CbSlot, CB!FREE, CBP!FREE
<1>6. CB!Published(s) <=> CBP!Published(s)
  BY DEF CB!Published, CBP!Published, CB!NormalEpoch, CBP!NormalEpoch
<1> QED
  BY <1>1, <1>2, <1>3, <1>4, <1>5, <1>6

\* One thread takes the step.
MapStep(t) ==
    \/ RegisterThread(t) \/ UnregisterThread(t) \/ EnterMap(t)
    \/ (\E n \in Node : Link(t, n) \/ Unlink(t, n))
    \/ LeaveMap(t) \/ BeginFinalize(t) \/ EpochStep(t) \/ Enter(t) \/ BumpEpoch(t) \/ AskSafe(t)
    \/ FreeNow(t) \/ FreeLater(t) \/ CallbackStep(t) \/ NodeReclaim(t) \/ Accepted(t) \/ Refused(t)
    \/ UnregisterFinalizer(t) \/ DrainAll(t) \/ Finalized(t)

\* A step of the map is a step of one of its threads.
LEMMA MapSteps == MapNext => \E t \in Thread : MapStep(t)
BY DEF MapNext, Progress, MapStep

\* What a step of t is to the epoch framework.
LEMMA EpochPart ==
  ASSUME NEW t \in Thread, MapStep(t)
  PROVE  Call(t) \/ Continue(t) \/ UNCHANGED vars
<1>1. CASE RegisterThread(t) \/ UnregisterThread(t) \/ EnterMap(t) \/ LeaveMap(t) \/ BeginFinalize(t)
  BY <1>1 DEF RegisterThread, UnregisterThread, EnterMap, LeaveMap, BeginFinalize, Call
<1>2. CASE EpochStep(t) \/ Enter(t) \/ BumpEpoch(t) \/ AskSafe(t) \/ UnregisterFinalizer(t)
  BY <1>2 DEF EpochStep, Enter, BumpEpoch, AskSafe, UnregisterFinalizer, Call, Continue
<1>3. CASE \/ (\E n \in Node : Link(t, n) \/ Unlink(t, n)) \/ FreeNow(t) \/ FreeLater(t)
           \/ CallbackStep(t) \/ NodeReclaim(t) \/ Accepted(t) \/ Refused(t) \/ DrainAll(t) \/ Finalized(t)
  BY <1>3 DEF Link, Unlink, FreeNow, FreeLater, CallbackStep, NodeReclaim, Accepted, Refused,
              DrainAll, Finalized
<1> QED
  BY <1>1, <1>2, <1>3 DEF MapStep

\* What a step of t is to the callback list.
LEMMA ListPart ==
  ASSUME MapInductive, NEW t \in Thread, MapStep(t)
  PROVE  CBP!CbOp(t) \/ UNCHANGED cbVars
<1>1. CASE \/ RegisterThread(t) \/ UnregisterThread(t) \/ EnterMap(t) \/ LeaveMap(t)
           \/ BeginFinalize(t) \/ (\E n \in Node : Link(t, n) \/ Unlink(t, n))
           \/ EpochStep(t) \/ Enter(t) \/ BumpEpoch(t) \/ AskSafe(t) \/ UnregisterFinalizer(t)
           \/ FreeNow(t) \/ Accepted(t) \/ Refused(t) \/ Finalized(t)
  BY <1>1 DEF RegisterThread, UnregisterThread, EnterMap, LeaveMap, BeginFinalize, Link, Unlink,
              EpochStep, Enter, BumpEpoch, AskSafe, UnregisterFinalizer, FreeNow, Accepted,
              Refused, Finalized
<1>2. CASE CallbackStep(t) \/ NodeReclaim(t)
  BY <1>2, SameSteps, SameOps DEF CallbackStep, NodeReclaim, CBP!CbOp
<1>3. CASE FreeLater(t)
  <2>1. /\ bag[t] \in (SUBSET Node) \ {{}} /\ reclaimEpoch[t] \in CBP!NormalEpoch /\ got[t] \in Nat
    <3>1. Batch(t) /\ EpochInv /\ TypeOK /\ bag[t] \in SUBSET Node /\ reclaimEpoch[t] \in Nat
      BY DEF MapInductive, ModeInv, MapTypeOK
    <3> QED
      BY <1>3, <3>1, MapAssumption DEF FreeLater, Batch, EpochInv, CBP!NormalEpoch, TypeOK
  <2>2. CBP!RegisterCallback(t, bag[t], reclaimEpoch[t], got[t])
    BY <1>3, SameOps DEF FreeLater
  <2> QED
    BY <2>1, <2>2 DEF CBP!CbOp
<1>4. CASE DrainAll(t)
  <2>1. got[t] \in 1 .. Int64Max - 2
    <3>1. EpochInv /\ TypeOK /\ got[t] <= safe /\ safe < epoch
      BY DEF MapInductive, InductiveInv, AnswerStaysSafe
    <3>2. got[t] > 0
      BY <1>4 DEF DrainAll, CB!Drain
    <3> QED
      BY <3>1, <3>2, MapAssumption DEF TypeOK, EpochInv
  <2>2. CBP!Drain(t, got[t])
    BY <1>4, SameOps DEF DrainAll
  <2> QED
    BY <2>1, <2>2 DEF CBP!CbOp
<1> QED
  BY <1>1, <1>2, <1>3, <1>4 DEF MapStep

\* So both inductive invariants carry over to the composition.
LEMMA PartsStep ==
  ASSUME MapInductive, [MapNext]_allVars
  PROVE  InductiveInv' /\ CBP!CbInductive'
<1>0. InductiveInv /\ CBP!CbInductive
  BY DEF MapInductive
<1>1. CASE UNCHANGED allVars
  <2>1. UNCHANGED vars /\ UNCHANGED cbVars
    BY <1>1 DEF allVars
  <2>2. UNCHANGED CBP!cbVars
    BY <2>1 DEF cbVars, CBP!cbVars
  <2>3. InductiveInv'
    BY <1>0, <2>1, Inductive
  <2>4. CBP!CbInductive'
    BY <1>0, <2>2, CBP!CbInductiveStutter, ListAssumption
  <2> QED
    BY <2>3, <2>4
<1>2. ASSUME NEW t \in Thread, MapStep(t) PROVE InductiveInv' /\ CBP!CbInductive'
  <2>1. [Next]_vars
    BY <1>2, EpochPart DEF Next
  <2>2. InductiveInv'
    BY <1>0, <2>1, Inductive
  <2>3. CASE CBP!CbOp(t)
    <3>1. CBP!CbInductive'
      BY <1>0, <2>3, CBP!CbInductiveStep, ListAssumption
    <3> QED
      BY <2>2, <3>1
  <2>4. CASE UNCHANGED cbVars
    <3>1. UNCHANGED CBP!cbVars
      BY <2>4 DEF cbVars, CBP!cbVars
    <3>2. CBP!CbInductive'
      BY <1>0, <3>1, CBP!CbInductiveStutter, ListAssumption
    <3> QED
      BY <2>2, <3>2
  <2> QED
    BY <1>2, <2>3, <2>4, ListPart
<1> QED
  BY <1>1, <1>2, MapSteps

\* Two bounds never go back, and what a thread has in its own slot stays.
LEMMA EpochKept ==
  ASSUME InductiveInv, NEW t \in Thread, MapStep(t)
  PROVE  /\ safe' >= safe /\ epoch' >= epoch
         /\ BumpEpoch(t) \/ epoch' = epoch
         /\ \A u \in Thread : u # t =>
               /\ tcs'[u] = tcs[u] /\ pc'[u] = pc[u] /\ publishes'[u] = publishes[u]
               /\ got'[u] = got[u] /\ low'[u] = low[u]
               /\ Registered(u) => reentrant'[tcs[u]] = reentrant[tcs[u]]
<1>0. TypeOK /\ SlotOwnedOnce /\ EnteringInv
  BY DEF InductiveInv
<1>1. CASE UNCHANGED vars
  BY <1>0, <1>1 DEF vars, TypeOK
<1>2. CASE Call(t) \/ Continue(t)
  <2>1. safe' >= safe
    <3>1. CASE Raise(t)
      BY <1>0, <3>1 DEF Raise, TypeOK
    <3> QED
      BY <1>0, <1>2, <3>1, SharedWriters DEF TypeOK
  <2>2. Bump(t) => BumpEpoch(t)
    <3>1. epoch' = epoch => ~Bump(t)
      BY <1>0 DEF Bump, TypeOK
    <3>2. BumpEpoch(t) \/ epoch' = epoch
      BY <1>2, <1>0 DEF MapStep, RegisterThread, UnregisterThread, EnterMap, LeaveMap, BeginFinalize, Link,
              Unlink, EpochStep, Continue, Enter, AskSafe, UnregisterFinalizer, FreeNow, FreeLater,
              CallbackStep, NodeReclaim, Accepted, Refused, DrainAll, Finalized, vars, shared,
              RegisterBegin, RegisterTry, RegisterFull, Unregister, EnterPlain, BeginEnter, Publish,
              Leave, QuerySafe, LazySafe, ScanSlot, ScanDone, Raise, RaiseRetry, RaiseStale, Return
    <3> QED
      BY <3>1, <3>2
  <2>3. epoch' >= epoch /\ (Bump(t) \/ epoch' = epoch)
    BY <1>0, <1>2, SharedWriters DEF Bump, TypeOK
  <2>4. ASSUME NEW u \in Thread, u # t, Registered(u)
        PROVE  reentrant'[tcs[u]] = reentrant[tcs[u]]
    BY <1>0, <1>2, <2>4, SlotWriters, SlotFacts DEF RegisterTry, Unregister, Publish, Leave, slots,
         SlotOwnedOnce, Registered, IsProtected, TypeOK, EnteringInv
  <2> QED
    BY <1>0, <1>2, <2>1, <2>2, <2>3, <2>4, OthersUntouched
<1> QED
  BY <1>1, <1>2, EpochPart

\* The map's own variables keep their types.
LEMMA MapTypesStep ==
  ASSUME MapInductive, [MapNext]_allVars
  PROVE  MapTypeOK'
<1>0. MapTypeOK
  BY DEF MapInductive
<1>a. TypeOK' /\ CB!CbTypeOK'
  <2>1. CB!CbTypeOK' <=> CBP!CbTypeOK'
    BY DEF CB!CbTypeOK, CBP!CbTypeOK, CB!CbSlot, CBP!CbSlot, CB!CbIndex, CBP!CbIndex, CB!CbPlace,
           CBP!CbPlace, CB!NormalEpoch, CBP!NormalEpoch, CB!FREE, CBP!FREE, CB!LOCKED, CBP!LOCKED
  <2> QED
    BY <2>1, PartsStep DEF InductiveInv, CBP!CbInductive
<1> DEFINE Places == {"out", "entering", "in", "bump", "ask", "wait", "register",
                      "swept", "askdrain", "drainwait", "draining", "dead"}
<1> DEFINE Own == /\ mpc \in [Thread -> Places]
                  /\ bag \in [Thread -> SUBSET Node]
                  /\ reclaimEpoch \in [Thread -> Nat]
                  /\ node \in [Node -> {"free", "linked", "retired"}]
                  /\ reach \in [Thread -> SUBSET Node]
                  /\ finalizer \in Thread \cup {NoThread}
<1>b. Own /\ epoch \in Nat
  BY <1>0 DEF MapTypeOK, TypeOK
<1>1. ASSUME UNCHANGED allVars PROVE Own'
  BY <1>b, <1>1 DEF allVars, mapVars
<1>2. ASSUME NEW t \in Thread, MapStep(t) PROVE Own'
  <2>1. CASE RegisterThread(t) \/ UnregisterThread(t) \/ EpochStep(t) \/ CallbackStep(t)
    BY <1>b, <2>1 DEF RegisterThread, UnregisterThread, EpochStep, CallbackStep, mapVars
  <2>2. CASE EnterMap(t) \/ AskSafe(t) \/ FreeLater(t) \/ Refused(t) \/ UnregisterFinalizer(t)
             \/ DrainAll(t) \/ Finalized(t)
    BY <1>b, <2>2 DEF EnterMap, AskSafe, FreeLater, Refused, UnregisterFinalizer, DrainAll,
                      Finalized, Goto
  <2>3. CASE LeaveMap(t) \/ Enter(t)
    BY <1>b, <2>3 DEF LeaveMap, Enter, Goto, Over, Linked
  <2>4. CASE \E n \in Node : Link(t, n) \/ Unlink(t, n)
    BY <1>b, <2>4 DEF Link, Unlink
  <2>5. CASE BumpEpoch(t) \/ BeginFinalize(t)
    BY <1>b, <2>5 DEF BumpEpoch, BeginFinalize, Goto
  <2>6. CASE FreeNow(t) \/ NodeReclaim(t) \/ Accepted(t)
    BY <1>b, <2>6 DEF FreeNow, NodeReclaim, Accepted, FreeAll, HandedIn, Goto, Over
  <2> QED
    BY <1>2, <2>1, <2>2, <2>3, <2>4, <2>5, <2>6 DEF MapStep
<1> QED
  BY <1>a, <1>1, <1>b, <1>2, MapSteps DEF MapTypeOK

\* A step of t leaves what another thread carries alone.
LEMMA OthersKept ==
  ASSUME MapInductive, NEW t \in Thread, MapStep(t), NEW u \in Thread, u # t
  PROVE  /\ mpc'[u] = mpc[u] /\ bag'[u] = bag[u] /\ reclaimEpoch'[u] = reclaimEpoch[u]
         /\ cpc'[u] = cpc[u] /\ draining'[u] = draining[u] /\ ci'[u] = ci[u]
         /\ expected'[u] = expected[u] /\ csafe'[u] = csafe[u] /\ mine'[u] = mine[u]
         /\ mineEpoch'[u] = mineEpoch[u] /\ took'[u] = took[u] /\ result'[u] = result[u]
         /\ Owned(u)' = Owned(u)
         /\ reach'[u] = reach[u] \/ \E n \in Node : Link(t, n) /\ reach'[u] = reach[u] \cup {n} /\ Inside(u)
<1>0. MapTypeOK /\ CBP!CbTypeOK
  BY DEF MapInductive, CBP!CbInductive
<1>1. mpc'[u] = mpc[u] /\ bag'[u] = bag[u] /\ reclaimEpoch'[u] = reclaimEpoch[u]
  <2>1. CASE RegisterThread(t) \/ UnregisterThread(t) \/ EpochStep(t) \/ CallbackStep(t)
    BY <2>1 DEF RegisterThread, UnregisterThread, EpochStep, CallbackStep, mapVars
  <2>2. CASE EnterMap(t) \/ AskSafe(t) \/ FreeLater(t) \/ Refused(t) \/ UnregisterFinalizer(t)
             \/ DrainAll(t) \/ Finalized(t) \/ LeaveMap(t) \/ Enter(t)
    BY <1>0, <2>2 DEF EnterMap, AskSafe, FreeLater, Refused, UnregisterFinalizer, DrainAll,
                      Finalized, Goto, LeaveMap, Enter, MapTypeOK
  <2>3. CASE \/ (\E n \in Node : Link(t, n) \/ Unlink(t, n))
             \/ BumpEpoch(t) \/ BeginFinalize(t) \/ FreeNow(t) \/ NodeReclaim(t) \/ Accepted(t)
    BY <1>0, <2>3 DEF Link, Unlink, BumpEpoch, BeginFinalize, FreeNow, NodeReclaim, Accepted,
                      HandedIn, Goto, MapTypeOK
  <2> QED
    BY <2>1, <2>2, <2>3 DEF MapStep
<1>2. /\ cpc'[u] = cpc[u] /\ draining'[u] = draining[u] /\ ci'[u] = ci[u]
      /\ expected'[u] = expected[u] /\ csafe'[u] = csafe[u] /\ mine'[u] = mine[u]
      /\ mineEpoch'[u] = mineEpoch[u] /\ took'[u] = took[u] /\ result'[u] = result[u]
  <2>1. CASE UNCHANGED cbVars
    BY <2>1 DEF cbVars
  <2>2. CASE CBP!CbOp(t)
    BY <1>0, <2>2, CBP!CbOthers, ListAssumption
  <2> QED
    BY <2>1, <2>2, ListPart
<1>3. Owned(u)' = Owned(u)
  BY <1>1, <1>2 DEF Owned
<1>4. reach'[u] = reach[u] \/ \E n \in Node : Link(t, n) /\ reach'[u] = reach[u] \cup {n} /\ Inside(u)
  <2>1. CASE \E n \in Node : Link(t, n)
    BY <1>0, <2>1 DEF Link, MapTypeOK
  <2>2. CASE ~ \E n \in Node : Link(t, n)
    BY <1>0, <2>2 DEF MapStep, RegisterThread, UnregisterThread, EpochStep, CallbackStep, mapVars,
            EnterMap, AskSafe, FreeLater, Refused, UnregisterFinalizer, DrainAll, Finalized,
            LeaveMap, Enter, Unlink, BumpEpoch, BeginFinalize, FreeNow, NodeReclaim, Accepted, MapTypeOK
  <2> QED
    BY <2>1, <2>2
<1> QED
  BY <1>1, <1>2, <1>3, <1>4

\* Within a call of the callback list, the epoch side of the thread waits.
LEMMA ListLocals ==
  ASSUME MapInductive, NEW t \in Thread, CallbackStep(t) \/ NodeReclaim(t)
  PROVE  /\ UNCHANGED <<vars, mpc, bag, reclaimEpoch, reach, finalizer>>
         /\ cpc[t] # "none"
         /\ csafe'[t] <= csafe[t] \/ csafe'[t] = 0
         /\ cpc'[t] # "none" => /\ draining'[t] = draining[t] /\ result'[t] = result[t]
                                /\ csafe'[t] = csafe[t]
         /\ mine'[t] # {} => mine'[t] = mine[t] /\ mineEpoch'[t] = mineEpoch[t]
<1>1. CBP!CbTypeOK /\ (CBP!CbStep(t) \/ CBP!RunCallback(t))
  BY SameOps, SameSteps DEF MapInductive, CBP!CbInductive, CallbackStep, NodeReclaim
<1>2. csafe[t] \in Int
  BY <1>1 DEF CBP!CbTypeOK
<1>3. UNCHANGED <<vars, mpc, bag, reclaimEpoch, reach, finalizer>>
  BY DEF CallbackStep, NodeReclaim, mapVars
<1> QED
  BY <1>1, <1>2, <1>3, CBP!CallLocals, ListAssumption

\* Every step keeps each thread where its three automata agree.
LEMMA ModeStep ==
  ASSUME MapInductive, NEW t \in Thread, MapStep(t)
  PROVE  \A u \in Thread : Mode(u)'
<1>0. /\ Mode(t) /\ Batch(t) /\ TypeOK /\ SlotOwnedOnce /\ MapTypeOK /\ InductiveInv
      /\ \A u \in Thread : csafe[u] \in Nat
      /\ safe' \in Int /\ got[t] <= safe /\ MapInductive
  <2>1. InductiveInv'
    BY PartsStep, MapStep(t) => MapNext DEF MapNext, MapStep, Progress
  <2> QED
    BY <2>1, SMTT(30) DEF MapInductive, ModeInv, InductiveInv, CBP!CbInductive, CBP!CbTypeOK, TypeOK,
           AnswerStaysSafe
<1>1. safe' >= safe
  BY <1>0, EpochKept
<1>2. ASSUME NEW u \in Thread, u # t PROVE Mode(u)'
  <2>1. /\ Mode(u)
        /\ mpc'[u] = mpc[u] /\ csafe'[u] = csafe[u] /\ (~Inside(u) => reach'[u] = reach[u])
        /\ tcs'[u] = tcs[u] /\ pc'[u] = pc[u] /\ publishes'[u] = publishes[u]
        /\ Registered(u) => reentrant'[tcs[u]] = reentrant[tcs[u]]
    BY <1>0, <1>2, OthersKept, EpochKept DEF MapInductive, ModeInv
  <2>2. csafe'[u] <= safe'
    BY <1>0, <1>1, <2>1 DEF Mode, TypeOK
  <2> QED
    BY <2>1, <2>2 DEF Mode, Inside, Registered
<1>3. Mode(t)'
  <2> USE <1>0, <1>1 DEF TypeOK, MapTypeOK
  <2>a. csafe'[t] <= safe'
    <3>1. CASE CallbackStep(t) \/ NodeReclaim(t)
      <4>1. csafe'[t] <= csafe[t] \/ csafe'[t] = 0
        BY <3>1, ListLocals
      <4>2. csafe'[t] \in Int
        BY PartsStep, MapStep(t) => MapNext DEF MapNext, MapStep, Progress, CBP!CbInductive, CBP!CbTypeOK
      <4> QED
        BY <4>1, <4>2 DEF Mode
    <3>2. CASE FreeLater(t) \/ DrainAll(t)
      <4>1. csafe'[t] \in {got[t], csafe[t]}
        BY <3>2 DEF FreeLater, DrainAll, CB!RegisterCallback, CB!Drain, MapTypeOK, CB!CbTypeOK
      <4> QED
        BY <4>1 DEF Mode
    <3>3. CASE UNCHANGED cbVars
      BY <3>3 DEF cbVars, Mode
    <3> QED
      BY <3>1, <3>2, <3>3 DEF MapStep, RegisterThread, UnregisterThread, EnterMap, LeaveMap,
              BeginFinalize, Link, Unlink, EpochStep, Enter, BumpEpoch, AskSafe,
              UnregisterFinalizer, FreeNow, Accepted, Refused, Finalized
  <2>b. ASSUME /\ ~publishes'[t]
               /\ mpc'[t] = "out" => pc'[t] \in {"idle", "register"}
               /\ mpc'[t] = "entering" => pc'[t] = "publish"
               /\ mpc'[t] \in {"wait", "drainwait"} => pc'[t] \in {"idle", "scan", "raise"}
               /\ mpc'[t] \notin {"out", "entering", "wait", "drainwait"} => pc'[t] = "idle",
               IF mpc'[t] = "in" THEN tcs'[t] # Unregistered /\ reentrant'[tcs'[t]] = 1
                                 ELSE /\ tcs'[t] # Unregistered => reentrant'[tcs'[t]] = 0
                                      /\ reach'[t] = {}
        PROVE  Mode(t)'
    BY <2>a, <2>b DEF Mode, Inside, Registered
  <2>1. CASE RegisterThread(t) \/ UnregisterThread(t) \/ BeginFinalize(t) \/ EnterMap(t)
    BY <2>1, <2>b DEF RegisterThread, UnregisterThread, BeginFinalize, EnterMap, MayStart, RegisterBegin,
          Unregister, EnterPlain, BeginEnter, Mode, Inside, Registered, mapVars, slots, scanned, Goto
  <2>2. CASE EpochStep(t)
    <3>0. UNCHANGED <<mpc, reach>>
      BY <2>2 DEF EpochStep, mapVars
    <3>1. CASE RegisterTry(t) \/ RegisterFull(t)
      <4>1. mpc[t] = "out" /\ publishes' = publishes /\ pc'[t] \in {"idle", "register"}
        BY <3>1 DEF RegisterTry, RegisterFull, Mode
      <4>2. tcs'[t] # Unregistered => reentrant'[tcs'[t]] = 0
        BY <3>1, SlotFacts, <4>1 DEF RegisterTry, RegisterFull, Mode, Registered, slots, Inside
      <4> QED
        BY <2>b, <3>0, <4>1, <4>2 DEF Mode, Inside
    <3>2. CASE LazySafe(t) \/ Publish(t)
      BY <2>2, <3>2 DEF LazySafe, EpochStep, Publish, Mode
    <3>3. CASE ScanSlot(t) \/ ScanDone(t) \/ RaiseRetry(t) \/ Raise(t) \/ RaiseStale(t)
      <4>1. mpc[t] \in {"wait", "drainwait"} /\ UNCHANGED slots
        BY <3>3 DEF ScanSlot, ScanDone, RaiseRetry, Raise, RaiseStale, Return, Mode
      <4>2. pc'[t] \in {"idle", "scan", "raise"} /\ ~publishes'[t]
        BY <3>3 DEF ScanSlot, ScanDone, RaiseRetry, Raise, RaiseStale, Return, Mode
      <4> QED
        BY <2>b, <3>0, <4>1, <4>2 DEF Mode, Inside, slots, Registered
    <3> QED
      BY <2>2, <3>1, <3>2, <3>3 DEF EpochStep, Continue
  <2>3. CASE Enter(t)
    <3>1. tcs[t] \in Slot /\ reentrant[tcs[t]] = 0
      BY <2>3 DEF Enter, Mode, Inside, Publish, InductiveInv, EnteringInv, Registered
    <3>2. reentrant'[tcs[t]] = 1 /\ tcs' = tcs /\ mpc'[t] = "in" /\ pc'[t] = "idle" /\ publishes' = publishes
      BY <2>3, <3>1 DEF Enter, Publish, Goto
    <3> QED
      BY <2>b, <3>1, <3>2, SlotFacts DEF Mode
  <2>4. CASE LeaveMap(t)
    <3>1. tcs[t] \in Slot /\ reentrant[tcs[t]] = 1
      BY <2>4 DEF LeaveMap, Mode, Inside, Registered
    <3>2. /\ reentrant'[tcs[t]] = 0 /\ tcs' = tcs /\ mpc'[t] \in {"out", "swept", "bump"}
          /\ pc'[t] = "idle" /\ publishes' = publishes /\ reach'[t] = {}
      BY <2>4, <3>1 DEF LeaveMap, Leave, Goto, Over, scanned
    <3> QED
      BY <2>b, <3>1, <3>2 DEF Mode
  <2>5. CASE \E n \in Node : Link(t, n) \/ Unlink(t, n)
    <3>1. UNCHANGED vars /\ mpc' = mpc /\ Inside(t)
      BY <2>5 DEF Link, Unlink
    <3> QED
      BY <2>b, <3>1 DEF vars, Mode, Inside, Registered
  <2>6. CASE BumpEpoch(t) \/ AskSafe(t) \/ UnregisterFinalizer(t)
    BY <2>6, <2>b DEF BumpEpoch, AskSafe, UnregisterFinalizer, Bump, QuerySafe, Unregister, Goto,
           Mode, Inside, Registered, slots, scanned
  <2>7. CASE FreeNow(t) \/ FreeLater(t) \/ Accepted(t) \/ Refused(t) \/ DrainAll(t) \/ Finalized(t)
    <3>1. UNCHANGED <<vars, reach>>
      BY <2>7 DEF FreeNow, FreeLater, Accepted, Refused, DrainAll, Finalized
    <3>2. ~Inside(t) /\ pc[t] = "idle" /\ mpc'[t] \in {"out", "swept", "register", "ask", "draining", "dead"}
      BY <2>7 DEF FreeNow, FreeLater, Accepted, Refused, DrainAll, Finalized, HandedIn, Goto, Over, Mode, Inside
    <3> QED
      BY <2>b, <3>1, <3>2 DEF vars, Mode, Inside, Registered
  <2>8. CASE CallbackStep(t) \/ NodeReclaim(t)
    <3>1. UNCHANGED <<vars, mpc, reach>>
      BY <2>8, ListLocals
    <3> QED
      BY <2>b, <3>1 DEF vars, Mode, Inside, Registered
  <2> QED
    BY <2>1, <2>2, <2>3, <2>4, <2>5, <2>6, <2>7, <2>8 DEF MapStep
<1> QED
  BY <1>2, <1>3

\* Every step keeps each batch on its way, stamped or not.
LEMMA BatchStep ==
  ASSUME MapInductive, NEW t \in Thread, MapStep(t)
  PROVE  \A u \in Thread : Batch(u)'
<1>0. /\ Mode(t) /\ Batch(t) /\ TypeOK /\ MapTypeOK /\ CBP!CallShape(t) /\ InductiveInv
      /\ epoch \in Nat /\ \A u \in Thread : reclaimEpoch[u] \in Nat
  BY DEF MapInductive, ModeInv, InductiveInv, CBP!CbInductive, CBP!CallShapes, MapTypeOK, TypeOK
<1>1. epoch' >= epoch /\ epoch' \in Nat
  <2>1. InductiveInv'
    BY PartsStep, MapStep(t) => MapNext DEF MapNext, MapStep, Progress
  <2> QED
    BY <1>0, <2>1, EpochKept DEF InductiveInv, TypeOK
<1>2. ASSUME NEW u \in Thread, u # t PROVE Batch(u)'
  <2>1. /\ Batch(u)
        /\ mpc'[u] = mpc[u] /\ bag'[u] = bag[u] /\ reclaimEpoch'[u] = reclaimEpoch[u]
        /\ cpc'[u] = cpc[u] /\ draining'[u] = draining[u] /\ result'[u] = result[u]
        /\ mine'[u] = mine[u] /\ mineEpoch'[u] = mineEpoch[u]
    BY <1>2, OthersKept DEF MapInductive, ModeInv
  <2>2. reclaimEpoch[u] < epoch => reclaimEpoch'[u] < epoch'
    BY <1>0, <1>1, <2>1
  <2> QED
    BY <2>1, <2>2 DEF Batch
<1>3. Batch(t)'
  <2> USE <1>0 DEF MapTypeOK
  <2>a. ASSUME UNCHANGED cbVars, cpc[t] = "none"
        PROVE  cpc'[t] = "none" /\ mine'[t] = {}
    BY <2>a DEF cbVars, CBP!CallShape
  <2>1. CASE RegisterThread(t) \/ UnregisterThread(t) \/ BeginFinalize(t) \/ EpochStep(t)
    <3>1. UNCHANGED <<cbVars, mpc, bag, reclaimEpoch>>
      BY <2>1 DEF RegisterThread, UnregisterThread, BeginFinalize, EpochStep, mapVars
    <3>2. reclaimEpoch[t] < epoch => reclaimEpoch'[t] < epoch'
      BY <1>1, <3>1
    <3> QED
      BY <3>1, <3>2 DEF Batch, cbVars
  <2>2. CASE EnterMap(t) \/ Enter(t) \/ UnregisterFinalizer(t) \/ Finalized(t)
    <3>1. cpc[t] = "none"
      BY <2>2 DEF EnterMap, Enter, UnregisterFinalizer, Finalized, MayStart, Batch
    <3>2. /\ UNCHANGED <<cbVars, bag, reclaimEpoch>> /\ bag[t] = {} /\ reclaimEpoch[t] = 0
          /\ mpc'[t] \in {"entering", "in", "askdrain", "dead"}
      BY <2>2 DEF EnterMap, Enter, UnregisterFinalizer, Finalized, MayStart, Batch, Goto
    <3> QED
      BY <2>a, <3>1, <3>2 DEF Batch
  <2>3. CASE \E n \in Node : Link(t, n) \/ Unlink(t, n)
    <3>1. cpc[t] = "none" /\ mpc[t] = "in"
      BY <2>3 DEF Link, Unlink, Inside, Batch
    <3>2. UNCHANGED <<cbVars, mpc, reclaimEpoch>>
      BY <2>3 DEF Link, Unlink
    <3> QED
      BY <2>a, <3>1, <3>2 DEF Batch
  <2>4. CASE LeaveMap(t)
    <3>1. cpc[t] = "none" /\ reclaimEpoch[t] = 0
      BY <2>4 DEF LeaveMap, Inside, Batch
    <3>2. /\ UNCHANGED <<cbVars, bag, reclaimEpoch>>
          /\ mpc'[t] = IF bag[t] = {} THEN Over(t) ELSE "bump"
      BY <2>4 DEF LeaveMap, Goto
    <3> QED
      BY <2>a, <3>1, <3>2 DEF Batch, Over
  <2>5. CASE BumpEpoch(t)
    <3>1. cpc[t] = "none" /\ bag[t] # {}
      BY <2>5 DEF BumpEpoch, Batch
    <3>2. /\ UNCHANGED <<cbVars, bag>> /\ mpc'[t] = "ask"
          /\ reclaimEpoch'[t] = epoch /\ epoch' = epoch + 1
      BY <2>5 DEF BumpEpoch, Goto, Bump
    <3>3. epoch > 0
      BY DEF InductiveInv, AnswerStaysSafe, TypeOK
    <3> QED
      BY <2>a, <3>1, <3>2, <3>3 DEF Batch
  <2>6. CASE AskSafe(t) \/ Refused(t)
    <3>1. cpc[t] = "none"
      BY <2>6 DEF AskSafe, Refused, Batch
    <3>2. /\ UNCHANGED <<cbVars, bag, reclaimEpoch, epoch>>
          /\ \/ mpc[t] \in {"ask", "register"} /\ mpc'[t] \in {"wait", "ask"}
             \/ mpc[t] = "askdrain" /\ mpc'[t] = "drainwait"
      BY <2>6 DEF AskSafe, Refused, Goto, QuerySafe, vars, shared
    <3> QED
      BY <2>a, <3>1, <3>2 DEF Batch
  <2>7. CASE FreeNow(t) \/ Accepted(t)
    <3>1. cpc[t] = "none"
      BY <2>7 DEF FreeNow, Accepted, Batch
    <3>2. /\ UNCHANGED cbVars /\ bag'[t] = {} /\ reclaimEpoch'[t] = 0 /\ mpc'[t] \in {"out", "swept"}
      BY <2>7 DEF FreeNow, Accepted, HandedIn, Goto, Over
    <3> QED
      BY <2>a, <3>1, <3>2 DEF Batch
  <2>8. CASE FreeLater(t)
    <3>1. /\ cpc[t] = "none" /\ ~draining[t] /\ mpc[t] = "wait"
          /\ bag[t] # {} /\ 0 < reclaimEpoch[t] /\ reclaimEpoch[t] < epoch
      BY <2>8 DEF FreeLater, CB!RegisterCallback, CBP!CallShape, Batch
    <3>2. /\ UNCHANGED <<vars, bag, reclaimEpoch, draining>> /\ mpc'[t] = "register"
          /\ mine'[t] = bag[t] /\ mineEpoch'[t] = reclaimEpoch[t] /\ ~result'[t]
      BY <2>8 DEF FreeLater, CB!RegisterCallback, Goto, CB!CbTypeOK
    <3> QED
      BY <3>1, <3>2 DEF Batch, vars
  <2>9. CASE DrainAll(t)
    <3>1. cpc[t] = "none" /\ ~draining[t] /\ mine[t] = {} /\ mpc[t] = "drainwait" /\ bag[t] = {} /\ reclaimEpoch[t] = 0
      BY <2>9 DEF DrainAll, CB!Drain, CBP!CallShape, Batch
    <3>2. /\ UNCHANGED <<vars, bag, reclaimEpoch, mine>> /\ mpc'[t] = "draining"
          /\ cpc'[t] = "none" \/ draining'[t]
      BY <2>9, <3>1 DEF DrainAll, CB!Drain, Goto, CB!CbTypeOK
    <3> QED
      BY <3>1, <3>2 DEF Batch, vars
  <2>10. CASE CallbackStep(t) \/ NodeReclaim(t)
    <3>1. /\ UNCHANGED <<vars, mpc, bag, reclaimEpoch>>
          /\ cpc[t] # "none"
          /\ cpc'[t] # "none" => draining'[t] = draining[t] /\ result'[t] = result[t]
          /\ mine'[t] # {} => mine'[t] = mine[t] /\ mineEpoch'[t] = mineEpoch[t]
      BY <2>10, ListLocals
    <3> QED
      BY <3>1 DEF Batch, vars
  <2> QED
    BY <2>1, <2>2, <2>3, <2>4, <2>5, <2>6, <2>7, <2>8, <2>9, <2>10 DEF MapStep
<1> QED
  BY <1>2, <1>3

(***************************************************************************)
(* Where the nodes go.  A step moves at most one batch, from one place to  *)
(* the next; the places of other threads stay as they are.                 *)
(***************************************************************************)
Stay(t) == UNCHANGED <<context, took, node>> /\ Owned(t)' = Owned(t)

Linked1(t) ==
    \E n \in Node : /\ node[n] = "free"
                    /\ node' = [node EXCEPT ![n] = "linked"]
                    /\ UNCHANGED <<context, took>> /\ Owned(t)' = Owned(t)

Unlinked1(t) ==
    \E n \in Node : /\ node[n] = "linked"
                    /\ node' = [node EXCEPT ![n] = "retired"]
                    /\ UNCHANGED <<context, took>> /\ Owned(t)' = Owned(t) \cup {n}

FreedBag(t) ==
    /\ Owned(t)' = {}
    /\ FreeAll(Owned(t))
    /\ UNCHANGED <<context, took>>

\* pushed into an empty slot
Kept1(t) ==
    /\ ci[t] \in CbSlot /\ context[ci[t]] = {}
    /\ context' = [context EXCEPT ![ci[t]] = Owned(t)]
    /\ Owned(t)' = {}
    /\ UNCHANGED <<took, node>>

\* swapped or popped out of a slot
Taken1(t) ==
    /\ ci[t] \in CbSlot /\ took[t] = {}
    /\ took' = [took EXCEPT ![t] = context[ci[t]]]
    /\ context' = [context EXCEPT ![ci[t]] = Owned(t)]
    /\ Owned(t)' = {}
    /\ UNCHANGED node

FreedTaken(t) ==
    /\ took' = [took EXCEPT ![t] = {}]
    /\ FreeAll(took[t])
    /\ Owned(t)' = Owned(t)
    /\ UNCHANGED context

\* A step of the callback list.
LEMMA ListMoves ==
  ASSUME MapInductive, NEW t \in Thread, CallbackStep(t)
  PROVE  Stay(t) \/ Kept1(t) \/ Taken1(t)
<1>0. /\ Batch(t) /\ CBP!CallShape(t) /\ CBP!CbTypeOK /\ CBP!SlotLocks
      /\ UNCHANGED <<mpc, bag, node>> /\ CBP!CbStep(t)
      /\ CBP!CbSlot = CbSlot
  BY SameOps DEF MapInductive, ModeInv, CBP!CbInductive, CBP!CallShapes, CallbackStep, mapVars,
        CBP!CbSlot, CbSlot
<1>d. mpc[t] = "draining" => Owned(t) = {} /\ Owned(t)' = {}
  BY <1>0 DEF Batch, Owned
<1>1. CASE CBP!Look(t) \/ CBP!PushLock(t) \/ CBP!SwapLock(t) \/ CBP!PopLock(t)
  <2>1. UNCHANGED <<context, took, result>> /\ cpc[t] \notin {"store", "run"} /\ cpc'[t] \notin {"store", "run"}
    BY <1>0, <1>1 DEF CBP!Look, CBP!PushLock, CBP!SwapLock, CBP!PopLock, CBP!Lock, CBP!NextSlot,
          CBP!cbSlots, CBP!CbTypeOK
  <2> QED
    BY <1>0, <2>1 DEF Stay, Owned
<1>2. CASE CBP!LookEnd(t)
  <2>1. UNCHANGED <<context, took>> /\ cpc[t] = "look" /\ cpc'[t] = "none" /\ ~result'[t]
    BY <1>0, <1>2 DEF CBP!LookEnd, CBP!CbReturn, CBP!cbSlots, CBP!CbTypeOK
  <2> QED
    BY <1>0, <2>1 DEF Stay, Owned, Batch
<1>3. CASE CBP!Decrement(t)
  <2>1. UNCHANGED <<context, took>> /\ mpc[t] = "draining"
    BY <1>0, <1>3 DEF CBP!Decrement, CBP!CallShape, Batch
  <2> QED
    BY <1>0, <1>d, <2>1 DEF Stay
<1>4. CASE CBP!PushCount(t)
  <2>1. /\ mpc[t] = "register" /\ mine[t] = bag[t] /\ ~result[t] /\ cpc[t] = "count"
        /\ ci[t] \in CbSlot /\ context[ci[t]] = {}
    BY <1>0, <1>4 DEF CBP!PushCount, CBP!CallShape, Batch, CBP!SlotLocks
  <2>2. Owned(t) = mine[t] /\ Owned(t)' = {}
    BY <1>0, <1>4, <2>1 DEF Owned, CBP!PushCount, CBP!CbTypeOK
  <2> QED
    BY <1>0, <1>4, <2>1, <2>2 DEF Kept1, CBP!PushCount
<1>5. CASE CBP!PushStore(t)
  <2>1. /\ mpc[t] = "register" /\ cpc[t] = "store" /\ cpc'[t] = "none" /\ result'[t]
        /\ UNCHANGED <<context, took>>
    BY <1>0, <1>5 DEF CBP!PushStore, CBP!CbReturn, CBP!CallShape, Batch, CBP!CbTypeOK
  <2> QED
    BY <1>0, <2>1 DEF Stay, Owned
<1>6. CASE CBP!SwapStore(t)
  <2>1. /\ mpc[t] = "register" /\ mine[t] = bag[t] /\ ~result[t] /\ cpc[t] = "swapped"
        /\ ci[t] \in CbSlot /\ took[t] = {}
    BY <1>0, <1>6 DEF CBP!SwapStore, CBP!CallShape, Batch
  <2>2. Owned(t) = mine[t] /\ Owned(t)' = {}
    BY <1>0, <1>6, <2>1 DEF Owned, CBP!SwapStore, CBP!CbTypeOK
  <2> QED
    BY <1>0, <1>6, <2>1, <2>2 DEF Taken1, CBP!SwapStore
<1>7. CASE CBP!PopStore(t)
  <2>1. mpc[t] = "draining" /\ ci[t] \in CbSlot /\ took[t] = {}
    BY <1>0, <1>7 DEF CBP!PopStore, CBP!CallShape, Batch
  <2> QED
    BY <1>0, <1>7, <1>d, <2>1 DEF Taken1, CBP!PopStore
<1> QED
  BY <1>0, <1>1, <1>2, <1>3, <1>4, <1>5, <1>6, <1>7 DEF CBP!CbStep

\* Every step of the map is one of these moves.
LEMMA NodeMoves ==
  ASSUME MapInductive, NEW t \in Thread, MapStep(t)
  PROVE  \/ Stay(t) \/ Linked1(t) \/ Unlinked1(t) \/ FreedBag(t)
         \/ Kept1(t) \/ Taken1(t) \/ FreedTaken(t)
<1>0. /\ Batch(t) /\ CBP!CallShape(t) /\ CBP!CbTypeOK /\ MapTypeOK
  BY DEF MapInductive, ModeInv, CBP!CbInductive, CBP!CallShapes, MapTypeOK
<1> USE DEF MapTypeOK, Goto
<1>1. CASE RegisterThread(t) \/ UnregisterThread(t) \/ BeginFinalize(t) \/ EpochStep(t)
  BY <1>1 DEF RegisterThread, UnregisterThread, BeginFinalize, EpochStep, mapVars, cbVars, Stay, Owned
<1>2. CASE EnterMap(t) \/ Enter(t) \/ UnregisterFinalizer(t) \/ Finalized(t) \/ LeaveMap(t)
           \/ BumpEpoch(t) \/ AskSafe(t)
  <2>1. /\ UNCHANGED <<cbVars, bag, node>> /\ mpc[t] # "register" /\ mpc'[t] # "register"
    BY <1>0, <1>2 DEF EnterMap, Enter, UnregisterFinalizer, Finalized, LeaveMap, BumpEpoch, AskSafe,
          MayStart, Inside, Over
  <2> QED
    BY <2>1 DEF Stay, Owned, cbVars
<1>3. ASSUME NEW n \in Node, Link(t, n) PROVE Linked1(t)
  BY <1>3 DEF Link, Linked1, cbVars, Owned
<1>4. ASSUME NEW n \in Node, Unlink(t, n) PROVE Unlinked1(t)
  <2>1. Owned(t)' = Owned(t) \cup {n}
    BY <1>0, <1>4 DEF Unlink, Owned, cbVars, Inside
  <2> QED
    BY <1>4, <2>1 DEF Unlink, Unlinked1, cbVars
<1>5. CASE FreeNow(t)
  <2>1. Owned(t) = bag[t] /\ Owned(t)' = {}
    BY <1>0, <1>5 DEF FreeNow, HandedIn, Owned
  <2> QED
    BY <1>5, <2>1 DEF FreeNow, FreedBag, FreeAll, cbVars
<1>6. CASE FreeLater(t) \/ DrainAll(t)
  <2>1. UNCHANGED <<context, took, node, bag>>
    BY <1>6 DEF FreeLater, DrainAll, CB!RegisterCallback, CB!Drain, CB!cbSlots
  <2>2. Owned(t)' = Owned(t)
    <3>1. CASE FreeLater(t)
      <4>1. mpc[t] = "wait" /\ cpc'[t] = "look" /\ ~result'[t]
        BY <1>0, <3>1 DEF FreeLater, CB!RegisterCallback, CBP!CbTypeOK
      <4> QED
        BY <2>1, <4>1 DEF Owned
    <3>2. CASE DrainAll(t)
      <4>1. mpc[t] # "register" /\ mpc'[t] # "register"
        BY <1>0, <3>2 DEF DrainAll
      <4> QED
        BY <2>1, <4>1 DEF Owned
    <3> QED
      BY <1>6, <3>1, <3>2
  <2> QED
    BY <2>1, <2>2 DEF Stay
<1>7. CASE Accepted(t) \/ Refused(t)
  <2>1. Owned(t)' = Owned(t)
    BY <1>0, <1>7 DEF Accepted, Refused, HandedIn, Owned, cbVars, Over
  <2> QED
    BY <1>7, <2>1 DEF Stay, Accepted, Refused, cbVars
<1>8. CASE NodeReclaim(t)
  <2>1. CBP!RunCallback(t) /\ UNCHANGED <<mpc, bag>> /\ FreeAll(took[t])
    BY <1>8, SameSteps DEF NodeReclaim
  <2>2. took' = [took EXCEPT ![t] = {}] /\ context' = context /\ cpc[t] = "run"
    BY <2>1 DEF CBP!RunCallback, CBP!cbSlots
  <2>3. CASE mpc[t] = "register"
    <3>1. cpc'[t] = "none" /\ result'[t]
      BY <1>0, <2>1, <2>2, <2>3 DEF CBP!RunCallback, CBP!CbReturn, CBP!CbTypeOK, Batch
    <3> QED
      BY <2>1, <2>2, <2>3, <3>1 DEF FreedTaken, Owned
  <2>4. CASE mpc[t] # "register"
    BY <2>1, <2>2, <2>4 DEF FreedTaken, Owned
  <2> QED
    BY <2>3, <2>4
<1> QED
  BY <1>1, <1>2, <1>3, <1>4, <1>5, <1>6, <1>7, <1>8, ListMoves DEF MapStep

\* No move leaks a node or doubles it.
LEMMA HeldStep ==
  ASSUME MapInductive, NEW t \in Thread, MapStep(t)
  PROVE  HeldInv'
<1>0. /\ HeldInv
      /\ context \in [CbSlot -> SUBSET Node] /\ took \in [Thread -> SUBSET Node]
      /\ node \in [Node -> {"free", "linked", "retired"}]
      /\ \A u \in Thread : Owned(u) \subseteq Node
  <2>1. context \in [CbSlot -> SUBSET Node] /\ took \in [Thread -> SUBSET Node]
    BY DEF MapInductive, CBP!CbInductive, CBP!CbTypeOK, CBP!CbSlot, CbSlot
  <2>2. \A u \in Thread : Owned(u) \subseteq Node
    BY DEF MapInductive, MapTypeOK, Owned
  <2> QED
    BY <2>1, <2>2 DEF MapInductive, MapTypeOK
<1>a. \A u \in Thread : u # t => Owned(u)' = Owned(u)
  BY OthersKept
<1> SUFFICES ASSUME NEW n \in Node
    PROVE /\ \A i, j \in CbSlot : n \in context'[i] /\ n \in context'[j] => i = j
          /\ \A u, v \in Thread : n \in Owned(u)' /\ n \in Owned(v)' => u = v
          /\ \A u, v \in Thread : n \in took'[u] /\ n \in took'[v] => u = v
          /\ \A u \in Thread, i \in CbSlot : n \in context'[i] => n \notin Owned(u)' /\ n \notin took'[u]
          /\ \A u, v \in Thread : n \in Owned(u)' => n \notin took'[v]
          /\ node'[n] = "retired" <=> \/ \E i \in CbSlot : n \in context'[i]
                                      \/ \E u \in Thread : n \in Owned(u)' \/ n \in took'[u]
  BY DEF HeldInv, CbSlot
<1>b. /\ \A i, j \in CbSlot : n \in context[i] /\ n \in context[j] => i = j
      /\ \A u, v \in Thread : n \in Owned(u) /\ n \in Owned(v) => u = v
      /\ \A u, v \in Thread : n \in took[u] /\ n \in took[v] => u = v
      /\ \A u \in Thread, i \in CbSlot : n \in context[i] => n \notin Owned(u) /\ n \notin took[u]
      /\ \A u, v \in Thread : n \in Owned(u) => n \notin took[v]
      /\ node[n] = "retired" <=> \/ \E i \in CbSlot : n \in context[i]
                                 \/ \E u \in Thread : n \in Owned(u) \/ n \in took[u]
  BY <1>0 DEF HeldInv
\* the places of n, each a predicate of its own
<1> DEFINE Mine(u) == n \in Owned(u)
           Mine2(u) == n \in Owned(u)'
<1>c. \A u \in Thread : u # t => Mine2(u) = Mine(u)
  BY <1>a
<1>d. /\ \A u, v \in Thread : Mine(u) /\ Mine(v) => u = v
      /\ \A u \in Thread, i \in CbSlot : n \in context[i] => ~Mine(u) /\ n \notin took[u]
      /\ \A u, v \in Thread : Mine(u) => n \notin took[v]
      /\ node[n] = "retired" <=> \/ \E i \in CbSlot : n \in context[i]
                                 \/ \E u \in Thread : Mine(u) \/ n \in took[u]
  BY <1>b
<1> DEFINE Goal == /\ \A i, j \in CbSlot : n \in context'[i] /\ n \in context'[j] => i = j
                   /\ \A u, v \in Thread : Mine2(u) /\ Mine2(v) => u = v
                   /\ \A u, v \in Thread : n \in took'[u] /\ n \in took'[v] => u = v
                   /\ \A u \in Thread, i \in CbSlot : n \in context'[i] => ~Mine2(u) /\ n \notin took'[u]
                   /\ \A u, v \in Thread : Mine2(u) => n \notin took'[v]
                   /\ node'[n] = "retired" <=> \/ \E i \in CbSlot : n \in context'[i]
                                               \/ \E u \in Thread : Mine2(u) \/ n \in took'[u]
<1>1. CASE Stay(t)
  <2>1. \A u \in Thread : Mine2(u) = Mine(u)
    BY <1>1, <1>c DEF Stay
  <2> HIDE DEF Mine, Mine2
  <2>2. Goal
    BY <1>b, <1>d, <1>1, <2>1 DEF Stay
  <2> QED
    BY <2>2 DEF Mine2
<1>2. CASE Linked1(t)
  <2>1. \A u \in Thread : Mine2(u) = Mine(u)
    BY <1>2, <1>c DEF Linked1
  <2>2. UNCHANGED <<context, took>> /\ (node'[n] = "retired" <=> node[n] = "retired")
    BY <1>0, <1>2 DEF Linked1
  <2> HIDE DEF Mine, Mine2
  <2>3. Goal
    BY <1>b, <1>d, <2>1, <2>2
  <2> QED
    BY <2>3 DEF Mine2
<1>3. CASE Unlinked1(t)
  <2> PICK m \in Node : /\ node[m] = "linked"
                        /\ node' = [node EXCEPT ![m] = "retired"]
                        /\ UNCHANGED <<context, took>> /\ Owned(t)' = Owned(t) \cup {m}
    BY <1>3 DEF Unlinked1
  <2>1. Mine2(t) = (Mine(t) \/ n = m)
    OBVIOUS
  <2>2. /\ UNCHANGED <<context, took>> /\ (node'[n] = "retired" <=> node[n] = "retired" \/ n = m)
        /\ n = m => node[n] # "retired"
    BY <1>0
  <2> HIDE DEF Mine, Mine2
  <2>3. Goal
    BY <1>b, <1>c, <1>d, <2>1, <2>2
  <2> QED
    BY <2>3 DEF Mine2
<1>4. CASE FreedBag(t)
  <2>1. ~Mine2(t)
    BY <1>4 DEF FreedBag
  <2>2. /\ UNCHANGED <<context, took>>
        /\ node'[n] = IF Mine(t) THEN "free" ELSE node[n]
    BY <1>0, <1>4 DEF FreedBag, FreeAll
  <2> HIDE DEF Mine, Mine2
  <2>3. Goal
    BY <1>b, <1>c, <1>d, <2>1, <2>2
  <2> QED
    BY <2>3 DEF Mine2
<1>5. CASE Kept1(t)
  <2>1. ~Mine2(t)
    BY <1>5 DEF Kept1
  <2>2. /\ UNCHANGED <<took, node>> /\ ci[t] \in CbSlot /\ n \notin context[ci[t]]
        /\ \A i \in CbSlot : n \in context'[i] <=> IF i = ci[t] THEN Mine(t) ELSE n \in context[i]
    BY <1>0, <1>5 DEF Kept1
  <2> HIDE DEF Mine, Mine2
  <2>3. Goal
    BY <1>b, <1>c, <1>d, <2>1, <2>2
  <2> QED
    BY <2>3 DEF Mine2
<1>6. CASE Taken1(t)
  <2>1. ~Mine2(t)
    BY <1>6 DEF Taken1
  <2>2. /\ UNCHANGED node /\ ci[t] \in CbSlot /\ n \notin took[t]
        /\ \A i \in CbSlot : n \in context'[i] <=> IF i = ci[t] THEN Mine(t) ELSE n \in context[i]
        /\ \A u \in Thread : n \in took'[u] <=> IF u = t THEN n \in context[ci[t]] ELSE n \in took[u]
    BY <1>0, <1>6 DEF Taken1
  <2> HIDE DEF Mine, Mine2
  <2>3. Goal
    BY <1>b, <1>c, <1>d, <2>1, <2>2
  <2> QED
    BY <2>3 DEF Mine2
<1>7. CASE FreedTaken(t)
  <2>1. Mine2(t) = Mine(t)
    BY <1>7 DEF FreedTaken
  <2>2. /\ UNCHANGED context
        /\ \A u \in Thread : n \in took'[u] <=> u # t /\ n \in took[u]
        /\ node'[n] = IF n \in took[t] THEN "free" ELSE node[n]
    BY <1>0, <1>7 DEF FreedTaken, FreeAll
  <2> HIDE DEF Mine, Mine2
  <2>3. Goal
    BY <1>b, <1>c, <1>d, <2>1, <2>2
  <2> QED
    BY <2>3 DEF Mine2
<1> QED
  BY <1>1, <1>2, <1>3, <1>4, <1>5, <1>6, <1>7, NodeMoves

(***************************************************************************)
(* What can be reached.                                                    *)
(***************************************************************************)
\* A thread inside is protected by its slot.
LEMMA InsideProtected ==
  ASSUME MapInductive, NEW v \in Thread, Inside(v)
  PROVE  /\ tcs[v] \in Slot /\ Protected(tcs[v])
         /\ safe < entered[tcs[v]] /\ entered[tcs[v]] <= epoch
         /\ entered[tcs[v]] \in Nat /\ safe \in Nat /\ epoch \in Nat
<1>1. Mode(v) /\ TypeOK /\ SlotOwnedOnce /\ SafeBelowEntry /\ PublishedInv
  BY DEF MapInductive, ModeInv, InductiveInv
<1>2. tcs[v] \in Slot /\ reentrant[tcs[v]] > 0
  BY <1>1 DEF Mode, TypeOK, Registered
<1>3. Protected(tcs[v])
  BY <1>1, <1>2 DEF SlotOwnedOnce
<1> QED
  BY <1>1, <1>2, <1>3 DEF SafeBelowEntry, PublishedInv, TypeOK

\* What a thread reaches after a step it reached before, in the same visit; or
\* it is linked, and in nobody's hands.
LEMMA ReachKept ==
  ASSUME MapInductive, NEW t \in Thread, MapStep(t), NEW v \in Thread, NEW n \in reach'[v]
  PROVE  \/ /\ n \in reach[v] /\ Inside(v) /\ tcs'[v] = tcs[v]
            /\ entered'[tcs[v]] = entered[tcs[v]]
         \/ /\ n \in Node /\ node[n] # "retired" /\ node'[n] = "linked"
            /\ UNCHANGED <<cbVars, bag, mpc>> \/ (UNCHANGED <<cbVars, bag>> /\ Enter(t))
<1>0. Mode(v) /\ Mode(t) /\ MapTypeOK /\ TypeOK /\ SlotOwnedOnce /\ EnteringInv
  BY DEF MapInductive, ModeInv, InductiveInv
<1>1. CASE Enter(t) /\ v = t
  BY <1>0, <1>1 DEF Enter, Linked, MapTypeOK
<1>2. CASE Link(t, n)
  <2>1. n \in Node
    BY MapTypesStep, MapStep(t) => MapNext DEF MapNext, MapStep, Progress, MapTypeOK
  <2> QED
    BY <1>0, <1>2, <2>1 DEF Link, MapTypeOK
<1>3. CASE ~Link(t, n) /\ ~(Enter(t) /\ v = t)
  <2>1. n \in reach[v]
    <3>1. CASE v # t
      BY <1>0, <1>3, <3>1, OthersKept DEF Link, Inside, MapTypeOK
    <3>2. CASE v = t
      BY <1>0, <1>3, <3>2 DEF MapStep, RegisterThread, UnregisterThread, EpochStep, CallbackStep, mapVars,
            EnterMap, AskSafe, FreeLater, Refused, UnregisterFinalizer, DrainAll, Finalized,
            LeaveMap, Link, Unlink, BumpEpoch, BeginFinalize, FreeNow, NodeReclaim, Accepted, MapTypeOK
    <3> QED
      BY <3>1, <3>2
  <2>2. Inside(v) /\ tcs[v] \in Slot /\ Protected(tcs[v])
    BY <1>0, <2>1, InsideProtected DEF Mode
  <2>3. tcs'[v] = tcs[v]
    <3>1. CASE v # t
      BY <3>1, EpochKept DEF MapInductive
    <3>2. CASE v = t
      <4>0. mpc[t] = "in" /\ pc[t] = "idle"
        BY <1>0, <2>2, <3>2 DEF Inside, Mode
      <4>a. ~EpochStep(t)
        BY <4>0 DEF EpochStep, Continue, RegisterTry, RegisterFull, LazySafe, Publish, ScanSlot,
              ScanDone, Raise, RaiseRetry, RaiseStale
      <4>b. /\ ~RegisterThread(t) /\ ~UnregisterThread(t) /\ ~EnterMap(t) /\ ~BeginFinalize(t)
            /\ ~Enter(t) /\ ~BumpEpoch(t) /\ ~AskSafe(t) /\ ~UnregisterFinalizer(t)
        BY <4>0 DEF RegisterThread, UnregisterThread, MayStart, EnterMap, BeginFinalize, Enter,
              BumpEpoch, AskSafe, UnregisterFinalizer
      <4>1. UNCHANGED vars \/ LeaveMap(t)
        BY <4>a, <4>b DEF MapStep, CallbackStep, FreeLater, Refused, DrainAll, Finalized, FreeNow,
              NodeReclaim, Accepted, Link, Unlink
      <4> QED
        BY <3>2, <4>1 DEF vars, LeaveMap, Leave
    <3> QED
      BY <3>1, <3>2
  <2>4. entered'[tcs[v]] = entered[tcs[v]]
    <3>1. CASE Publish(t)
      <4>1. mpc[t] = "entering" /\ Registered(t)
        BY <1>0, <3>1 DEF Publish, Mode, EnteringInv
      <4>2. tcs[t] # tcs[v]
        BY <1>0, <2>2, <4>1 DEF SlotOwnedOnce, Inside
      <4> QED
        BY <1>0, <2>2, <3>1, <4>2 DEF Publish, TypeOK
    <3>2. CASE UNCHANGED entered
      BY <3>2
    <3>3. CASE (Call(t) \/ Continue(t)) /\ ~Publish(t)
      BY <3>3, SlotWriters DEF RegisterTry, Unregister, Leave, slots
    <3> QED
      BY <3>1, <3>2, <3>3, EpochPart DEF vars
  <2> QED
    BY <2>1, <2>2, <2>3, <2>4
<1> QED
  BY <1>1, <1>2, <1>3

\* Nothing that can be reached is freed: what is freed waited for an epoch
\* that is safe, and no epoch that a thread inside has entered is safe.
LEMMA NotFreed ==
  ASSUME MapInductive, NEW t \in Thread, MapStep(t), NEW v \in Thread, NEW n \in reach[v], Inside(v)
  PROVE  node'[n] # "free"
<1>0. /\ MapTypeOK /\ ReachInv /\ Batch(t) /\ n \in Node /\ node[n] # "free"
      /\ got[t] <= safe /\ got[t] \in Nat
  BY DEF MapInductive, ModeInv, MapTypeOK, TypeOK, ReachInv, InductiveInv, AnswerStaysSafe
<1>1. CASE FreeNow(t)
  <2>1. n \notin bag[t]
    <3>1. SUFFICES ASSUME n \in bag[t] PROVE FALSE
      OBVIOUS
    <3>2. n \in Owned(t) /\ reclaimEpoch[t] > 0 /\ reclaimEpoch[t] <= got[t] /\ reclaimEpoch[t] \in Nat
      BY <1>0, <1>1, <3>1 DEF FreeNow, Owned, Batch, MapTypeOK
    <3>3. entered[tcs[v]] <= reclaimEpoch[t]
      BY <1>0, <3>2 DEF ReachInv
    <3> QED
      BY <1>0, <3>2, <3>3, InsideProtected
  <2> QED
    BY <1>0, <1>1, <2>1 DEF FreeNow, FreeAll
<1>2. CASE NodeReclaim(t)
  BY <1>0, <1>2 DEF NodeReclaim, FreeAll, ReachInv
<1>3. CASE \E m \in Node : Link(t, m) \/ Unlink(t, m)
  BY <1>0, <1>3 DEF Link, Unlink, MapTypeOK
<1>4. CASE UNCHANGED node
  BY <1>0, <1>4
<1> QED
  BY <1>1, <1>2, <1>3, <1>4 DEF MapStep, RegisterThread, UnregisterThread, EpochStep, CallbackStep,
        mapVars, EnterMap, AskSafe, FreeLater, Refused, UnregisterFinalizer, DrainAll, Finalized,
        LeaveMap, Enter, BumpEpoch, BeginFinalize, Accepted

\* How the batch of a thread and its epoch change.
LEMMA BatchMoves ==
  ASSUME MapInductive, NEW t \in Thread, MapStep(t), NEW n \in Owned(t)', reclaimEpoch'[t] > 0
  PROVE  /\ n \in Owned(t)
         /\ \/ reclaimEpoch'[t] = reclaimEpoch[t] /\ reclaimEpoch[t] > 0
            \/ reclaimEpoch'[t] = epoch
<1>0. MapTypeOK /\ Batch(t)
  BY DEF MapInductive, ModeInv
<1>1. n \in Owned(t)
  <2>1. CASE Unlinked1(t)
    <3>1. reclaimEpoch'[t] = 0
      <4>1. \E m \in Node : node[m] = "linked" /\ node'[m] = "retired"
        BY <1>0, <2>1 DEF Unlinked1, MapTypeOK
      <4>2. \E m \in Node : Unlink(t, m)
        BY <1>0, <4>1 DEF MapStep, RegisterThread, UnregisterThread, EpochStep, CallbackStep,
              mapVars, EnterMap, AskSafe, FreeLater, Refused, UnregisterFinalizer, DrainAll, Finalized,
              LeaveMap, Enter, BumpEpoch, BeginFinalize, Accepted, Link, FreeNow, NodeReclaim, FreeAll,
              MapTypeOK
      <4> QED
        BY <1>0, <4>2 DEF Unlink, Inside, Batch
    <3> QED
      BY <3>1
  <2>2. CASE ~Unlinked1(t)
    BY <2>2, NodeMoves DEF Stay, Linked1, FreedBag, Kept1, Taken1, FreedTaken
  <2> QED
    BY <2>1, <2>2
<1>2. reclaimEpoch'[t] = reclaimEpoch[t] \/ reclaimEpoch'[t] = 0 \/ reclaimEpoch'[t] = epoch
  BY <1>0 DEF MapStep, RegisterThread, UnregisterThread, EpochStep, CallbackStep, mapVars, EnterMap,
        AskSafe, FreeLater, Refused, UnregisterFinalizer, DrainAll, Finalized, LeaveMap, Enter,
        BumpEpoch, BeginFinalize, Accepted, HandedIn, Link, Unlink, FreeNow, NodeReclaim, MapTypeOK
<1> QED
  BY <1>1, <1>2

\* What register_callback is given, and what it still has of it.
LEMMA MineMoves ==
  ASSUME MapInductive, NEW t \in Thread, MapStep(t), NEW n \in mine'[t]
  PROVE  \/ n \in mine[t] /\ mineEpoch'[t] = mineEpoch[t]
         \/ n \in Owned(t) /\ reclaimEpoch[t] > 0 /\ mineEpoch'[t] = reclaimEpoch[t]
<1>0. MapTypeOK /\ Batch(t) /\ CB!CbTypeOK
  BY DEF MapInductive, ModeInv, MapTypeOK
<1>1. CASE FreeLater(t)
  <2>1. mine'[t] = bag[t] /\ mineEpoch'[t] = reclaimEpoch[t] /\ mpc[t] = "wait"
    BY <1>0, <1>1 DEF FreeLater, CB!RegisterCallback, CB!CbTypeOK
  <2> QED
    BY <1>0, <2>1 DEF Batch, Owned
<1>2. CASE CallbackStep(t) \/ NodeReclaim(t)
  BY <1>2, ListLocals
<1>3. CASE UNCHANGED <<mine, mineEpoch>>
  BY <1>3
<1> QED
  BY <1>1, <1>2, <1>3 DEF MapStep, RegisterThread, UnregisterThread, EpochStep, EnterMap, AskSafe,
        Refused, UnregisterFinalizer, DrainAll, CB!Drain, Finalized, LeaveMap, Enter, BumpEpoch,
        BeginFinalize, Accepted, Link, Unlink, FreeNow, cbVars

\* What any step of the map does to the callback list's slots.
LEMMA ListFacts ==
  ASSUME MapInductive, NEW t \in Thread, MapStep(t)
  PROVE  /\ \A i \in CbSlot : CB!Published(i)' =>
               \/ CB!Published(i) /\ trigger'[i] = trigger[i] /\ context'[i] = context[i]
               \/ mine[t] # {} /\ trigger'[i] = mineEpoch[t] /\ context'[i] = mine[t]
         /\ \A u \in Thread : u # t /\ cpc[u] \in {"swapped", "popped"} =>
               context'[ci[u]] = context[ci[u]]
         /\ cpc'[t] \in {"swapped", "popped"} =>
               \/ UNCHANGED <<cpc, ci, context>>
               \/ /\ UNCHANGED context /\ ci'[t] = ci[t] /\ ci[t] \in CbSlot
                  /\ CB!Published(ci[t]) /\ trigger[ci[t]] <= csafe[t]
         /\ \/ took'[t] \in {took[t], {}}
            \/ cpc[t] \in {"swapped", "popped"} /\ took'[t] = context[ci[t]]
<1>1. CASE UNCHANGED cbVars
  BY <1>1 DEF cbVars, CB!Published
<1>2. CASE CBP!CbOp(t)
  <2>0. CBP!CbInductive /\ CBP!CbSlot = CbSlot
    BY DEF MapInductive, CBP!CbSlot, CbSlot
  <2>p. \A i : /\ CB!Published(i) <=> CBP!Published(i)
               /\ CB!Published(i)' <=> CBP!Published(i)'
    BY DEF CB!Published, CBP!Published, CB!NormalEpoch, CBP!NormalEpoch
  <2>1. ASSUME NEW i \in CbSlot, CB!Published(i)'
        PROVE  \/ CB!Published(i) /\ trigger'[i] = trigger[i] /\ context'[i] = context[i]
               \/ mine[t] # {} /\ trigger'[i] = mineEpoch[t] /\ context'[i] = mine[t]
    <3>1. CBP!Published(i)' /\ i \in CBP!CbSlot
      BY <2>0, <2>p, <2>1
    <3>2. \/ CBP!Published(i) /\ trigger'[i] = trigger[i] /\ context'[i] = context[i]
          \/ mine[t] \in (SUBSET Node) \ {{}} /\ trigger'[i] = mineEpoch[t] /\ context'[i] = mine[t]
      BY <1>2, <2>0, <3>1, ListAssumption, CBP!SlotShows
    <3> QED
      BY <2>p, <3>2
  <2>2. ASSUME NEW u \in Thread, u # t, cpc[u] \in {"swapped", "popped"}
        PROVE  context'[ci[u]] = context[ci[u]]
    <3>1. cpc[u] \in CBP!LockSteps
      BY <2>2 DEF CBP!LockSteps
    <3> QED
      BY <1>2, <2>0, <2>2, <3>1, ListAssumption, CBP!LockedKept
  <2>3. ASSUME cpc'[t] \in {"swapped", "popped"}
        PROVE  /\ UNCHANGED context /\ ci'[t] = ci[t] /\ ci[t] \in CbSlot
               /\ CB!Published(ci[t]) /\ trigger[ci[t]] <= csafe[t]
    BY <1>2, <2>0, <2>3, <2>p, ListAssumption, CBP!LockedWhenSafe
  <2>4. \/ took'[t] \in {took[t], {}}
        \/ cpc[t] \in {"swapped", "popped"} /\ took'[t] = context[ci[t]]
    BY <1>2, <2>0, ListAssumption, CBP!TookFrom
  <2> QED
    BY <2>1, <2>2, <2>3, <2>4
<1> QED
  BY <1>1, <1>2, ListPart

\* The order of retiring and entering survives every step of everybody.
LEMMA ReachStep ==
  ASSUME MapInductive, NEW t \in Thread, MapStep(t)
  PROVE  ReachInv'
<1>0. /\ ReachInv /\ MapTypeOK /\ HeldInv /\ Mode(t) /\ ModeInv
      /\ \A u \in Thread : csafe[u] <= safe /\ csafe[u] \in Nat
      /\ safe \in Nat /\ epoch \in Nat
      /\ \A i \in CbSlot : CB!Published(i) => trigger[i] \in Nat
  <2>1. \A i : CB!Published(i) => trigger[i] \in Nat
    BY MapAssumption DEF CB!Published, CB!NormalEpoch
  <2> QED
    BY <2>1 DEF MapInductive, ModeInv, Mode, MapTypeOK, CB!CbTypeOK, TypeOK
<1>1. ASSUME NEW v \in Thread, Inside(v)' PROVE Linked' \subseteq reach'[v]
  <2>1. CASE Enter(t) /\ v = t
    BY <1>0, <2>1 DEF Enter, Linked, MapTypeOK
  <2>2. CASE ~(Enter(t) /\ v = t)
    <3>1. Inside(v)
      <4>1. CASE v # t
        BY <1>1, <4>1, OthersKept DEF Inside
      <4>2. CASE v = t
        BY <1>0, <1>1, <2>2, <4>2 DEF Inside, MapStep, RegisterThread, UnregisterThread, EpochStep,
              CallbackStep, mapVars, EnterMap, AskSafe, FreeLater, Refused, UnregisterFinalizer,
              DrainAll, Finalized, LeaveMap, Link, Unlink, BumpEpoch, BeginFinalize, FreeNow,
              NodeReclaim, Accepted, HandedIn, Goto, Over, MapTypeOK
      <4> QED
        BY <4>1, <4>2
    <3>2. Linked \subseteq reach[v]
      BY <1>0, <3>1 DEF ReachInv
    <3>3. reach[v] \subseteq reach'[v]
      <4>1. CASE v # t
        BY <4>1, OthersKept
      <4>2. CASE v = t
        BY <1>0, <1>1, <2>2, <4>2 DEF Inside, MapStep, RegisterThread, UnregisterThread, EpochStep,
              CallbackStep, mapVars, EnterMap, AskSafe, FreeLater, Refused, UnregisterFinalizer,
              DrainAll, Finalized, LeaveMap, Link, Unlink, BumpEpoch, BeginFinalize, FreeNow,
              NodeReclaim, Accepted, HandedIn, Goto, Over, MapTypeOK
      <4> QED
        BY <4>1, <4>2
    <3>4. \A m \in Node : node'[m] = "linked" => node[m] = "linked" \/ Link(t, m)
      BY <1>0 DEF MapStep, RegisterThread, UnregisterThread, EpochStep,
              CallbackStep, mapVars, EnterMap, AskSafe, FreeLater, Refused, UnregisterFinalizer,
              DrainAll, Finalized, LeaveMap, Enter, Link, Unlink, BumpEpoch, BeginFinalize, FreeNow,
              NodeReclaim, Accepted, FreeAll, MapTypeOK
    <3>5. \A m \in Node : Link(t, m) => m \in reach'[v]
      BY <1>0, <3>1 DEF Link
    <3> QED
      BY <3>2, <3>3, <3>4, <3>5 DEF Linked
  <2> QED
    BY <2>1, <2>2
<1>2. ASSUME NEW v \in Thread, NEW n \in reach'[v],
             n \in Node, node[n] # "retired", node'[n] = "linked", UNCHANGED <<cbVars, bag>>,
             UNCHANGED mpc \/ Enter(t), NEW u \in Thread
      PROVE  /\ n \notin Owned(u)' /\ n \notin took'[u] /\ n \notin mine'[u]
             /\ \A i \in CbSlot : n \notin context'[i]
  <2>1. n \notin Owned(u) /\ n \notin took[u] /\ \A i \in CbSlot : n \notin context[i]
    BY <1>0, <1>2 DEF HeldInv
  <2>2. Owned(u)' = Owned(u)
    <3>1. CASE UNCHANGED mpc
      BY <1>2, <3>1 DEF Owned, cbVars
    <3>2. CASE Enter(t) /\ u = t
      BY <1>0, <1>2, <3>2 DEF Enter, Goto, Owned, MapTypeOK, cbVars
    <3>3. CASE u # t
      BY <3>3, OthersKept
    <3> QED
      BY <1>2, <3>1, <3>2, <3>3
  <2>3. n \notin mine[u]
    <3>1. SUFFICES ASSUME n \in mine[u] PROVE FALSE
      OBVIOUS
    <3>2. CBP!CallShape(u) /\ CBP!SlotLocks /\ Batch(u)
      BY DEF MapInductive, CBP!CbInductive, CBP!CallShapes, ModeInv
    <3>3. cpc[u] = "store" => context[ci[u]] = mine[u] /\ ci[u] \in CbSlot
      BY <3>2 DEF CBP!SlotLocks, CBP!CallShape, CBP!CbSlot, CbSlot
    <3>4. cpc[u] # "store" => mine[u] = Owned(u)
      BY <3>1, <3>2 DEF CBP!CallShape, Batch, Owned
    <3> QED
      BY <2>1, <3>1, <3>3, <3>4
  <2> QED
    BY <1>2, <2>1, <2>2, <2>3 DEF cbVars
<1>3. ASSUME NEW v \in Thread, NEW n \in reach'[v], n \in reach[v], Inside(v),
             tcs'[v] = tcs[v], entered'[tcs[v]] = entered[tcs[v]]
      PROVE  /\ node'[n] # "free"
             /\ \A i \in CbSlot : n \in context'[i] /\ CB!Published(i)' => entered[tcs[v]] <= trigger'[i]
             /\ \A u \in Thread :
                   /\ n \in Owned(u)' /\ reclaimEpoch'[u] > 0 => entered[tcs[v]] <= reclaimEpoch'[u]
                   /\ n \in mine'[u] => entered[tcs[v]] <= mineEpoch'[u]
                   /\ n \notin took'[u]
                   /\ cpc'[u] \in {"swapped", "popped"} => n \notin context'[ci'[u]]
  <2> DEFINE e == entered[tcs[v]]
  <2>0. safe < e /\ e <= epoch /\ e \in Nat
    BY <1>3, InsideProtected
  <2> HIDE DEF e
  <2>r. /\ \A i \in CbSlot : n \in context[i] /\ CB!Published(i) => e <= trigger[i]
        /\ \A u \in Thread :
              /\ n \in Owned(u) /\ reclaimEpoch[u] > 0 => e <= reclaimEpoch[u]
              /\ n \in mine[u] => e <= mineEpoch[u]
              /\ n \notin took[u]
              /\ cpc[u] \in {"swapped", "popped"} => n \notin context[ci[u]]
    BY <1>0, <1>3 DEF ReachInv, e
  <2>1. node'[n] # "free"
    BY <1>3, NotFreed
  <2>2. ASSUME NEW i \in CbSlot, n \in context'[i], CB!Published(i)'
        PROVE  e <= trigger'[i]
    BY <2>2, <2>r, ListFacts
  <2>3. ASSUME NEW u \in Thread, u # t
        PROVE  /\ n \in Owned(u)' /\ reclaimEpoch'[u] > 0 => e <= reclaimEpoch'[u]
               /\ n \in mine'[u] => e <= mineEpoch'[u]
               /\ n \notin took'[u]
               /\ cpc'[u] \in {"swapped", "popped"} => n \notin context'[ci'[u]]
    <3>1. /\ Owned(u)' = Owned(u) /\ reclaimEpoch'[u] = reclaimEpoch[u] /\ mine'[u] = mine[u]
          /\ mineEpoch'[u] = mineEpoch[u] /\ took'[u] = took[u] /\ cpc'[u] = cpc[u] /\ ci'[u] = ci[u]
      BY <2>3, OthersKept
    <3>2. cpc[u] \in {"swapped", "popped"} => context'[ci[u]] = context[ci[u]]
      BY <2>3, ListFacts
    <3> QED
      BY <2>r, <3>1, <3>2
  <2>4. n \in Owned(t)' /\ reclaimEpoch'[t] > 0 => e <= reclaimEpoch'[t]
    BY <2>0, <2>r, BatchMoves
  <2>5. n \in mine'[t] => e <= mineEpoch'[t]
    BY <2>r, MineMoves
  <2>6. n \notin took'[t]
    BY <2>r, ListFacts
  <2>7. ASSUME cpc'[t] \in {"swapped", "popped"} PROVE n \notin context'[ci'[t]]
    <3>1. CASE UNCHANGED <<cpc, ci, context>>
      BY <2>r, <2>7, <3>1
    <3>2. CASE /\ UNCHANGED context /\ ci'[t] = ci[t] /\ ci[t] \in CbSlot
               /\ CB!Published(ci[t]) /\ trigger[ci[t]] <= csafe[t]
      <4>1. trigger[ci[t]] < e
        BY <1>0, <2>0, <3>2
      <4>2. n \notin context[ci[t]]
        BY <1>0, <2>0, <2>r, <3>2, <4>1
      <4> QED
        BY <3>2, <4>2
    <3> QED
      BY <2>7, <3>1, <3>2, ListFacts
  <2> QED
    BY <2>1, <2>2, <2>3, <2>4, <2>5, <2>6, <2>7 DEF e
<1>4. ASSUME NEW v \in Thread, NEW n \in reach'[v]
      PROVE  /\ node'[n] # "free"
             /\ \A i \in CbSlot : n \in context'[i] /\ CB!Published(i)' => entered'[tcs'[v]] <= trigger'[i]
             /\ \A u \in Thread :
                   /\ n \in Owned(u)' /\ reclaimEpoch'[u] > 0 => entered'[tcs'[v]] <= reclaimEpoch'[u]
                   /\ n \in mine'[u] => entered'[tcs'[v]] <= mineEpoch'[u]
                   /\ n \notin took'[u]
                   /\ cpc'[u] \in {"swapped", "popped"} => n \notin context'[ci'[u]]
  <2>1. CASE /\ n \in reach[v] /\ Inside(v) /\ tcs'[v] = tcs[v]
             /\ entered'[tcs[v]] = entered[tcs[v]]
    BY <1>3, <1>4, <2>1
  <2>2. CASE /\ n \in Node /\ node[n] # "retired" /\ node'[n] = "linked"
             /\ UNCHANGED <<cbVars, bag, mpc>> \/ (UNCHANGED <<cbVars, bag>> /\ Enter(t))
    <3>1. \A u \in Thread : /\ n \notin Owned(u)' /\ n \notin took'[u] /\ n \notin mine'[u]
                            /\ \A i \in CbSlot : n \notin context'[i]
      BY <1>2, <1>4, <2>2
    <3>2. \A u \in Thread : cpc'[u] \in {"swapped", "popped"} => ci'[u] \in CbSlot
      <4>1. CBP!CbInductive'
        BY PartsStep, MapStep(t) => MapNext DEF MapNext, MapStep, Progress
      <4> QED
        BY <4>1 DEF CBP!CbInductive, CBP!CallShapes, CBP!CallShape, CBP!CbSlot, CbSlot
    <3> QED
      BY <2>2, <3>1, <3>2
  <2> QED
    BY <1>4, <2>1, <2>2, ReachKept
<1> QED
  BY <1>1, <1>4 DEF ReachInv, Inside, Linked, CbSlot

(***************************************************************************)
(* The kept epochs, and finalize.                                          *)
(***************************************************************************)
\* A kept epoch comes from a batch that was stamped before the bump.
LEMMA EpochInvStep ==
  ASSUME MapInductive, NEW t \in Thread, MapStep(t)
  PROVE  EpochInv'
<1>0. /\ EpochInv /\ Batch(t) /\ TypeOK /\ epoch \in Nat /\ epoch' \in Nat /\ epoch' >= epoch
      /\ 0 < epoch
  <2>1. InductiveInv'
    BY PartsStep, MapStep(t) => MapNext DEF MapNext, MapStep, Progress
  <2>2. epoch' >= epoch
    BY EpochKept DEF MapInductive
  <2> QED
    BY <2>1, <2>2 DEF MapInductive, ModeInv, InductiveInv, TypeOK, AnswerStaysSafe
<1>1. epoch' <= Int64Max - 2
  <2>1. BumpEpoch(t) \/ epoch' = epoch
    BY EpochKept DEF MapInductive
  <2>2. BumpEpoch(t) => epoch' <= MaxEpoch
    BY <1>0, BoundAssumption DEF BumpEpoch, Bump
  <2> QED
    BY <1>0, <2>1, <2>2, MapAssumption, BoundAssumption DEF EpochInv
<1>2. ASSUME NEW i \in CbSlot, CB!Published(i)' PROVE trigger'[i] < epoch'
  <2>1. CASE CB!Published(i) /\ trigger'[i] = trigger[i]
    <3>1. trigger[i] < epoch /\ trigger[i] \in Nat
      BY <1>0, <2>1, MapAssumption DEF EpochInv, CB!Published, CB!NormalEpoch
    <3> QED
      BY <1>0, <2>1, <3>1
  <2>2. CASE mine[t] # {} /\ trigger'[i] = mineEpoch[t]
    <3>1. mineEpoch[t] = reclaimEpoch[t] /\ reclaimEpoch[t] < epoch /\ reclaimEpoch[t] \in Nat
      BY <1>0, <2>2 DEF Batch, MapInductive, MapTypeOK
    <3> QED
      BY <1>0, <2>2, <3>1
  <2> QED
    BY <1>2, <2>1, <2>2, ListFacts
<1> QED
  BY <1>1, <1>2 DEF EpochInv, CbSlot

\* While a thread is inside finalize, no other thread takes a step.
LEMMA Quiet ==
  ASSUME MapInductive, NEW f \in Thread, finalizer = f, NEW t \in Thread, t # f
  PROVE  ~MapStep(t) /\ cpc[t] = "none" /\ ~Registered(t)
<1>0. /\ mpc[t] = "out" /\ pc[t] = "idle" /\ ~Registered(t) /\ cpc[t] = "none" /\ NoThread \notin Thread
  BY MapAssumption DEF MapInductive, FinalInv, ModeInv, Batch
<1>1. ~EpochStep(t)
  BY <1>0 DEF EpochStep, Continue, RegisterTry, RegisterFull, LazySafe, Publish, ScanSlot, ScanDone,
        Raise, RaiseRetry, RaiseStale
<1>2. ~CallbackStep(t) /\ ~NodeReclaim(t)
  BY <1>0, ListLocals
<1>3. /\ ~RegisterThread(t) /\ ~UnregisterThread(t) /\ ~EnterMap(t) /\ ~BeginFinalize(t)
      /\ ~(\E n \in Node : Link(t, n) \/ Unlink(t, n)) /\ ~LeaveMap(t) /\ ~Enter(t) /\ ~BumpEpoch(t)
      /\ ~AskSafe(t) /\ ~FreeNow(t) /\ ~FreeLater(t) /\ ~Accepted(t) /\ ~Refused(t)
      /\ ~UnregisterFinalizer(t) /\ ~DrainAll(t) /\ ~Finalized(t)
  BY <1>0 DEF RegisterThread, UnregisterThread, EnterMap, MayStart, BeginFinalize, Link, Unlink,
        LeaveMap, Inside, Enter, BumpEpoch, AskSafe, FreeNow, FreeLater, Accepted, Refused,
        UnregisterFinalizer, DrainAll, Finalized
<1> QED
  BY <1>0, <1>1, <1>2, <1>3 DEF MapStep

\* Only emplace links a node, and it is not called during finalize.
LEMMA NewlyLinked ==
  ASSUME MapInductive, NEW t \in Thread, MapStep(t), NEW n \in Node, node'[n] = "linked"
  PROVE  node[n] = "linked" \/ finalizer = NoThread
<1>0. MapTypeOK
  BY DEF MapInductive
<1>1. node[n] = "linked" \/ Link(t, n)
  BY <1>0 DEF MapStep, RegisterThread, UnregisterThread, EpochStep,
        CallbackStep, mapVars, EnterMap, AskSafe, FreeLater, Refused, UnregisterFinalizer,
        DrainAll, Finalized, LeaveMap, Enter, Link, Unlink, BumpEpoch, BeginFinalize, FreeNow,
        NodeReclaim, Accepted, FreeAll, MapTypeOK
<1> QED
  BY <1>1 DEF Link

\* With every other thread gone no slot is protected, once finalize has left.
LEMMA NobodyProtected ==
  ASSUME MapInductive, NEW f \in Thread, finalizer = f, ~Registered(f)
  PROVE  \A s \in Slot : ~used[s] /\ local[s] = EPOCH_UNPROTECTED
<1>1. \A t \in Thread : tcs[t] = Unregistered
  BY Quiet DEF Registered
<1>2. SlotOwnedOnce /\ \A s \in Slot : s # Unregistered
  BY SlotFacts DEF MapInductive, InductiveInv
<1> QED
  BY <1>1, <1>2 DEF SlotOwnedOnce, Protected

\* The stages of finalize after the sweep.
Late == {"swept", "askdrain", "drainwait", "draining", "dead"}

\* Only the thread that finalizes gets into these stages.
LEMMA LateStep ==
  ASSUME MapInductive, NEW t \in Thread, MapStep(t), NEW u \in Thread, mpc'[u] \in Late
  PROVE  finalizer' = u
<1>0. /\ MapTypeOK /\ \A v \in Thread : mpc[v] \in Late => finalizer = v
      /\ NoThread \notin Thread
  BY MapAssumption DEF MapInductive, FinalInv, Late
<1>1. CASE BeginFinalize(t)
  BY <1>1 DEF BeginFinalize, Late
<1>2. CASE ~BeginFinalize(t)
  <2>1. finalizer' = finalizer
    BY <1>2 DEF MapStep, RegisterThread, UnregisterThread, EpochStep,
        CallbackStep, mapVars, EnterMap, AskSafe, FreeLater, Refused, UnregisterFinalizer,
        DrainAll, Finalized, LeaveMap, Enter, Link, Unlink, BumpEpoch, FreeNow,
        NodeReclaim, Accepted
  <2>2. CASE u # t
    BY <1>0, <2>1, <2>2, OthersKept
  <2>3. CASE u = t
    BY <1>0, <1>2, <2>1, <2>3 DEF MapStep, RegisterThread, UnregisterThread, EpochStep,
        CallbackStep, mapVars, EnterMap, AskSafe, FreeLater, Refused, UnregisterFinalizer,
        DrainAll, Finalized, LeaveMap, Enter, Link, Unlink, BumpEpoch, FreeNow,
        NodeReclaim, Accepted, HandedIn, Goto, Over, Late, MapTypeOK
  <2> QED
    BY <2>2, <2>3
<1> QED
  BY <1>1, <1>2

\* What finalize knows of its scan, its drain and its end.
Scanned(f) ==
    mpc[f] = "drainwait" =>
        /\ pc[f] = "scan" => low[f] = epoch
        /\ pc[f] = "raise" => low[f] = epoch - 1
        /\ pc[f] = "idle" => got[f] >= epoch - 1

Draining(f) ==
    mpc[f] = "draining" /\ cpc[f] # "none" =>
        /\ csafe[f] >= epoch - 1
        /\ \A i \in CbSlot : CBP!Passed(f, i) => context[i] = {}
        /\ cpc[f] = "pop" => trigger[ci[f]] = expected[f]

Drained(f) ==
    mpc[f] = "dead" \/ (mpc[f] = "draining" /\ cpc[f] = "none") =>
        drain_count = 0 /\ \A i \in CbSlot : context[i] = {}

\* The safe epoch that finalize drains with covers every kept callback.
LEMMA ScannedStep ==
  ASSUME MapInductive, NEW f \in Thread, finalizer = f, MapStep(f)
  PROVE  Scanned(f)'
<1>0. /\ MapTypeOK /\ TypeOK /\ Mode(f) /\ Scanned(f) /\ InductiveInv
      /\ mpc[f] \in {"askdrain", "drainwait"} => ~Registered(f)
      /\ epoch \in Nat /\ low[f] \in Nat /\ last[f] \in Nat
  BY DEF MapInductive, InductiveInv, ModeInv, FinalInv, Scanned, TypeOK
<1>1. CASE AskSafe(f)
  BY <1>0, <1>1 DEF AskSafe, QuerySafe, Goto, Scanned, MapTypeOK, TypeOK, shared
<1>2. CASE EpochStep(f) /\ mpc[f] = "drainwait"
  <2>1. UNCHANGED mpc /\ Continue(f) /\ pc[f] \in {"idle", "scan", "raise"} /\ ~publishes[f]
    BY <1>0, <1>2 DEF EpochStep, mapVars, Mode
  <2>2. ScanSlot(f) \/ ScanDone(f) \/ Raise(f) \/ RaiseRetry(f) \/ RaiseStale(f)
    BY <2>1 DEF Continue, RegisterTry, RegisterFull, LazySafe, Publish
  <2>3. CASE ScanSlot(f)
    <3>1. idx[f] \in Slot /\ local[idx[f]] = EPOCH_UNPROTECTED
      BY <1>0, <1>2, <2>3, SlotFacts, NobodyProtected DEF ScanSlot, TypeOK
    <3>2. low' = low /\ UNCHANGED <<pc, epoch>>
      BY <1>0, <2>3, <3>1 DEF ScanSlot, TypeOK, shared
    <3> QED
      BY <1>0, <1>2, <2>1, <2>3, <3>2 DEF Scanned, ScanSlot
  <2>4. CASE ScanDone(f)
    BY <1>0, <1>2, <2>1, <2>4 DEF Scanned, ScanDone, TypeOK, shared
  <2>5. CASE RaiseRetry(f)
    BY <1>0, <1>2, <2>1, <2>5 DEF Scanned, RaiseRetry, shared
  <2>6. CASE Raise(f) \/ RaiseStale(f)
    <3>1. pc'[f] = "idle" /\ epoch' = epoch /\ got'[f] >= low[f] /\ pc[f] = "raise"
      BY <1>0, <2>1, <2>6 DEF Raise, RaiseStale, Return, TypeOK
    <3>2. low[f] = epoch - 1
      BY <1>0, <1>2, <3>1 DEF Scanned
    <3>3. got'[f] >= epoch - 1
      BY <3>1, <3>2
    <3> QED
      BY <3>1, <3>3 DEF Scanned
  <2> QED
    BY <2>2, <2>3, <2>4, <2>5, <2>6
<1>3. CASE mpc'[f] # "drainwait"
  BY <1>3 DEF Scanned
<1>4. CASE mpc'[f] = "drainwait" /\ UNCHANGED <<vars, mpc>>
  BY <1>0, <1>4 DEF Scanned, vars
<1>5. mpc'[f] = "drainwait" => AskSafe(f) \/ UNCHANGED <<vars, mpc>> \/ (EpochStep(f) /\ mpc[f] = "drainwait")
  <2>1. ASSUME mpc'[f] = "drainwait", ~AskSafe(f)
        PROVE  mpc[f] = "drainwait"
    BY <1>0, <2>1 DEF MapStep, RegisterThread, UnregisterThread, EpochStep,
        CallbackStep, mapVars, EnterMap, FreeLater, Refused, UnregisterFinalizer, BeginFinalize,
        DrainAll, Finalized, LeaveMap, Enter, Link, Unlink, BumpEpoch, FreeNow,
        NodeReclaim, Accepted, HandedIn, Goto, Over, MapTypeOK
  <2>2. ASSUME mpc[f] = "drainwait", ~AskSafe(f), mpc'[f] = "drainwait"
        PROVE  UNCHANGED <<vars, mpc>> \/ EpochStep(f)
    <3>1. ~DrainAll(f)
      BY <1>0, <2>2 DEF DrainAll, Goto, MapTypeOK
    <3> QED
      BY <1>0, <2>2, <3>1 DEF MapStep, RegisterThread, UnregisterThread, MayStart,
        CallbackStep, mapVars, EnterMap, FreeLater, Refused, UnregisterFinalizer, BeginFinalize,
        Finalized, LeaveMap, Enter, Link, Unlink, BumpEpoch, FreeNow, Inside, NodeReclaim, Accepted
  <2> QED
    BY <2>1, <2>2
<1> QED
  BY <1>1, <1>2, <1>3, <1>4, <1>5

\* The drain of finalize empties every slot.
LEMMA DrainingStep ==
  ASSUME MapInductive, NEW f \in Thread, finalizer = f, MapStep(f)
  PROVE  Draining(f)' /\ Drained(f)'
<1>0. /\ MapTypeOK /\ TypeOK /\ Batch(f) /\ Scanned(f) /\ Draining(f) /\ Drained(f) /\ EpochInv
      /\ CBP!CbInductive /\ CBP!CbInductive' /\ CBP!CbTypeOK /\ CBP!CbSlot = CbSlot
      /\ epoch \in Nat /\ csafe[f] \in Nat
  <2>1. CBP!CbInductive'
    BY PartsStep, MapStep(f) => MapNext DEF MapNext, MapStep, Progress
  <2> QED
    BY <2>1 DEF MapInductive, InductiveInv, ModeInv, FinalInv, Scanned, Draining, Drained, TypeOK,
          CBP!CbInductive, CBP!CbTypeOK, CBP!CbSlot, CbSlot
<1>1. CASE DrainAll(f)
  <2>1. mpc'[f] = "draining" /\ UNCHANGED <<vars, context>> /\ CBP!Drain(f, got[f]) /\ got[f] >= epoch - 1
    BY <1>0, <1>1, SameOps DEF DrainAll, Goto, MapTypeOK, Scanned, CB!Drain, CB!cbSlots
  <2>2. CASE drain_count > 0
    <3>1. cpc'[f] = "look" /\ ci'[f] = 0 /\ csafe'[f] = got[f] /\ epoch' = epoch
      BY <1>0, <2>1, <2>2 DEF CBP!Drain, CBP!CbTypeOK, vars
    <3>2. \A i \in CbSlot : ~CBP!Passed(f, i)'
      BY <3>1, MapAssumption DEF CBP!Passed, CbSlot
    <3> QED
      BY <2>1, <3>1, <3>2 DEF Draining, Drained, CbSlot
  <2>3. CASE ~(drain_count > 0)
    <3>1. drain_count = 0 /\ UNCHANGED <<cpc, drain_count>> /\ cpc[f] = "none"
      BY <1>0, <2>1, <2>3 DEF CBP!Drain, CBP!CbTypeOK, CBP!cbSlots
    <3>2. \A i \in CbSlot : context[i] = {}
      BY <1>0, <3>1, CBP!CountZero, ListAssumption
    <3> QED
      BY <2>1, <3>1, <3>2 DEF Draining, Drained, CbSlot
  <2> QED
    BY <2>2, <2>3
<1>2. CASE (CallbackStep(f) \/ NodeReclaim(f)) /\ mpc[f] = "draining"
  <2>1. /\ CBP!CbStep(f) \/ CBP!RunCallback(f)
        /\ cpc[f] # "none" /\ draining[f] /\ UNCHANGED mpc /\ epoch' = epoch
        /\ cpc'[f] # "none" => csafe'[f] = csafe[f]
    BY <1>0, <1>2, ListLocals, SameOps, SameSteps DEF CallbackStep, NodeReclaim, Batch, vars
  <2>2. \A u \in Thread : u # f => cpc[u] = "none" /\ cpc'[u] = "none"
    BY Quiet, OthersKept
  <2>3. \A i \in CBP!CbSlot : CBP!Published(i) => trigger[i] <= csafe[f]
    <3>1. ASSUME NEW i \in CbSlot, CBP!Published(i) PROVE trigger[i] <= csafe[f]
      <4>1. trigger[i] < epoch /\ trigger[i] \in Nat
        BY <1>0, <3>1, MapAssumption DEF EpochInv, CB!Published, CBP!Published, CB!NormalEpoch, CBP!NormalEpoch
      <4>2. csafe[f] >= epoch - 1
        BY <1>0, <1>2, <2>1 DEF Draining
      <4> QED
        BY <1>0, <4>1, <4>2
    <3> QED
      BY <1>0, <3>1
  <2>4. /\ \A i \in CBP!CbSlot : CBP!Passed(f, i) => context[i] = {}
        /\ cpc[f] = "pop" => trigger[ci[f]] = expected[f]
    BY <1>0, <1>2, <2>1 DEF Draining
  <2>5. /\ cpc'[f] # "none" =>
             /\ \A i \in CBP!CbSlot : CBP!Passed(f, i)' => context'[i] = {}
             /\ cpc'[f] = "pop" => trigger'[ci'[f]] = expected'[f]
        /\ cpc'[f] = "none" => drain_count' = 0 /\ \A i \in CBP!CbSlot : context'[i] = {}
    BY <1>0, <2>1, <2>2, <2>3, <2>4, ListAssumption, CBP!LoneDrain
  <2>6. cpc'[f] # "none" => csafe'[f] >= epoch' - 1
    BY <1>0, <1>2, <2>1 DEF Draining
  <2>7. mpc'[f] = "draining"
    BY <1>2, <2>1
  <2> QED
    BY <1>0, <2>5, <2>6, <2>7 DEF Draining, Drained, CbSlot
<1>3. CASE Finalized(f)
  <2>1. UNCHANGED <<context, drain_count>> /\ mpc'[f] = "dead" /\ mpc[f] = "draining" /\ cpc[f] = "none"
    BY <1>0, <1>3 DEF Finalized, cbVars, Goto, MapTypeOK
  <2> QED
    BY <1>0, <2>1 DEF Draining, Drained, CbSlot
<1>4. CASE mpc'[f] \notin {"draining", "dead"}
  BY <1>4 DEF Draining, Drained
<1>5. mpc[f] # "dead"
  <2>1. SUFFICES ASSUME mpc[f] = "dead" PROVE FALSE
    OBVIOUS
  <2>2. pc[f] = "idle" /\ cpc[f] = "none"
    BY <1>0, <2>1 DEF MapInductive, ModeInv, Mode, Batch
  <2>3. ~EpochStep(f) /\ ~CallbackStep(f) /\ ~NodeReclaim(f)
    BY <2>2, ListLocals DEF EpochStep, Continue, RegisterTry, RegisterFull, LazySafe, Publish, ScanSlot,
          ScanDone, Raise, RaiseRetry, RaiseStale
  <2>4. ~BeginFinalize(f)
    BY MapAssumption DEF BeginFinalize
  <2> QED
    BY <2>1, <2>3, <2>4 DEF MapStep, RegisterThread, UnregisterThread, MayStart, EnterMap, FreeLater,
        Refused, UnregisterFinalizer, DrainAll, Finalized, LeaveMap, Enter, Link, Unlink, BumpEpoch,
        AskSafe, FreeNow, Inside, Accepted
<1>6. mpc'[f] \in {"draining", "dead"} =>
         DrainAll(f) \/ Finalized(f) \/ ((CallbackStep(f) \/ NodeReclaim(f)) /\ mpc[f] = "draining")
  <2>1. ASSUME mpc'[f] \in {"draining", "dead"}, ~DrainAll(f), ~Finalized(f)
        PROVE  mpc[f] = "draining"
    BY <1>0, <1>5, <2>1 DEF MapStep, RegisterThread, UnregisterThread, EpochStep, AskSafe,
        CallbackStep, mapVars, EnterMap, FreeLater, Refused, UnregisterFinalizer, BeginFinalize,
        LeaveMap, Enter, Link, Unlink, BumpEpoch, FreeNow,
        NodeReclaim, Accepted, HandedIn, Goto, Over, MapTypeOK
  <2>2. ASSUME mpc[f] = "draining", ~DrainAll(f), ~Finalized(f)
        PROVE  CallbackStep(f) \/ NodeReclaim(f)
    <3>1. pc[f] = "idle"
      BY <2>2 DEF MapInductive, ModeInv, Mode
    <3>2. ~EpochStep(f)
      BY <3>1 DEF EpochStep, Continue, RegisterTry, RegisterFull, LazySafe, Publish, ScanSlot,
          ScanDone, Raise, RaiseRetry, RaiseStale
    <3>3. ~BeginFinalize(f)
      BY MapAssumption DEF BeginFinalize
    <3> QED
      BY <2>2, <3>2, <3>3 DEF MapStep, RegisterThread, UnregisterThread, MayStart, EnterMap, FreeLater,
        Refused, UnregisterFinalizer, LeaveMap, Enter, Link, Unlink, BumpEpoch,
        AskSafe, FreeNow, Inside, Accepted
  <2> QED
    BY <2>1, <2>2
<1> QED
  BY <1>1, <1>2, <1>3, <1>4, <1>6

\* finalize still finds everything as it needs it.
LEMMA FinalStep ==
  ASSUME MapInductive, NEW t \in Thread, MapStep(t)
  PROVE  FinalInv'
<1>0. /\ MapTypeOK /\ TypeOK /\ FinalInv /\ ModeInv /\ NoThread \notin Thread /\ SlotOwnedOnce
  BY MapAssumption DEF MapInductive, InductiveInv
<1>1. \A u \in Thread : mpc'[u] \in Late => finalizer' = u
  BY LateStep
<1>2. ASSUME NEW f \in Thread, finalizer' = f, finalizer = f
      PROVE  /\ \A u \in Thread : u # f => mpc'[u] = "out" /\ pc'[u] = "idle" /\ ~Registered(u)'
             /\ mpc'[f] \notin {"out", "entering", "in"} => \A n \in Node : node'[n] # "linked"
             /\ mpc'[f] \in {"askdrain", "drainwait", "draining", "dead"} => ~Registered(f)'
             /\ Scanned(f)' /\ Draining(f)' /\ Drained(f)'
  <2>0. t = f
    BY <1>2, Quiet
  <2>1. \A u \in Thread : u # f => mpc'[u] = "out" /\ pc'[u] = "idle" /\ ~Registered(u)'
    <3>1. ASSUME NEW u \in Thread, u # f
          PROVE  mpc'[u] = mpc[u] /\ pc'[u] = pc[u] /\ tcs'[u] = tcs[u]
      BY <2>0, <3>1, OthersKept, EpochKept DEF MapInductive
    <3> QED
      BY <1>0, <1>2, <3>1 DEF FinalInv, Registered
  <2>2. ASSUME mpc'[f] \notin {"out", "entering", "in"}, NEW n \in Node PROVE node'[n] # "linked"
    <3>1. node[n] # "linked"
      <4>1. CASE mpc[f] \notin {"out", "entering", "in"}
        BY <1>0, <1>2, <4>1 DEF FinalInv
      <4>2. CASE mpc[f] \in {"out", "entering", "in"}
        <5>1. LeaveMap(f)
          BY <1>0, <2>0, <2>2, <4>2 DEF MapStep, RegisterThread, UnregisterThread, EpochStep, AskSafe,
             CallbackStep, mapVars, EnterMap, FreeLater, Refused, UnregisterFinalizer, BeginFinalize,
             Enter, Link, Unlink, BumpEpoch, FreeNow, DrainAll, Finalized,
             NodeReclaim, Accepted, HandedIn, Goto, Over, MapTypeOK
        <5> QED
          BY <1>2, <5>1 DEF LeaveMap, Linked
      <4> QED
        BY <4>1, <4>2
    <3>2. finalizer # NoThread
      BY <1>0, <1>2
    <3> QED
      BY <3>1, <3>2, NewlyLinked
  <2>3. ASSUME mpc'[f] \in {"askdrain", "drainwait", "draining", "dead"} PROVE ~Registered(f)'
    <3>1. CASE UnregisterFinalizer(f)
      BY <1>0, <3>1 DEF UnregisterFinalizer, Unregister, Registered, TypeOK
    <3>2. CASE ~UnregisterFinalizer(f)
      <4>1. mpc[f] \in {"askdrain", "drainwait", "draining", "dead"}
        BY <1>0, <2>0, <2>3, <3>2 DEF MapStep, RegisterThread, UnregisterThread, EpochStep, AskSafe,
             CallbackStep, mapVars, EnterMap, FreeLater, Refused, BeginFinalize,
             LeaveMap, Enter, Link, Unlink, BumpEpoch, FreeNow, DrainAll, Finalized,
             NodeReclaim, Accepted, HandedIn, Goto, Over, MapTypeOK
      <4>2. ~Registered(f)
        BY <1>0, <1>2, <4>1 DEF FinalInv
      <4>3. tcs'[f] = tcs[f]
        <5>1. ~RegisterTry(f)
          <6>1. pc[f] # "register"
            BY <1>0, <4>1 DEF ModeInv, Mode
          <6> QED
            BY <6>1 DEF RegisterTry
        <5>2. ~RegisterTry(f) /\ ~Unregister(f) /\ ~Publish(f) /\ ~Leave(f)
          <6>1. pc[f] # "publish" /\ tcs[f] = Unregistered
            BY <1>0, <4>1, <4>2 DEF ModeInv, Mode, Registered
          <6> QED
            BY <5>1, <6>1 DEF Unregister, Publish, Leave, IsProtected, Registered
        <5> QED
          BY <2>0, <5>2, EpochPart, SlotWriters DEF slots, vars
      <4> QED
        BY <4>2, <4>3 DEF Registered
    <3> QED
      BY <3>1, <3>2
  <2> QED
    BY <1>2, <2>0, <2>1, <2>2, <2>3, ScannedStep, DrainingStep
<1>3. ASSUME NEW f \in Thread, finalizer' = f, finalizer # f
      PROVE  /\ \A u \in Thread : u # f => mpc'[u] = "out" /\ pc'[u] = "idle" /\ ~Registered(u)'
             /\ mpc'[f] = "out"
  <2>1. BeginFinalize(f)
    BY <1>3 DEF MapStep, RegisterThread, UnregisterThread, EpochStep, AskSafe,
             CallbackStep, mapVars, EnterMap, FreeLater, Refused, BeginFinalize, UnregisterFinalizer,
             LeaveMap, Enter, Link, Unlink, BumpEpoch, FreeNow, DrainAll, Finalized,
             NodeReclaim, Accepted
  <2>2. UNCHANGED <<mpc, tcs>> /\ \A u \in Thread : u # f => pc'[u] = pc[u]
    BY <1>0, <2>1 DEF BeginFinalize, RegisterBegin, slots, TypeOK
  <2> QED
    BY <2>1, <2>2 DEF BeginFinalize, Registered
<1>4. ASSUME NEW f \in Thread, finalizer' = f
      PROVE  /\ \A u \in Thread : u # f => mpc'[u] = "out" /\ pc'[u] = "idle" /\ ~Registered(u)'
             /\ mpc'[f] \notin {"out", "entering", "in"} => \A n \in Node : node'[n] # "linked"
             /\ mpc'[f] \in {"askdrain", "drainwait", "draining", "dead"} => ~Registered(f)'
             /\ Scanned(f)' /\ Draining(f)' /\ Drained(f)'
  <2>1. CASE finalizer = f
    BY <1>2, <1>4, <2>1
  <2>2. CASE finalizer # f
    BY <1>3, <1>4, <2>2 DEF Scanned, Draining, Drained
  <2> QED
    BY <2>1, <2>2
<1> QED
  BY <1>1, <1>4 DEF FinalInv, Late, Scanned, Draining, Drained, CbSlot

(***************************************************************************)
(* The inductive invariant.                                                *)
(***************************************************************************)
\* In the empty map nobody is anywhere and nothing is kept.
LEMMA MapInitially == MapInit => MapInductive
<1> SUFFICES ASSUME MapInit PROVE MapInductive
  OBVIOUS
<1>1. InductiveInv /\ CBP!CbInductive
  <2>1. CBP!CbInit
    BY DEF MapInit, CB!CbInit, CBP!CbInit, CB!CbSlot, CBP!CbSlot, CB!FREE, CBP!FREE
  <2> QED
    BY <2>1, Initially, ListAssumption, CBP!CbInitially DEF MapInit
<1>2. MapTypeOK
  <2>1. TypeOK /\ CB!CbTypeOK
    BY <1>1 DEF InductiveInv, CBP!CbInductive, CB!CbTypeOK, CBP!CbTypeOK, CB!CbSlot, CBP!CbSlot,
          CB!CbIndex, CBP!CbIndex, CB!CbPlace, CBP!CbPlace, CB!NormalEpoch, CBP!NormalEpoch, CB!FREE,
          CBP!FREE, CB!LOCKED, CBP!LOCKED
  <2> QED
    BY <2>1 DEF MapInit, MapTypeOK
<1>3. ModeInv
  <2> SUFFICES ASSUME NEW t \in Thread PROVE Mode(t) /\ Batch(t)
    BY DEF ModeInv
  <2>1. Mode(t)
    BY DEF MapInit, Init, CB!CbInit, Mode, Inside, Registered, EPOCH_UNPROTECTED
  <2>2. Batch(t)
    BY DEF MapInit, CB!CbInit, Batch
  <2> QED
    BY <2>1, <2>2
<1>4. HeldInv
  BY DEF MapInit, CB!CbInit, CB!CbSlot, CbSlot, HeldInv, Owned
<1>5. ReachInv
  BY DEF MapInit, ReachInv, Inside
<1>6. EpochInv
  <2>1. epoch = 2
    BY DEF MapInit, Init, EPOCH_UNPROTECTED
  <2>2. \A i \in CbSlot : ~CB!Published(i)
    BY MapAssumption DEF MapInit, CB!CbInit, CB!CbSlot, CbSlot, CB!Published, CB!NormalEpoch, CB!FREE
  <2> QED
    BY <2>1, <2>2, MapAssumption DEF EpochInv
<1>7. FinalInv
  BY MapAssumption DEF MapInit, FinalInv
<1> QED
  BY <1>1, <1>2, <1>3, <1>4, <1>5, <1>6, <1>7 DEF MapInductive

\* Every step of the map keeps it.
LEMMA MapInductiveStep == MapInductive /\ [MapNext]_allVars => MapInductive'
<1> SUFFICES ASSUME MapInductive, [MapNext]_allVars PROVE MapInductive'
  OBVIOUS
<1>1. InductiveInv' /\ CBP!CbInductive' /\ MapTypeOK'
  BY PartsStep, MapTypesStep
<1>2. ASSUME NEW t \in Thread, MapStep(t)
      PROVE  ModeInv' /\ HeldInv' /\ ReachInv' /\ EpochInv' /\ FinalInv'
  BY <1>2, ModeStep, BatchStep, HeldStep, ReachStep, EpochInvStep, FinalStep DEF ModeInv
<1>3. ASSUME UNCHANGED allVars
      PROVE  ModeInv' /\ HeldInv' /\ ReachInv' /\ EpochInv' /\ FinalInv'
  <2>0. UNCHANGED <<vars, cbVars, mapVars>>
    BY <1>3 DEF allVars
  <2> USE <2>0 DEF MapInductive, vars, cbVars, mapVars
  <2>1. ModeInv'
    BY DEF ModeInv, Mode, Batch, Inside, Registered
  <2>2. HeldInv'
    <3>1. \A u : Owned(u)' = Owned(u)
      BY DEF Owned
    <3> QED
      BY <3>1 DEF HeldInv, CbSlot
  <2>3. ReachInv'
    BY DEF ReachInv, Inside, Linked, Owned, CB!Published, CbSlot
  <2>4. EpochInv'
    BY DEF EpochInv, CB!Published, CbSlot
  <2>5. FinalInv'
    BY DEF FinalInv, Registered, CBP!Passed, CbSlot
  <2> QED
    BY <2>1, <2>2, <2>3, <2>4, <2>5
<1> QED
  BY <1>1, <1>2, <1>3, MapSteps DEF MapInductive

\* MapInductive holds in every state of every execution of the map.
THEOREM MapAlways == MapSpec => []MapInductive
<1>1. MapInit /\ [][MapNext]_allVars => []MapInductive
  BY MapInitially, MapInductiveStep, PTL
<1> QED
  BY <1>1 DEF MapSpec

(***************************************************************************)
(* What it implies.                                                        *)
(***************************************************************************)
\* A thread inside the map never reaches memory that was given back: each batch
\* waits until every thread that entered before its stamp has left.
THEOREM NoUseAfterFreeHolds == MapSpec => []NoUseAfterFree
<1>1. MapInductive => NoUseAfterFree
  BY DEF MapInductive, ReachInv, NoUseAfterFree
<1> QED
  BY <1>1, MapAlways, PTL

\* A set is counted one if it has a member and no two.
LEMMA OneOrNone ==
  ASSUME NEW S, \A x, y \in S : x = y
  PROVE  Cardinality(S) = IF S # {} THEN 1 ELSE 0
<1>1. CASE S = {}
  BY <1>1, FS_EmptySet
<1>2. CASE S # {}
  <2> PICK x \in S : S = {x}
    BY <1>2
  <2> QED
    BY <1>2, FS_Singleton
<1> QED
  BY <1>1, <1>2

\* An unlinked node is in one bag, slot or running callback, any other in none.
LEMMA HeldOnce ==
  ASSUME MapInductive
  PROVE  RetiredHeldOnce
<1> SUFFICES ASSUME NEW n \in Node
             PROVE  Cardinality(Holders(n)) = IF node[n] = "retired" THEN 1 ELSE 0
  BY DEF RetiredHeldOnce
<1>0. HeldInv /\ CB!CbSlot = CbSlot
  BY DEF MapInductive, CB!CbSlot, CbSlot
<1>1. \A x \in Holders(n) :
         \/ \E t \in Thread : x = <<"bag", t>> /\ n \in Owned(t)
         \/ \E i \in CbSlot : x = <<"slot", i>> /\ n \in context[i]
         \/ \E t \in Thread : x = <<"run", t>> /\ n \in took[t]
  BY <1>0 DEF Holders
<1>2. \A x, y \in Holders(n) : x = y
  <2> SUFFICES ASSUME NEW x \in Holders(n), NEW y \in Holders(n) PROVE x = y
    OBVIOUS
  <2>1. CASE \E t \in Thread : x = <<"bag", t>> /\ n \in Owned(t)
    BY <1>0, <1>1, <2>1 DEF HeldInv
  <2>2. CASE \E i \in CbSlot : x = <<"slot", i>> /\ n \in context[i]
    BY <1>0, <1>1, <2>2 DEF HeldInv
  <2>3. CASE \E t \in Thread : x = <<"run", t>> /\ n \in took[t]
    BY <1>0, <1>1, <2>3 DEF HeldInv
  <2> QED
    BY <1>1, <2>1, <2>2, <2>3
<1>3. Holders(n) # {} <=> node[n] = "retired"
  <2>1. ASSUME NEW t \in Thread, n \in Owned(t) PROVE <<"bag", t>> \in Holders(n)
    BY <2>1 DEF Holders
  <2>2. ASSUME NEW i \in CbSlot, n \in context[i] PROVE <<"slot", i>> \in Holders(n)
    BY <1>0, <2>2 DEF Holders
  <2>3. ASSUME NEW t \in Thread, n \in took[t] PROVE <<"run", t>> \in Holders(n)
    BY <2>3 DEF Holders
  <2> QED
    BY <1>0, <1>1, <2>1, <2>2, <2>3 DEF HeldInv
<1> QED
  BY <1>2, <1>3, OneOrNone

\* No unlinked node is leaked or held twice, and whoever may still reach one
\* entered no later than the epoch that the node waits for.
THEOREM MapInvHolds == MapSpec => []MapInv
<1>1. MapInductive => HoldersEnteredBefore
  BY DEF MapInductive, ReachInv, HoldersEnteredBefore, CB!CbSlot, CbSlot
<1>2. MapInductive => MapInv
  BY <1>1, HeldOnce DEF MapInv, MapInductive
<1> QED
  BY <1>2, MapAlways, PTL

\* When finalize is done no node, no kept callback and no registered thread is
\* left, so that neither destructor finds anything.
THEOREM FinalizeFreesAllHolds == MapSpec => []FinalizeFreesAll
<1>1. ASSUME MapInductive, NEW t \in Thread, mpc[t] = "dead"
      PROVE  /\ \A n \in Node : node[n] = "free"
             /\ drain_count = 0
             /\ \A s \in Slot : ~used[s]
  <2>1. finalizer = t
    BY <1>1 DEF MapInductive, FinalInv
  <2>2. /\ drain_count = 0 /\ \A i \in CbSlot : context[i] = {}
        /\ \A n \in Node : node[n] # "linked"
        /\ ~Registered(t)
    BY <1>1, <2>1 DEF MapInductive, FinalInv
  <2>3. \A u \in Thread : Owned(u) = {} /\ took[u] = {}
    <3>1. ASSUME NEW u \in Thread PROVE Owned(u) = {} /\ took[u] = {}
      <4>1. mpc[u] \in {"dead", "out"}
        BY <1>1, <2>1 DEF MapInductive, FinalInv
      <4>2. bag[u] = {} /\ cpc[u] = "none"
        BY <1>1, <4>1 DEF MapInductive, ModeInv, Batch
      <4>3. took[u] = {}
        BY <1>1, <4>2 DEF MapInductive, CBP!CbInductive, CBP!CallShapes, CBP!CallShape
      <4> QED
        BY <4>2, <4>3 DEF Owned
    <3> QED
      BY <3>1
  <2>4. \A n \in Node : node[n] = "free"
    BY <1>1, <2>2, <2>3 DEF MapInductive, HeldInv, MapTypeOK
  <2>5. \A s \in Slot : ~used[s]
    BY <1>1, <2>1, <2>2, NobodyProtected
  <2> QED
    BY <2>2, <2>4, <2>5
<1>2. MapInductive => FinalizeFreesAll
  BY <1>1 DEF FinalizeFreesAll
<1> QED
  BY <1>2, MapAlways, PTL

(***************************************************************************)
(* The grace periods that epochs and callbacks implement.                  *)
(***************************************************************************)
InsideNow == {t \in Thread : Inside(t)}
WaitsFor(n) == IF node[n] = "retired" THEN {t \in Thread : n \in reach[t]} ELSE {}
Waiting == [n \in Node |-> WaitsFor(n)]

\* A step that neither enters, leaves, links, unlinks nor frees is not seen.
LEMMA Unseen ==
  ASSUME UNCHANGED <<node, reach, InsideNow>>
  PROVE  UNCHANGED Grace!vars
BY DEF InsideNow, Grace!vars

\* What a step frees is unlinked, and nobody can reach it.
LEMMA FreeIsGrace ==
  ASSUME MapInductive, NEW t \in Thread, MapStep(t), NEW batch \in SUBSET Node,
         \A n \in batch : node[n] = "retired", FreeAll(batch), UNCHANGED <<reach, InsideNow>>
  PROVE  Grace!Free(batch)
<1>1. \A n \in batch, v \in Thread : n \notin reach[v]
  <2> SUFFICES ASSUME NEW n \in batch, NEW v \in Thread, n \in reach[v] PROVE FALSE
    OBVIOUS
  <2>1. Inside(v)
    BY DEF MapInductive, ModeInv, Mode
  <2>2. node'[n] = "free"
    BY DEF FreeAll
  <2> QED
    BY <2>1, <2>2, NotFreed
<1>2. Waiting' = Waiting
  BY <1>1 DEF Waiting, WaitsFor, FreeAll
<1> QED
  BY <1>1, <1>2 DEF Grace!Free, FreeAll, Waiting, WaitsFor, InsideNow

\* Every step of the map is a step of GracePeriod or is not seen by it.
LEMMA GraceStep ==
  ASSUME MapInductive, NEW t \in Thread, MapStep(t)
  PROVE  Grace!Next \/ UNCHANGED Grace!vars
<1>0. /\ MapTypeOK /\ Mode(t) /\ Batch(t) /\ ReachInv /\ HeldInv
      /\ \A u \in Thread : ~Inside(u) => reach[u] = {}
  BY DEF MapInductive, ModeInv, Mode
<1>1. CASE Enter(t)
  <2>1. InsideNow' = InsideNow \cup {t}
    BY <1>0, <1>1 DEF Enter, Goto, InsideNow, Inside, MapTypeOK
  <2>2. reach[t] = {}
    BY <1>0, <1>1 DEF Enter, Inside
  <2>3. Waiting' = Waiting
    BY <1>0, <1>1, <2>2 DEF Enter, Waiting, WaitsFor, Linked, MapTypeOK
  <2>4. Grace!Enter(t)
    BY <1>1, <2>1, <2>3 DEF Enter, Grace!Enter, InsideNow, Waiting, WaitsFor
  <2> QED
    BY <2>4 DEF Grace!Next
<1>2. CASE LeaveMap(t)
  <2>1. InsideNow' = InsideNow \ {t}
    BY <1>0, <1>2 DEF LeaveMap, Goto, InsideNow, Inside, Over, MapTypeOK
  <2>2. Waiting' = [n \in Node |-> Waiting[n] \ {t}]
    BY <1>0, <1>2 DEF LeaveMap, Waiting, WaitsFor, MapTypeOK
  <2>3. Grace!Leave(t)
    BY <1>2, <2>1, <2>2 DEF LeaveMap, Grace!Leave, InsideNow, Waiting, WaitsFor
  <2> QED
    BY <2>3 DEF Grace!Next
<1>3. ASSUME NEW n \in Node, Link(t, n) PROVE Grace!Next
  <2>1. InsideNow' = InsideNow
    BY <1>3 DEF Link, InsideNow, Inside
  <2>2. Waiting' = Waiting
    BY <1>0, <1>3 DEF Link, Waiting, WaitsFor, MapTypeOK
  <2>3. Grace!Link(t, n)
    BY <1>3, <2>1, <2>2 DEF Link, Grace!Link, InsideNow, Waiting, WaitsFor
  <2> QED
    BY <2>3 DEF Grace!Next
<1>4. ASSUME NEW n \in Node, Unlink(t, n) PROVE Grace!Next
  <2>1. InsideNow' = InsideNow
    BY <1>4 DEF Unlink, InsideNow, Inside
  <2>2. {u \in Thread : n \in reach[u]} = InsideNow
    BY <1>0, <1>4 DEF Unlink, InsideNow, ReachInv, Linked
  <2>3. Waiting' = [Waiting EXCEPT ![n] = InsideNow]
    BY <1>0, <1>4, <2>2, ZenonT(30) DEF Unlink, Waiting, WaitsFor, MapTypeOK
  <2>4. Grace!Retire(t, n)
    BY <1>4, <2>1, <2>3 DEF Unlink, Grace!Retire, InsideNow, Waiting, WaitsFor
  <2> QED
    BY <2>4 DEF Grace!Next
<1>5. CASE FreeNow(t)
  <2>1. InsideNow' = InsideNow
    BY <1>0, <1>5 DEF FreeNow, HandedIn, Goto, Over, InsideNow, Inside, MapTypeOK
  <2>2. bag[t] \in SUBSET Node /\ \A n \in bag[t] : node[n] = "retired"
    BY <1>0, <1>5 DEF FreeNow, HeldInv, Owned, MapTypeOK
  <2>3. Grace!Free(bag[t])
    BY <1>5, <2>1, <2>2, FreeIsGrace DEF FreeNow
  <2> QED
    BY <2>2, <2>3 DEF Grace!Next
<1>6. CASE NodeReclaim(t)
  <2>1. InsideNow' = InsideNow
    BY <1>6 DEF NodeReclaim, InsideNow, Inside
  <2>2. took[t] \in SUBSET Node
    BY DEF MapInductive, CBP!CbInductive, CBP!CbTypeOK
  <2>3. \A n \in took[t] : node[n] = "retired"
    BY <1>0, <2>2 DEF HeldInv
  <2>4. Grace!Free(took[t])
    BY <1>6, <2>1, <2>2, <2>3, FreeIsGrace DEF NodeReclaim
  <2> QED
    BY <2>2, <2>4 DEF Grace!Next
<1>7. CASE \/ RegisterThread(t) \/ UnregisterThread(t) \/ EpochStep(t) \/ BeginFinalize(t) \/ CallbackStep(t)
  BY <1>7, Unseen DEF RegisterThread, UnregisterThread, EpochStep, BeginFinalize, CallbackStep,
        mapVars, InsideNow, Inside
<1>8. CASE \/ EnterMap(t) \/ BumpEpoch(t) \/ AskSafe(t) \/ FreeLater(t) \/ Accepted(t) \/ Refused(t)
           \/ UnregisterFinalizer(t) \/ DrainAll(t) \/ Finalized(t)
  <2>1. UNCHANGED <<node, reach>> /\ mpc[t] # "in" /\ mpc'[t] # "in"
        /\ \A u \in Thread : u # t => mpc'[u] = mpc[u]
    BY <1>0, <1>8 DEF EnterMap, MayStart, BumpEpoch, AskSafe, FreeLater, Accepted, Refused, HandedIn,
          Over, UnregisterFinalizer, DrainAll, Finalized, Goto, MapTypeOK
  <2>2. UNCHANGED InsideNow
    BY <2>1 DEF InsideNow, Inside
  <2> QED
    BY <2>1, <2>2, Unseen
<1> QED
  BY <1>1, <1>2, <1>3, <1>4, <1>5, <1>6, <1>7, <1>8 DEF MapStep

\* Epochs and callbacks implement grace periods: a node that was unlinked is
\* freed only after every thread that was inside at that time has left.
THEOREM ImplementsGraceHolds == MapSpec => ImplementsGrace
<1>1. MapInit => Grace!Init
  BY DEF MapInit, Grace!Init, Inside
<1>2. MapInductive /\ [MapNext]_allVars => [Grace!Next]_Grace!vars
  <2> SUFFICES ASSUME MapInductive, [MapNext]_allVars PROVE Grace!Next \/ UNCHANGED Grace!vars
    OBVIOUS
  <2>1. CASE UNCHANGED allVars
    <3>1. UNCHANGED <<node, reach, InsideNow>>
      BY <2>1 DEF allVars, mapVars, InsideNow, Inside
    <3> QED
      BY <3>1, Unseen
  <2> QED
    BY <2>1, MapSteps, GraceStep
<1> QED
  BY <1>1, <1>2, MapAlways, PTL DEF MapSpec, ImplementsGrace, Grace!Spec
=============================================================================
