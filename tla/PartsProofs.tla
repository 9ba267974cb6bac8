---------------------------- MODULE PartsProofs -----------------------------
(***************************************************************************)
(* Proofs about the parts that share no state with others, for any number  *)
(* of threads, places and pages and any sizes: the upgradable control, the *)
(* thread pool, the concurrent stack, the log segments and the files of    *)
(* the logger.                                                             *)
(***************************************************************************)
EXTENDS ConcurrencyControl, ThreadPool, ConcurrentStack, Segment, LogRotate,
        FiniteSetTheorems, SequenceTheorems, TLAPS

(***************************************************************************)
(* The upgradable control (ConcurrencyControl).                            *)
(***************************************************************************)
\* the readers counted in active_
Counted == {t \in Thread : HoldsCount(t) \/ pc[t] = "backoff"}

\* the writer that has set the bit and not yet finished the upgrade
Upgrading(t) == pc[t] \in {"drain", "done"}

\* CountExact, with a name for the set of readers
CountInv == active = (IF BitSet THEN REQUIRED_BIT ELSE 0) + Cardinality(Counted)

\* early readers are still counted, and have gone where a writer goes on
EarlyInv ==
  /\ \A t \in early : HoldsCount(t)
  /\ (upgrade_done \/ \E t \in Thread : pc[t] = "done") => early = {}

\* writers are there only once the bit is set, and one of them upgrades
WriterInv ==
  /\ \A t \in Thread : Upgrading(t) => BitSet /\ ~upgrade_done
  /\ \A t, u \in Thread : Upgrading(t) /\ Upgrading(u) => t = u
  /\ upgrade_done => BitSet

\* the inductive invariant
ControlIInv == TypeOK /\ CountInv /\ EarlyInv /\ WriterInv

-------------------------------------------------------------------------------
\* The number of readers counted is a natural smaller than the bit.
LEMMA FewCounted ==
  /\ IsFiniteSet(Counted)
  /\ Cardinality(Counted) \in Nat
  /\ Cardinality(Counted) < REQUIRED_BIT
<1>1. Counted \subseteq Thread
  BY DEF Counted
<1>2. /\ IsFiniteSet(Counted)
      /\ Cardinality(Counted) <= Cardinality(Thread)
  BY <1>1, ThreadAssumption, FS_Subset
<1>3. Cardinality(Counted) \in Nat /\ Cardinality(Thread) \in Nat
  BY <1>2, ThreadAssumption, FS_CardinalityType
<1> QED
  BY <1>2, <1>3, ThreadAssumption, RequiredBitAssumption

\* The bit is set for ever: what is subtracted was added by a reader.
LEMMA BitStays ==
  ASSUME ControlIInv, [Next]_vars
  PROVE  BitSet => BitSet'
<1> SUFFICES ASSUME BitSet PROVE BitSet'
  OBVIOUS
<1> USE FewCounted, RequiredBitAssumption DEF ControlIInv, TypeOK, BitSet
<1>1. ASSUME NEW t \in Thread, t \in Counted PROVE active > REQUIRED_BIT
  <2>1. Cardinality(Counted) # 0
    BY <1>1, FS_EmptySet
  <2> QED
    BY <2>1 DEF CountInv
<1>2. CASE UNCHANGED vars
  BY <1>2 DEF vars
<1>3. ASSUME NEW t \in Thread, Read(t) \/ Write(t) PROVE BitSet'
  BY <1>3 DEF Read, Write
<1>4. ASSUME NEW t \in Thread, Backoff(t) PROVE BitSet'
  BY <1>1, <1>4 DEF Backoff, Counted
<1>5. ASSUME NEW t \in Thread, Release(t) PROVE BitSet'
  BY <1>1, <1>5 DEF Release, Counted
<1>6. ASSUME NEW t \in Thread,
             LockShared(t) \/ Drained(t) \/ UpgradeDone(t) \/ SeesUpgrade(t) \/ Lock(t)
      PROVE  BitSet'
  BY <1>6 DEF LockShared, Drained, UpgradeDone, SeesUpgrade, Lock
<1> QED
  BY <1>2, <1>3, <1>4, <1>5, <1>6 DEF Next, Step

-------------------------------------------------------------------------------
\* Every step keeps every variable in its type: the count never underflows.
LEMMA TypeStep ==
  ASSUME ControlIInv, [Next]_vars
  PROVE  TypeOK'
<1> USE FewCounted, RequiredBitAssumption, MaxCallsAssumption DEF ControlIInv, TypeOK
<1>1. CASE UNCHANGED vars
  BY <1>1 DEF vars
<1>2. ASSUME NEW t \in Thread, Read(t) PROVE TypeOK'
  BY <1>2 DEF Read, StartCall, Goto
<1>3. ASSUME NEW t \in Thread, Write(t) PROVE TypeOK'
  BY <1>3 DEF Write, StartCall, Goto
<1>4. ASSUME NEW t \in Thread, t \in Counted PROVE active - 1 \in Nat
  <2>1. Cardinality(Counted) # 0
    BY <1>4, FS_EmptySet
  <2> QED
    BY <2>1 DEF CountInv
<1>5. ASSUME NEW t \in Thread, Backoff(t) PROVE TypeOK'
  BY <1>4, <1>5 DEF Backoff, Goto, Counted
<1>6. ASSUME NEW t \in Thread, Release(t) PROVE TypeOK'
  BY <1>4, <1>6 DEF Release, Goto, Counted
<1>7. ASSUME NEW t \in Thread,
             LockShared(t) \/ Drained(t) \/ UpgradeDone(t) \/ SeesUpgrade(t) \/ Lock(t)
      PROVE  TypeOK'
  BY <1>7 DEF LockShared, Drained, UpgradeDone, SeesUpgrade, Lock, Goto
<1> QED
  BY <1>1, <1>2, <1>3, <1>5, <1>6, <1>7 DEF Next, Step

\* A read adds one to the count and one reader to those counted; a back-off
\* and the end of a counting guard take both away; nothing else touches either.
LEMMA CountStep ==
  ASSUME ControlIInv, [Next]_vars
  PROVE  CountInv'
<1> USE FewCounted, RequiredBitAssumption DEF ControlIInv, TypeOK
<1>0. ASSUME Counted' = Counted, active' = active PROVE CountInv'
  BY <1>0 DEF CountInv, BitSet
<1>1. CASE UNCHANGED vars
  BY <1>0, <1>1 DEF vars, Counted, HoldsCount
<1>2. ASSUME NEW t \in Thread, Read(t) PROVE CountInv'
  <2>1. t \notin Counted /\ Counted' = Counted \cup {t}
    BY <1>2 DEF Read, StartCall, Goto, Counted, HoldsCount
  <2>2. Cardinality(Counted') = Cardinality(Counted) + 1
    BY <2>1, FS_AddElement
  <2>3. Cardinality(Counted') < REQUIRED_BIT
    <3>1. Counted' \subseteq Thread
      BY DEF Counted
    <3>2. Cardinality(Counted') <= Cardinality(Thread)
      BY <3>1, ThreadAssumption, FS_Subset
    <3>3. Cardinality(Thread) \in Nat
      BY ThreadAssumption, FS_CardinalityType
    <3> QED
      BY <2>2, <3>2, <3>3, ThreadAssumption
  <2>4. active' = active + 1
    BY <1>2 DEF Read
  <2> QED
    BY <2>2, <2>3, <2>4 DEF CountInv, BitSet
<1>3. ASSUME NEW t \in Thread, Write(t) PROVE CountInv'
  <2>1. Counted' = Counted
    BY <1>3 DEF Write, StartCall, Goto, Counted, HoldsCount
  <2>2. active' = IF BitSet THEN active ELSE active + REQUIRED_BIT
    BY <1>3 DEF Write
  <2> QED
    BY <2>1, <2>2 DEF CountInv, BitSet
<1>4. ASSUME NEW t \in Counted, Counted' = Counted \ {t}, active' = active - 1 PROVE CountInv'
  <2>1. Cardinality(Counted') = Cardinality(Counted) - 1
    BY <1>4, FS_RemoveElement
  <2>2. Cardinality(Counted) # 0
    BY <1>4, FS_EmptySet
  <2> QED
    BY <1>4, <2>1, <2>2 DEF CountInv, BitSet
<1>5. ASSUME NEW t \in Thread, Backoff(t) PROVE CountInv'
  <2>1. t \in Counted /\ Counted' = Counted \ {t}
    BY <1>5 DEF Backoff, Goto, Counted, HoldsCount
  <2> QED
    BY <1>4, <1>5, <2>1 DEF Backoff
<1>6. ASSUME NEW t \in Thread, Release(t) PROVE CountInv'
  <2>1. CASE HoldsCount(t)
    <3>1. t \in Counted /\ Counted' = Counted \ {t}
      BY <1>6, <2>1 DEF Release, Goto, Counted, HoldsCount
    <3> QED
      BY <1>4, <1>6, <2>1, <3>1 DEF Release
  <2>2. CASE ~HoldsCount(t)
    <3>1. Counted' = Counted
      BY <1>6, <2>2 DEF Release, Goto, Counted, HoldsCount, HoldsShared, HoldsUnique
    <3> QED
      BY <1>0, <1>6, <2>2, <3>1 DEF Release
  <2> QED
    BY <2>1, <2>2
<1>7. ASSUME NEW t \in Thread,
             LockShared(t) \/ Drained(t) \/ UpgradeDone(t) \/ SeesUpgrade(t) \/ Lock(t)
      PROVE  CountInv'
  <2>1. Counted' = Counted
    BY <1>7 DEF LockShared, Drained, UpgradeDone, SeesUpgrade, Lock, Goto, Counted, HoldsCount
  <2>2. active' = active
    BY <1>7 DEF LockShared, Drained, UpgradeDone, SeesUpgrade, Lock
  <2> QED
    BY <1>0, <2>1, <2>2
<1> QED
  BY <1>1, <1>2, <1>3, <1>5, <1>6, <1>7 DEF Next, Step

\* Nobody is counted early once a writer is past the drain: it waited for the
\* bare bit, and readers are early only while there is no bit.
LEMMA EarlyStep ==
  ASSUME ControlIInv, [Next]_vars
  PROVE  EarlyInv'
<1> USE DEF ControlIInv, TypeOK, EarlyInv, HoldsCount
<1>1. CASE UNCHANGED vars
  BY <1>1 DEF vars
<1>2. ASSUME NEW t \in Thread, Read(t) PROVE EarlyInv'
  <2>1. pc[t] = "idle" /\ upgrade_done' = upgrade_done
    BY <1>2 DEF Read, StartCall
  <2>2. CASE BitSet
    BY <1>2, <2>1, <2>2 DEF Read, StartCall, Goto
  <2>3. CASE ~BitSet
    <3>1. ~(active > REQUIRED_BIT)
      BY <2>3, RequiredBitAssumption DEF BitSet
    <3>2. ~upgrade_done /\ \A u \in Thread : pc[u] # "done"
      BY <2>3 DEF WriterInv, Upgrading
    <3> QED
      BY <1>2, <2>1, <2>3, <3>1, <3>2 DEF Read, StartCall, Goto
  <2> QED
    BY <2>2, <2>3
<1>3. ASSUME NEW t \in Thread, Write(t) PROVE EarlyInv'
  BY <1>3 DEF Write, StartCall, Goto
<1>4. ASSUME NEW t \in Thread, Drained(t) PROVE EarlyInv'
  <2>1. Counted = {}
    <3>1. active = REQUIRED_BIT
      BY <1>4 DEF Drained
    <3>2. Cardinality(Counted) = 0
      BY <3>1, FewCounted, RequiredBitAssumption DEF CountInv, BitSet
    <3> QED
      BY <3>2, FewCounted, FS_EmptySet
  <2>2. early = {}
    BY <2>1 DEF Counted
  <2> QED
    BY <1>4, <2>2 DEF Drained, Goto
<1>5. ASSUME NEW t \in Thread, UpgradeDone(t) PROVE EarlyInv'
  BY <1>5 DEF UpgradeDone, Goto
<1>6. ASSUME NEW t \in Thread, Release(t) PROVE EarlyInv'
  BY <1>6 DEF Release, Goto
<1>7. ASSUME NEW t \in Thread, Backoff(t) \/ LockShared(t) \/ SeesUpgrade(t) \/ Lock(t)
      PROVE  EarlyInv'
  BY <1>7 DEF Backoff, LockShared, SeesUpgrade, Lock, Goto
<1> QED
  BY <1>1, <1>2, <1>3, <1>4, <1>5, <1>6, <1>7 DEF Next, Step

\* Only the writer that finds no bit upgrades, and ends before others go on.
LEMMA WriterStep ==
  ASSUME ControlIInv, [Next]_vars
  PROVE  WriterInv'
<1> USE DEF ControlIInv, TypeOK, WriterInv, Upgrading
<1>0. BitSet => BitSet'
  BY BitStays
<1>1. CASE UNCHANGED vars
  BY <1>0, <1>1 DEF vars
<1>2. ASSUME NEW t \in Thread, Read(t) PROVE WriterInv'
  BY <1>0, <1>2 DEF Read, StartCall, Goto
<1>3. ASSUME NEW t \in Thread, Write(t) PROVE WriterInv'
  <2>1. CASE BitSet
    BY <1>0, <1>3, <2>1 DEF Write, StartCall, Goto
  <2>2. CASE ~BitSet
    <3>1. BitSet'
      BY <1>3, <2>2, RequiredBitAssumption DEF Write, BitSet
    <3>2. ~upgrade_done /\ \A u \in Thread : ~Upgrading(u)
      BY <2>2
    <3> QED
      BY <1>3, <2>2, <3>1, <3>2 DEF Write, StartCall, Goto
  <2> QED
    BY <2>1, <2>2
<1>4. ASSUME NEW t \in Thread, Drained(t) PROVE WriterInv'
  BY <1>0, <1>4 DEF Drained, Goto
<1>5. ASSUME NEW t \in Thread, UpgradeDone(t) PROVE WriterInv'
  BY <1>0, <1>5 DEF UpgradeDone, Goto
<1>6. ASSUME NEW t \in Thread,
             Backoff(t) \/ LockShared(t) \/ SeesUpgrade(t) \/ Lock(t) \/ Release(t)
      PROVE  WriterInv'
  BY <1>0, <1>6 DEF Backoff, LockShared, SeesUpgrade, Lock, Release, Goto
<1> QED
  BY <1>1, <1>2, <1>3, <1>4, <1>5, <1>6 DEF Next, Step

\* A control that nobody uses satisfies the invariant.
LEMMA ControlStarts == Init => ControlIInv
<1> SUFFICES ASSUME Init PROVE ControlIInv
  OBVIOUS
<1> USE RequiredBitAssumption, MaxCallsAssumption
<1>1. TypeOK
  <2>1. 0 \in 0 .. MaxCalls
    OBVIOUS
  <2>2. pc = [t \in Thread |-> "idle"] /\ calls = [t \in Thread |-> 0]
    BY DEF Init
  <2>3. active \in Nat /\ upgrade_done \in BOOLEAN /\ early \in SUBSET Thread
    BY DEF Init
  <2> QED
    BY <2>1, <2>2, <2>3 DEF TypeOK
<1>4. EarlyInv /\ WriterInv
  BY DEF Init, EarlyInv, WriterInv, Upgrading
<1>2. Counted = {}
  BY DEF Init, Counted, HoldsCount
<1>3. CountInv
  BY <1>2, FS_EmptySet DEF Init, CountInv, BitSet
<1> QED
  BY <1>1, <1>3, <1>4 DEF ControlIInv

\* The invariant holds in every state of every execution.
LEMMA ControlIInvHolds == Spec => []ControlIInv
<1>1. ASSUME ControlIInv, [Next]_vars PROVE ControlIInv'
  BY <1>1, TypeStep, CountStep, EarlyStep, WriterStep DEF ControlIInv
<1> QED
  BY <1>1, ControlStarts, PTL DEF Spec

-------------------------------------------------------------------------------
\* However many writers arrive together, one performs the upgrade.
LEMMA OneUpgraderHolds == ControlIInv => OneUpgrader
<1> SUFFICES ASSUME ControlIInv PROVE OneUpgrader
  OBVIOUS
<1> DEFINE U == {t \in Thread : pc[t] \in {"drain", "done"}}
<1>1. \A t, u \in U : t = u
  BY DEF ControlIInv, WriterInv, Upgrading
<1>2. Cardinality(U) <= 1
  <2>1. CASE U = {}
    BY <2>1, FS_EmptySet
  <2>2. ASSUME NEW t \in U PROVE Cardinality(U) = 1
    <3>1. U = {t}
      BY <1>1, <2>2
    <3> QED
      BY <3>1, FS_Singleton
  <2> QED
    BY <2>1, <2>2
<1>3. \A t \in U : ~upgrade_done /\ BitSet
  BY DEF ControlIInv, WriterInv, Upgrading
<1> QED
  BY <1>2, <1>3 DEF OneUpgrader

\* active_ is at all times the bit, if it is set, plus the readers counted: the
\* drain of the one writer that upgrades (enable) ends neither early nor, by an
\* underflow, never, however back-offs and new readers disturb the count.
THEOREM ControlInvHolds == Spec => []ControlInv
<1>1. ControlIInv => CountExact
  BY DEF ControlIInv, CountInv, CountExact, Counted
<1>2. ControlIInv => ControlInv
  BY <1>1, OneUpgraderHolds DEF ControlIInv, ControlInv
<1> QED
  BY <1>2, ControlIInvHolds, PTL

\* No reader that was counted before the bit was set is still reading when the
\* upgrade is done, and so none when any writer locks the mutex.
THEOREM OldReadersDrainedHolds == Spec => []OldReadersDrained
<1>1. ControlIInv => OldReadersDrained
  BY DEF ControlIInv, EarlyInv, OldReadersDrained
<1> QED
  BY <1>1, ControlIInvHolds, PTL

(***************************************************************************)
(* The thread pool (ThreadPool).                                           *)
(***************************************************************************)
\* the types that the arguments about the queue need
PoolTypeOK ==
  /\ work_queues \in Seq(Nat) /\ started \in Seq(Nat)
  /\ enqueued \in Nat
  /\ worker \in [Worker -> {"none", "lock", "waiting", "running"}]
  /\ caller \in [Caller -> {"idle", "notify"}]

\* the works in the order of enqueue
Numbers(n) == [i \in 1 .. n |-> i]

\* the workers at a place, and the callers that have yet to notify
At(place) == {w \in Worker : worker[w] = place}
Announcing == {c \in Caller : caller[c] = "notify"}

\* NoMissedWork in these terms
Covered ==
  At("waiting") # {} => Len(work_queues) <= Cardinality(At("lock")) + Cardinality(Announcing)

\* the inductive invariant
PoolIInv == PoolTypeOK /\ StartedInOrder /\ Covered

-------------------------------------------------------------------------------
\* Taking the first of a queue and starting it keeps the order of both.
LEMMA TakeFirst ==
  ASSUME NEW s \in Seq(Nat), NEW q \in Seq(Nat), q # <<>>
  PROVE  /\ Tail(q) \in Seq(Nat) /\ Append(s, Head(q)) \in Seq(Nat)
         /\ Len(Tail(q)) = Len(q) - 1
         /\ Append(s, Head(q)) \o Tail(q) = s \o q
<1>1. /\ Head(q) \in Nat /\ Tail(q) \in Seq(Nat) /\ Len(Tail(q)) = Len(q) - 1
      /\ \A i \in 1 .. Len(Tail(q)) : Tail(q)[i] = q[i + 1]
      /\ q[1] = Head(q)
  BY HeadTailProperties
<1>2. Append(s, Head(q)) \in Seq(Nat)
  BY <1>1
<1>3. <<Head(q)>> \in Seq(Nat)
  BY <1>1
<1>4. <<Head(q)>> \o Tail(q) = q
  BY <1>1, <1>3
<1>5. Append(s, Head(q)) = s \o <<Head(q)>>
  BY <1>1, AppendIsConcat
<1>6. (s \o <<Head(q)>>) \o Tail(q) = s \o (<<Head(q)>> \o Tail(q))
  BY <1>1, <1>3, ConcatAssociative
<1> QED
  BY <1>1, <1>2, <1>4, <1>5, <1>6

\* Work enqueued comes after all that was.
LEMMA OneMoreNumber ==
  ASSUME NEW n \in Nat
  PROVE  Append(Numbers(n), n + 1) = Numbers(n + 1)
<1>1. /\ Numbers(n) \in Seq(Nat) /\ Len(Numbers(n)) = n
      /\ \A i \in 1 .. n : Numbers(n)[i] = i
  BY DEF Numbers
<1>2. /\ Numbers(n + 1) \in Seq(Nat) /\ Len(Numbers(n + 1)) = n + 1
      /\ \A i \in 1 .. n + 1 : Numbers(n + 1)[i] = i
  BY DEF Numbers
<1> DEFINE m == Append(Numbers(n), n + 1)
<1>3. /\ m \in Seq(Nat) /\ Len(m) = n + 1
      /\ \A i \in 1 .. n : m[i] = i
      /\ m[n + 1] = n + 1
  BY <1>1, AppendProperties
<1>4. \A i \in 1 .. n + 1 : m[i] = Numbers(n + 1)[i]
  BY <1>2, <1>3
<1> HIDE DEF m
<1>5. m = Numbers(n + 1)
  BY <1>2, <1>3, <1>4, SeqEqual
<1> QED
  BY <1>5 DEF m

\* The next number, added last, continues the numbering.
LEMMA AddLast ==
  ASSUME NEW s \in Seq(Nat), NEW q \in Seq(Nat), NEW n \in Nat, s \o q = Numbers(n)
  PROVE  /\ Append(q, n + 1) \in Seq(Nat)
         /\ Len(Append(q, n + 1)) = Len(q) + 1
         /\ s \o Append(q, n + 1) = Numbers(n + 1)
<1>1. Append(q, n + 1) \in Seq(Nat) /\ Len(Append(q, n + 1)) = Len(q) + 1
  OBVIOUS
<1>2. s \o Append(q, n + 1) = Append(s \o q, n + 1)
  OBVIOUS
<1> QED
  BY <1>1, <1>2, OneMoreNumber

\* Sets of workers and of callers can be counted.
LEMMA Counts ==
  ASSUME IsFiniteSet(Worker), IsFiniteSet(Caller)
  PROVE  /\ \A place : IsFiniteSet(At(place)) /\ Cardinality(At(place)) \in Nat
         /\ IsFiniteSet(Announcing) /\ Cardinality(Announcing) \in Nat
<1>1. \A place : At(place) \in SUBSET Worker
  BY DEF At
<1>2. Announcing \in SUBSET Caller
  BY DEF Announcing
<1> QED
  BY <1>1, <1>2, FS_Subset, FS_CardinalityType

\* A worker that comes to the mutex is one more there.
LEMMA OneMore ==
  ASSUME IsFiniteSet(Worker), IsFiniteSet(Caller), PoolTypeOK,
         NEW w \in Worker, worker[w] # "lock", worker' = [worker EXCEPT ![w] = "lock"]
  PROVE  Cardinality(At("lock")') = Cardinality(At("lock")) + 1
<1>1. At("lock")' = At("lock") \cup {w} /\ w \notin At("lock")
  BY DEF At, PoolTypeOK
<1> QED
  BY <1>1, Counts, FS_AddElement

\* Going to the mutex, or waking up there, takes nothing from those who will
\* see the queue.
LEMMA ComesToLock ==
  ASSUME IsFiniteSet(Worker), IsFiniteSet(Caller), PoolIInv,
         NEW w \in Worker, worker[w] # "lock", worker' = [worker EXCEPT ![w] = "lock"],
         UNCHANGED <<work_queues, caller, enqueued, started>>
  PROVE  PoolIInv'
<1>1. Cardinality(At("lock")') = Cardinality(At("lock")) + 1
  BY OneMore DEF PoolIInv
<1>2. Announcing' = Announcing
  BY DEF Announcing
<1>3. At("waiting")' \subseteq At("waiting")
  BY DEF At, PoolIInv, PoolTypeOK
<1>4. Len(work_queues) \in Nat
  BY DEF PoolIInv, PoolTypeOK
<1>5. Covered'
  BY <1>1, <1>2, <1>3, <1>4, Counts DEF Covered, PoolIInv
<1> QED
  BY <1>5 DEF PoolIInv, PoolTypeOK, StartedInOrder

\* Adding a work keeps the invariant.
LEMMA EnqueueStep ==
  ASSUME IsFiniteSet(Worker), IsFiniteSet(Caller), PoolIInv, NEW c \in Caller, Enqueue(c)
  PROVE  PoolIInv'
<1> USE DEF Enqueue
<1>1. /\ work_queues' = Append(work_queues, enqueued + 1)
      /\ work_queues' \in Seq(Nat)
      /\ Len(work_queues') = Len(work_queues) + 1
      /\ StartedInOrder'
  <2>1. /\ started \in Seq(Nat) /\ work_queues \in Seq(Nat) /\ enqueued \in Nat
        /\ started \o work_queues = Numbers(enqueued)
    BY DEF PoolIInv, PoolTypeOK, StartedInOrder, Numbers
  <2>2. /\ Append(work_queues, enqueued + 1) \in Seq(Nat)
        /\ Len(Append(work_queues, enqueued + 1)) = Len(work_queues) + 1
        /\ started \o Append(work_queues, enqueued + 1) = Numbers(enqueued + 1)
    BY <2>1, AddLast
  <2> QED
    BY <2>2 DEF StartedInOrder, Numbers
<1>2. Announcing' = Announcing \cup {c} /\ c \notin Announcing
  BY DEF Announcing, PoolIInv, PoolTypeOK
<1>3. Cardinality(Announcing') = Cardinality(Announcing) + 1
  BY <1>2, Counts, FS_AddElement
<1>4. At("lock")' = At("lock") /\ At("waiting")' = At("waiting")
  BY DEF At
<1>5. Len(work_queues) \in Nat
  BY DEF PoolIInv, PoolTypeOK
<1>6. Covered'
  BY <1>1, <1>3, <1>4, <1>5, Counts DEF Covered, PoolIInv
<1>7. PoolTypeOK'
  BY <1>1 DEF PoolIInv, PoolTypeOK
<1> QED
  BY <1>1, <1>6, <1>7 DEF PoolIInv

\* Waking a worker keeps it.
LEMMA NotifyStep ==
  ASSUME IsFiniteSet(Worker), IsFiniteSet(Caller), PoolIInv, NEW c \in Caller, Notify(c)
  PROVE  PoolIInv'
<1> USE DEF Notify
<1>1. Announcing' = Announcing \ {c} /\ c \in Announcing
  BY DEF Announcing, PoolIInv, PoolTypeOK
<1>2. Cardinality(Announcing') = Cardinality(Announcing) - 1
  BY <1>1, Counts, FS_RemoveElement
<1>3. caller' \in [Caller -> {"idle", "notify"}]
  BY DEF PoolIInv, PoolTypeOK
<1>4. Len(work_queues) \in Nat
  BY DEF PoolIInv, PoolTypeOK
<1>5. CASE At("waiting") = {}
  <2>1. worker' = worker
    BY <1>5 DEF At
  <2>2. At("waiting")' = {}
    BY <1>5, <2>1 DEF At
  <2> QED
    BY <1>3, <2>1, <2>2 DEF PoolIInv, PoolTypeOK, StartedInOrder, Covered
<1>6. CASE At("waiting") # {}
  <2>1. PICK w \in Worker : worker[w] = "waiting" /\ worker' = [worker EXCEPT ![w] = "lock"]
    BY <1>6 DEF At
  <2>2. Cardinality(At("lock")') = Cardinality(At("lock")) + 1
    BY <2>1, OneMore DEF PoolIInv
  <2>3. Covered'
    BY <1>2, <1>4, <1>6, <2>2, Counts DEF Covered, PoolIInv
  <2>4. worker' \in [Worker -> {"none", "lock", "waiting", "running"}]
    BY <2>1 DEF PoolIInv, PoolTypeOK
  <2> QED
    BY <1>3, <2>3, <2>4 DEF PoolIInv, PoolTypeOK, StartedInOrder
<1> QED
  BY <1>5, <1>6

\* Taking a work keeps it.
LEMMA TakeStep ==
  ASSUME IsFiniteSet(Worker), IsFiniteSet(Caller), PoolIInv, NEW w \in Worker, Take(w)
  PROVE  PoolIInv'
<1> USE DEF Take
<1>1. CASE work_queues = <<>>
  <2>1. worker' \in [Worker -> {"none", "lock", "waiting", "running"}]
    BY <1>1 DEF PoolIInv, PoolTypeOK
  <2>2. Len(work_queues') = 0
    BY <1>1
  <2>3. \A place : Cardinality(At(place)') \in Nat
    <3>1. \A place : At(place)' \in SUBSET Worker
      BY DEF At
    <3> QED
      BY <3>1, FS_Subset, FS_CardinalityType
  <2>4. Announcing' = Announcing
    BY DEF Announcing
  <2>5. Covered'
    BY <2>2, <2>3, <2>4, Counts DEF Covered
  <2> QED
    BY <1>1, <2>1, <2>5 DEF PoolIInv, PoolTypeOK, StartedInOrder
<1>2. CASE work_queues # <<>>
  <2>1. /\ work_queues' \in Seq(Nat) /\ started' \in Seq(Nat)
        /\ Len(work_queues') = Len(work_queues) - 1
        /\ started' \o work_queues' = started \o work_queues
    BY <1>2, TakeFirst DEF PoolIInv, PoolTypeOK
  <2>2. worker' = [worker EXCEPT ![w] = "running"] /\ worker[w] = "lock"
    BY <1>2
  <2>3. At("lock")' = At("lock") \ {w} /\ w \in At("lock") /\ At("waiting")' = At("waiting")
    BY <2>2 DEF At, PoolIInv, PoolTypeOK
  <2>4. Cardinality(At("lock")') = Cardinality(At("lock")) - 1
    BY <2>3, Counts, FS_RemoveElement
  <2>5. Announcing' = Announcing
    BY DEF Announcing
  <2>6. Len(work_queues) \in Nat
    BY DEF PoolIInv, PoolTypeOK
  <2>7. Covered'
    BY <2>1, <2>3, <2>4, <2>5, <2>6, Counts, SMTT(30) DEF Covered, PoolIInv
  <2>8. worker' \in [Worker -> {"none", "lock", "waiting", "running"}]
    BY <2>2 DEF PoolIInv, PoolTypeOK
  <2> QED
    BY <2>1, <2>7, <2>8 DEF PoolIInv, PoolTypeOK, StartedInOrder
<1> QED
  BY <1>1, <1>2

\* An empty pool satisfies the invariant.
LEMMA PoolStarts ==
  ASSUME IsFiniteSet(Worker), IsFiniteSet(Caller), PoolInit
  PROVE  PoolIInv
<1> USE DEF PoolInit
<1>1. PoolTypeOK
  BY DEF PoolTypeOK
<1>2. StartedInOrder
  BY DEF StartedInOrder
<1>3. At("waiting") = {}
  BY DEF At
<1> QED
  BY <1>1, <1>2, <1>3 DEF PoolIInv, Covered

\* Every step keeps it.
LEMMA PoolStep ==
  ASSUME IsFiniteSet(Worker), IsFiniteSet(Caller), PoolIInv, [PoolNext]_poolVars
  PROVE  PoolIInv'
<1>1. CASE UNCHANGED poolVars
  BY <1>1 DEF poolVars, PoolIInv, PoolTypeOK, StartedInOrder, Covered, At, Announcing
<1>2. ASSUME NEW c \in Caller, Enqueue(c) PROVE PoolIInv'
  BY <1>2, EnqueueStep
<1>3. ASSUME NEW c \in Caller, Notify(c) PROVE PoolIInv'
  BY <1>3, NotifyStep
<1>4. ASSUME NEW w \in Worker, StartWorker(w) \/ Finish(w) \/ SpuriousWake(w) PROVE PoolIInv'
  BY <1>4, ComesToLock DEF StartWorker, Finish, SpuriousWake
<1>5. ASSUME NEW w \in Worker, Take(w) PROVE PoolIInv'
  BY <1>5, TakeStep
<1> QED
  BY <1>1, <1>2, <1>3, <1>4, <1>5 DEF PoolNext

\* For any number of workers, callers and works: works are started in the order
\* in which they were enqueued, each once, and while a worker sleeps each work
\* in the queue has a worker awake for it or a notify_one under way, although
\* enqueue notifies only after it has released the mutex.
THEOREM PoolInvHolds ==
  ASSUME IsFiniteSet(Worker), IsFiniteSet(Caller)
  PROVE  PoolSpec => []PoolInv
<1>1. PoolInit => PoolIInv
  BY PoolStarts
<1>2. PoolIInv /\ [PoolNext]_poolVars => PoolIInv'
  BY PoolStep
<1>3. PoolIInv => PoolInv
  BY DEF PoolIInv, Covered, At, Announcing, PoolInv, NoMissedWork
<1> QED
  BY <1>1, <1>2, <1>3, PTL DEF PoolSpec

(***************************************************************************)
(* The concurrent stack (ConcurrentStack).                                 *)
(***************************************************************************)
\* Who holds a node off the stack, and who reads one on it.
HandsOK(path) ==
  /\ \A t \in Pusher \cup Popper :
        /\ th[t].pc \in {"push", "take"} =>
              th[t].a \in Used /\ \A i \in DOMAIN path : path[i] # th[t].a
        /\ th[t].pc \in {"look", "front", "pop"} => \E i \in DOMAIN path : path[i] = th[t].a
        /\ th[t].pc \in {"look", "front", "pop", "take"} => t \in Popper
        /\ th[t].pc = "pop" => th[t].front = node[th[t].a].next
        /\ th[t].pc \in {"look", "take"} => th[t].expect = node[th[t].a].value
        /\ th[t].pc = "popped" => th[t].value = th[t].expect
  /\ \A t, u \in InHand : th[t].a = th[u].a => t = u

\* The stack is a chain of nodes that the threads respect.
StackShape ==
  /\ StackTypeOK /\ ~broken
  /\ \E path \in [1 .. Len(contents) -> Addr] : Chain(path) /\ HandsOK(path)

\* who is in the middle of an operation has a node in hand or in view
Busy == {"push", "look", "front", "pop", "take"}
HasNode == \A t \in Pusher \cup Popper : th[t].pc \in Busy => th[t].a \in Addr

\* the stack has its shape until a node is taken that another thread looks at
StackIInv == StackTypeOK /\ HasNode /\ (~undercut => StackShape /\ OwnedOnce)

\* The threads, and what the state keeps of one.
StackUser == Pusher \cup Popper
ThPc == {"idle", "push", "look", "front", "pop", "take", "popped"}
ThType == [pc : ThPc, a : Addr \cup {Null}, front : Addr \cup {Null}, value : Nat, expect : Nat]

\* The record of an idle thread, and of one that goes on.
LEMMA ThreadTypes ==
  /\ Idle \in ThType
  /\ \A r \in ThType, n \in Nat, x \in Addr \cup {Null} :
        /\ [Idle EXCEPT !.pc = "push", !.a = x] \in ThType
        /\ [Idle EXCEPT !.pc = "look", !.a = x, !.expect = n] \in ThType
        /\ [Idle EXCEPT !.pc = "front", !.a = x, !.expect = n] \in ThType
        /\ [Idle EXCEPT !.pc = "front", !.a = x] \in ThType
        /\ [r EXCEPT !.pc = "pop", !.front = x] \in ThType
        /\ [r EXCEPT !.pc = "take", !.expect = n] \in ThType
        /\ [r EXCEPT !.pc = "popped", !.value = n] \in ThType
BY ZenonT(30) DEF Idle, ThType, ThPc

\* The shape says what each part is.
LEMMA StackFacts ==
  ASSUME StackTypeOK
  PROVE  /\ top \in Addr \cup {Null} /\ node \in [Addr -> NodeType \cup {Null}]
         /\ th \in [StackUser -> ThType]
         /\ \A t \in StackUser : th[t] \in ThType
         /\ pushed \in Nat /\ contents \in Seq(Nat) /\ Len(contents) \in Nat
         /\ \A a \in Addr : node[a] # Null =>
               node[a] \in NodeType /\ node[a].value \in Nat /\ node[a].next \in Addr \cup {Null}
         /\ \A t \in StackUser : th[t].a \in Addr \cup {Null} /\ th[t].front \in Addr \cup {Null}
         /\ TopValue \in Nat
<1>1. contents # <<>> => Head(contents) \in Nat
  BY HeadTailProperties DEF StackTypeOK
<1> QED
  BY <1>1 DEF StackTypeOK, StackUser, ThType, ThPc, NodeType, TopValue

\* A new first element moves the others up.
LEMMA PutFirst ==
  ASSUME NEW s \in Seq(Nat), NEW v \in Nat
  PROVE  /\ <<v>> \o s \in Seq(Nat) /\ Len(<<v>> \o s) = Len(s) + 1
         /\ (<<v>> \o s)[1] = v
         /\ \A i \in 1 .. Len(s) : (<<v>> \o s)[i + 1] = s[i]
<1>1. <<v>> \in Seq(Nat) /\ Len(<<v>>) = 1 /\ <<v>>[1] = v
  OBVIOUS
<1> QED
  BY <1>1, ConcatProperties

\* A thread goes on with a record of the right kind.
GoesOn(t) ==
  \E q \in ThType : th' = [th EXCEPT ![t] = q] /\ (q.pc \in Busy => q.a \in Addr)

\* What the steps of a thread make of the rest of the state keeps its type.
RestTyped ==
  /\ top' \in Addr \cup {Null} /\ node' \in [Addr -> NodeType \cup {Null}]
  /\ pushed' \in Nat /\ contents' \in Seq(Nat) /\ {broken', undercut'} \subseteq BOOLEAN

\* What the steps of a thread make of its record, whatever memory holds.
LEMMA ThreadGoesOn ==
  ASSUME StackTypeOK, HasNode, NEW t \in StackUser,
         \/ \E a \in Addr : PushNew(t, a)
         \/ PushCas(t) \/ Pop(t) \/ TopLoad(t) \/ TopRead(t) \/ UseFreedNode(t)
  PROVE  GoesOn(t) \/ th' = th
<1> th[t] \in ThType /\ TopValue \in Nat /\ top \in Addr \cup {Null} /\ (th[t].pc \in Busy => th[t].a \in Addr)
  BY StackFacts DEF HasNode, StackUser
<1>1. ASSUME NEW q \in ThType, th' = [th EXCEPT ![t] = q], q.pc \in Busy => q.a \in Addr
      PROVE  GoesOn(t)
  BY <1>1 DEF GoesOn
<1>2. Become(t, Idle) => GoesOn(t)
  BY <1>1, ThreadTypes DEF Become, Idle, Busy
<1>3. ASSUME NEW a \in Addr, PushNew(t, a) PROVE GoesOn(t)
  BY <1>1, <1>3, ThreadTypes DEF PushNew, Become, Idle
<1>4. CASE PushCas(t)
  BY <1>2, <1>4 DEF PushCas
<1>5. CASE PopLoad(t) \/ TopLoad(t)
  <2>1. [Idle EXCEPT !.pc = "front", !.a = top, !.expect = TopValue] \in ThType
    BY ThreadTypes
  <2>2. [Idle EXCEPT !.pc = "look", !.a = top, !.expect = TopValue] \in ThType
    BY ThreadTypes
  <2>3. CASE top = Null
    BY <1>2, <1>5, <2>3 DEF PopLoad, TopLoad, Load
  <2>4. CASE top # Null
    BY <1>1, <1>5, <2>1, <2>2, <2>4 DEF PopLoad, TopLoad, Load, Become, Idle
  <2> QED
    BY <2>3, <2>4
<1>6. CASE PopFront(t)
  <2>1. node[th[t].a] # Null /\ th[t].a \in Addr
    BY <1>6 DEF PopFront, Busy
  <2>2. node[th[t].a].next \in Addr \cup {Null}
    BY <2>1, StackFacts
  <2>3. [th[t] EXCEPT !.pc = "pop", !.front = node[th[t].a].next] \in ThType
    BY <2>2, ThreadTypes
  <2> QED
    BY <1>1, <1>6, <2>1, <2>3 DEF PopFront, Become, ThType
<1>7. CASE PopDone(t)
  <2>1. [th[t] EXCEPT !.pc = "take", !.expect = TopValue] \in ThType /\ th[t].a \in Addr
    BY <1>7, ThreadTypes DEF PopDone, Busy
  <2> QED
    BY <1>1, <1>7, <2>1 DEF PopDone, Become, ThType
<1>8. CASE PopRetry(t)
  <2>1. [Idle EXCEPT !.pc = "front", !.a = top] \in ThType
    BY ThreadTypes
  <2>2. CASE top = Null
    BY <1>2, <1>8, <2>2 DEF PopRetry
  <2>3. CASE top # Null
    BY <1>1, <1>8, <2>1, <2>3 DEF PopRetry, Become, Idle
  <2> QED
    BY <2>2, <2>3
<1>9. CASE PopTake(t) \/ TopRead(t)
  <2>1. node[th[t].a] # Null /\ th[t].a \in Addr
    BY <1>9 DEF PopTake, TopRead, Busy
  <2>2. node[th[t].a].value \in Nat
    BY <2>1, StackFacts
  <2>3. [th[t] EXCEPT !.pc = "popped", !.value = node[th[t].a].value] \in ThType
    BY <2>2, ThreadTypes
  <2> QED
    BY <1>1, <1>9, <2>1, <2>3 DEF PopTake, TopRead, Become, ThType
<1>10. CASE PopReturn(t)
  BY <1>2, <1>10 DEF PopReturn
<1>11. CASE UseFreedNode(t)
  BY <1>11 DEF UseFreedNode
<1> QED
  BY <1>3, <1>4, <1>5, <1>6, <1>7, <1>8, <1>9, <1>10, <1>11 DEF Pop

\* The types are kept whatever the threads do, and so is HasNode.
LEMMA StackTypeNext ==
  ASSUME StackTypeOK, HasNode, [StackNext]_stackVars
  PROVE  StackTypeOK' /\ HasNode'
<1>0. /\ th \in [StackUser -> ThType] /\ {broken, undercut} \subseteq BOOLEAN
      /\ contents \in Seq(Nat) /\ pushed \in Nat
      /\ top \in Addr \cup {Null} /\ node \in [Addr -> NodeType \cup {Null}]
  BY StackFacts DEF StackTypeOK
<1>1. CASE UNCHANGED stackVars
  BY <1>1 DEF stackVars, StackTypeOK, HasNode
<1>2. CASE StackNext
  <2>1. PICK t \in StackUser :
          \/ t \in Pusher /\ (PushCas(t) \/ \E a \in Addr : PushNew(t, a))
          \/ t \in Popper /\ (Pop(t) \/ TopLoad(t) \/ TopRead(t))
          \/ UseFreedNode(t)
    BY <1>2 DEF StackNext, StackUser
  <2>2. GoesOn(t) \/ th' = th
    BY <2>1, ThreadGoesOn
  <2>3. th' \in [StackUser -> ThType] /\ HasNode'
    <3>1. CASE th' = th
      BY <1>0, <3>1 DEF HasNode
    <3>2. CASE GoesOn(t)
      <4>1. PICK q \in ThType : th' = [th EXCEPT ![t] = q] /\ (q.pc \in Busy => q.a \in Addr)
        BY <3>2 DEF GoesOn
      <4>2. th'[t] = q /\ \A u \in StackUser : u # t => th'[u] = th[u]
        BY <1>0, <4>1
      <4> QED
        BY <1>0, <4>1, <4>2 DEF HasNode, StackUser
    <3> QED
      BY <2>2, <3>1, <3>2
  <2>4. RestTyped
    <3>1. th[t].pc \in Busy => th[t].a \in Addr
      BY DEF HasNode, StackUser
    <3>2. ASSUME NEW a \in Addr, PushNew(t, a) PROVE RestTyped
      <4>1. [value |-> pushed + 1, next |-> top] \in NodeType
        BY <1>0 DEF NodeType
      <4> QED
        BY <1>0, <3>2, <4>1 DEF PushNew, RestTyped
    <3>3. CASE PushCas(t)
      <4>1. th[t].a \in Addr /\ node[th[t].a] # Null
        BY <3>1, <3>3 DEF PushCas, Busy
      <4>2. node[th[t].a] \in NodeType /\ node[th[t].a].value \in Nat
        BY <4>1, StackFacts
      <4>3. [node[th[t].a] EXCEPT !.next = top] \in NodeType
        BY <1>0, <4>2 DEF NodeType
      <4>4. <<node[th[t].a].value>> \o contents \in Seq(Nat)
        BY <1>0, <4>2, PutFirst
      <4> QED
        BY <1>0, <3>3, <4>1, <4>3, <4>4 DEF PushCas, RestTyped
    <3>4. CASE PopDone(t)
      <4>1. th[t].front \in Addr \cup {Null}
        BY StackFacts
      <4>2. contents # <<>> => Tail(contents) \in Seq(Nat)
        BY <1>0, HeadTailProperties
      <4> QED
        BY <1>0, <3>4, <4>1, <4>2 DEF PopDone, RestTyped
    <3>5. CASE PopTake(t)
      BY <1>0, <3>5 DEF PopTake, RestTyped
    <3>6. CASE \/ PopLoad(t) \/ TopLoad(t) \/ PopFront(t) \/ PopRetry(t) \/ TopRead(t) \/ PopReturn(t)
               \/ UseFreedNode(t)
      BY <1>0, <3>6 DEF PopLoad, TopLoad, Load, PopFront, PopRetry, TopRead, PopReturn, UseFreedNode,
                       RestTyped
    <3> QED
      BY <2>1, <3>2, <3>3, <3>4, <3>5, <3>6 DEF Pop
  <2> QED
    BY <2>3, <2>4 DEF RestTyped, StackTypeOK, StackUser, ThType, ThPc
<1> QED
  BY <1>1, <1>2

\* A node on the chain is memory in use.
LEMMA ChainUsed ==
  ASSUME StackTypeOK, NEW path \in [1 .. Len(contents) -> Addr], Chain(path)
  PROVE  /\ \A i \in 0 .. Len(contents) : Below(path, i) \in Addr \cup {Null}
         /\ \A i \in DOMAIN path :
               /\ path[i] \in Addr /\ path[i] \in Used /\ node[path[i]] # Null
               /\ node[path[i]].value = contents[i] /\ node[path[i]].next = Below(path, i)
<1>1. Len(contents) \in Nat /\ \A i \in DOMAIN path : contents[i] \in Nat
  BY DEF StackTypeOK
<1>2. \A i \in 0 .. Len(contents) : Below(path, i) \in Addr \cup {Null}
  BY <1>1 DEF Below
<1>3. ASSUME NEW i \in DOMAIN path
      PROVE  /\ path[i] \in Addr /\ path[i] \in Used /\ node[path[i]] # Null
             /\ node[path[i]].value = contents[i] /\ node[path[i]].next = Below(path, i)
  <2>1. contents[i] \in Nat /\ Below(path, i) \in Addr \cup {Null} /\ path[i] \in Addr
    BY <1>1, <1>2
  <2>2. node[path[i]] = [value |-> contents[i], next |-> Below(path, i)]
    BY DEF Chain
  <2>3. node[path[i]] \in NodeType
    BY <2>1, <2>2 DEF NodeType
  <2>4. node[path[i]] # Null
    BY <2>3, StackAssumption
  <2> QED
    BY <2>1, <2>2, <2>4 DEF Used
<1> QED
  BY <1>2, <1>3

\* A new node is no node of the chain, and nobody else has it.
LEMMA PushNewShape ==
  ASSUME StackShape, StackTypeOK', NEW t \in Pusher, NEW a \in Addr, PushNew(t, a)
  PROVE  StackShape'
<1> PICK path \in [1 .. Len(contents) -> Addr] : Chain(path) /\ HandsOK(path)
  BY DEF StackShape
<1>0. StackTypeOK /\ ~broken
  BY DEF StackShape
<1> DEFINE n == [value |-> pushed + 1, next |-> top]
           r == [Idle EXCEPT !.pc = "push", !.a = a]
<1>1. /\ node[a] = Null /\ node' = [node EXCEPT ![a] = n] /\ th' = [th EXCEPT ![t] = r]
      /\ top' = top /\ contents' = contents /\ broken' = broken /\ pushed' = pushed + 1
      /\ th[t].pc = "idle"
  BY DEF PushNew, Become
<1>2. n \in NodeType /\ n # Null /\ r \in ThType /\ r.pc = "push" /\ r.a = a
  <2>1. n \in NodeType
    BY <1>0, StackFacts DEF NodeType
  <2>2. r \in ThType
    BY ThreadTypes
  <2> QED
    BY <2>1, <2>2, StackAssumption DEF Idle
<1> HIDE DEF n, r
<1>4. \A i \in DOMAIN path : node[path[i]] # Null /\ path[i] # a
  BY <1>0, <1>1, ChainUsed
<1>5. /\ \A b \in Addr : b # a => node'[b] = node[b]
      /\ node'[a] = n /\ Used' = Used \cup {a} /\ a \notin Used
      /\ th'[t] = r /\ \A u \in StackUser : u # t => th'[u] = th[u]
  BY <1>0, <1>1, <1>2, StackFacts DEF Used, StackUser
<1>6. Chain(path)'
  BY <1>1, <1>4, <1>5, StackFacts DEF Chain, Below
<1>7. HandsOK(path)'
  BY <1>0, <1>1, <1>2, <1>4, <1>5, StackFacts DEF HandsOK, InHand, StackUser, Used
<1> QED
  BY <1>0, <1>1, <1>6, <1>7 DEF StackShape

\* A failed exchange of push writes the present top into the new node only.
LEMMA PushRetryShape ==
  ASSUME StackShape, StackTypeOK', NEW t \in Pusher, PushCas(t), UNCHANGED th
  PROVE  StackShape' /\ Used' = Used /\ InHand' = InHand /\ UNCHANGED contents
<1> PICK path \in [1 .. Len(contents) -> Addr] : Chain(path) /\ HandsOK(path)
  BY DEF StackShape
<1>0. StackTypeOK /\ ~broken /\ t \in StackUser
  BY DEF StackShape, StackUser
<1> DEFINE a == th[t].a
           n == [node[a] EXCEPT !.next = top]
<1>1. th[t].pc = "push" /\ a \in Addr /\ node[a] # Null /\ \A i \in DOMAIN path : path[i] # a
  BY <1>0 DEF PushCas, HandsOK, StackUser, Used
<1>2. /\ node' = [node EXCEPT ![a] = n]
      /\ UNCHANGED <<top, contents, th, pushed, broken>>
  <2>1. th' # [th EXCEPT ![t] = Idle]
    BY <1>0, <1>1, StackFacts DEF Idle
  <2> QED
    BY <2>1 DEF PushCas, Become
<1>3. n \in NodeType /\ n # Null
  BY <1>0, <1>1, StackFacts, StackAssumption DEF NodeType
<1> HIDE DEF n
<1>5. /\ \A b \in Addr : b # a => node'[b] = node[b]
      /\ node'[a] # Null /\ Used' = Used
  BY <1>0, <1>1, <1>2, <1>3, StackFacts DEF Used
<1>6. Chain(path)'
  BY <1>1, <1>2, <1>5 DEF Chain, Below
<1>7. \A u \in StackUser : th[u].pc \in {"look", "pop", "take"} => th[u].a \in Addr /\ th[u].a # a
  BY <1>0, <1>1 DEF HandsOK, InHand, StackUser, Used
<1>8. HandsOK(path)'
  BY <1>0, <1>2, <1>5, <1>7 DEF HandsOK, InHand, StackUser
<1> QED
  BY <1>0, <1>2, <1>5, <1>6, <1>8 DEF StackShape, InHand

\* A successful exchange of push puts the new node in front of the chain.
LEMMA PushDoneShape ==
  ASSUME StackShape, StackTypeOK', NEW t \in Pusher, PushCas(t), th' # th
  PROVE  /\ StackShape' /\ UNCHANGED <<node, pushed>> /\ th[t].pc = "push"
         /\ th' = [th EXCEPT ![t] = Idle] /\ Len(contents') = Len(contents) + 1
<1> PICK path \in [1 .. Len(contents) -> Addr] : Chain(path) /\ HandsOK(path)
  BY DEF StackShape
<1>0. StackTypeOK /\ ~broken /\ t \in StackUser
  BY DEF StackShape, StackUser
<1> DEFINE a == th[t].a
           v == node[a].value
           N == Len(contents)
<1>1. /\ th[t].pc = "push" /\ a \in Addr /\ a \in Used /\ node[a] # Null
      /\ \A i \in 1 .. N : path[i] # a
  BY <1>0 DEF PushCas, HandsOK, StackUser, Used
<1>2. /\ top = node[a].next /\ top' = a /\ contents' = <<v>> \o contents
      /\ th' = [th EXCEPT ![t] = Idle] /\ UNCHANGED <<node, pushed, broken>>
  BY DEF PushCas, Become
<1>3. /\ v \in Nat /\ node[a] \in NodeType /\ N \in Nat /\ contents \in Seq(Nat)
  BY <1>0, <1>1, StackFacts
<1>4. /\ contents' \in Seq(Nat) /\ Len(contents') = N + 1 /\ contents'[1] = v
      /\ \A i \in 1 .. N : contents'[i + 1] = contents[i]
  BY <1>2, <1>3, PutFirst
<1> PICK q \in [1 .. N + 1 -> Addr] :
      q = [i \in 1 .. N + 1 |-> IF i = 1 THEN a ELSE path[i - 1]]
  <2>1. \A i \in 1 .. N + 1 : i # 1 => i - 1 \in 1 .. N
    BY <1>3
  <2> QED
    BY <1>1, <2>1
<1>6. /\ q[1] = a
      /\ \A i \in 1 .. N : q[i + 1] = path[i]
      /\ \A i \in 2 .. N + 1 : i - 1 \in 1 .. N /\ q[i] = path[i - 1] /\ contents'[i] = contents[i - 1]
  <2>1. \A i \in 2 .. N + 1 : i - 1 \in 1 .. N /\ i = (i - 1) + 1
    BY <1>3
  <2> QED
    BY <1>1, <1>3, <1>4, <2>1, SMTT(30)
<1>7. Chain(q)'
  <2>1. top' = Below(q, 0)'
    BY <1>2, <1>3, <1>4, <1>6 DEF Below
  <2>2. node'[q[1]] = [value |-> contents'[1], next |-> Below(q, 1)']
    <3>1. Below(q, 1)' = Below(path, 0)
      BY <1>3, <1>4, <1>6 DEF Below
    <3>2. node[a] = [value |-> v, next |-> top]
      BY <1>2, <1>3 DEF NodeType
    <3> QED
      BY <1>2, <1>4, <1>6, <3>1, <3>2 DEF Chain
  <2>3. ASSUME NEW i \in 2 .. N + 1
        PROVE  node'[q[i]] = [value |-> contents'[i], next |-> Below(q, i)']
    <3>1. i - 1 \in DOMAIN path
      BY <1>6
    <3>2. Below(q, i)' = Below(path, i - 1)
      BY <1>3, <1>4, <1>6 DEF Below
    <3>3. node[path[i - 1]] = [value |-> contents[i - 1], next |-> Below(path, i - 1)]
      BY <3>1 DEF Chain
    <3> QED
      BY <1>2, <1>6, <3>2, <3>3
  <2>4. \A i, j \in 1 .. N + 1 : q[i] = q[j] => i = j
    <3>1. ASSUME NEW i \in 2 .. N + 1, NEW j \in 2 .. N + 1, q[i] = q[j]
          PROVE  i - 1 = j - 1
      <4>1. i - 1 \in DOMAIN path /\ j - 1 \in DOMAIN path /\ path[i - 1] = path[j - 1]
        BY <1>6, <3>1
      <4> QED
        BY <4>1 DEF Chain
    <3>2. \A i \in 2 .. N + 1 : q[i] # a
      BY <1>1, <1>6
    <3>3. \A i \in 1 .. N + 1 : i = 1 \/ i \in 2 .. N + 1
      BY <1>3
    <3>4. \A i, j \in 2 .. N + 1 : i - 1 = j - 1 => i = j
      OBVIOUS
    <3> QED
      BY <1>6, <3>1, <3>2, <3>3, <3>4
  <2>5. DOMAIN q = 1 .. N + 1 /\ \A i \in 1 .. N + 1 : i = 1 \/ i \in 2 .. N + 1
    BY <1>3, <1>6
  <2> QED
    BY <2>1, <2>2, <2>3, <2>4, <2>5 DEF Chain
<1>8. HandsOK(q)'
  <2>1. th'[t].pc = "idle" /\ \A u \in StackUser : u # t => th'[u] = th[u]
    BY <1>0, <1>2, StackFacts DEF Idle
  <2>2. InHand' \subseteq InHand /\ t \notin InHand' /\ t \in InHand
    BY <1>0, <1>1, <2>1 DEF InHand, StackUser
  <2>3. ASSUME NEW u \in StackUser, u # t, th[u].pc \in {"push", "take"}
        PROVE  \A i \in DOMAIN q : q[i] # th[u].a
    <3>1. th[u].a # a
      BY <1>0, <1>1, <2>3 DEF HandsOK, InHand, StackUser
    <3>2. \A i \in DOMAIN path : path[i] # th[u].a
      BY <2>3 DEF HandsOK, StackUser
    <3> QED
      BY <1>3, <1>6, <3>1, <3>2
  <2>4. ASSUME NEW u \in StackUser, NEW i \in DOMAIN path, path[i] = th[u].a
        PROVE  \E j \in DOMAIN q : q[j] = th[u].a
    <3>1. i \in 1 .. N /\ i + 1 \in 1 .. N + 1 /\ q[i + 1] = path[i]
      BY <1>3, <1>6
    <3> QED
      BY <2>4, <3>1
  <2> QED
    BY <1>0, <1>2, <2>1, <2>2, <2>3, <2>4 DEF HandsOK, InHand, StackUser, Used
<1> QED
  BY <1>0, <1>1, <1>2, <1>4, <1>6, <1>7, <1>8 DEF StackShape

\* The steps of pop and top() that read only: load the top, read the node
\* below it or its value, a failed exchange, and the return.
LEMMA PopReadsShape ==
  ASSUME StackShape, StackTypeOK', NEW t \in Popper,
         PopLoad(t) \/ TopLoad(t) \/ PopFront(t) \/ PopRetry(t) \/ TopRead(t) \/ PopReturn(t)
  PROVE  /\ StackShape' /\ UNCHANGED <<top, node, pushed, contents, broken>>
         /\ InHand' = InHand
<1> PICK path \in [1 .. Len(contents) -> Addr] : Chain(path) /\ HandsOK(path)
  BY DEF StackShape
<1>0. StackTypeOK /\ ~broken /\ t \in StackUser /\ t \in Popper /\ th[t] \in ThType
  BY StackFacts DEF StackShape, StackUser
<1>1. top # Null => top \in Addr /\ (\E i \in DOMAIN path : path[i] = top) /\ TopValue = node[top].value
  <2>1. Len(contents) \in Nat /\ contents \in Seq(Nat)
    BY <1>0, StackFacts
  <2>2. ASSUME top # Null
        PROVE  1 \in DOMAIN path /\ path[1] = top /\ contents # <<>>
    BY <2>1, <2>2 DEF Chain, Below
  <2>3. ASSUME top # Null
        PROVE  TopValue = node[top].value
    <3>1. node[path[1]].value = contents[1]
      BY <1>0, <2>2, <2>3, ChainUsed
    <3> QED
      BY <2>1, <2>2, <2>3, <3>1, HeadTailProperties DEF TopValue
  <2> QED
    BY <1>0, <2>2, <2>3, StackFacts
<1> DEFINE Reads(r) ==
      /\ r.pc \in {"idle", "look", "front", "pop", "popped"}
      /\ r.pc \in {"look", "front", "pop"} => \E i \in DOMAIN path : path[i] = r.a
      /\ r.pc = "pop" => r.front = node[r.a].next
      /\ r.pc = "look" => r.expect = node[r.a].value
      /\ r.pc = "popped" => r.value = r.expect
<1>2. /\ UNCHANGED <<top, node, pushed, contents, broken>>
      /\ th[t].pc \notin {"push", "take"}
      /\ \E r \in ThType : th' = [th EXCEPT ![t] = r] /\ Reads(r)
  <2>0. Idle \in ThType /\ Reads(Idle)
    BY ThreadTypes DEF Idle
  <2>1. CASE PopLoad(t) \/ TopLoad(t)
    <3>1. [Idle EXCEPT !.pc = "front", !.a = top, !.expect = TopValue] \in ThType
      BY <1>0, StackFacts, ThreadTypes
    <3>2. [Idle EXCEPT !.pc = "look", !.a = top, !.expect = TopValue] \in ThType
      BY <1>0, StackFacts, ThreadTypes
    <3>3. CASE top = Null
      BY <2>0, <2>1, <3>3 DEF PopLoad, TopLoad, Load, Become
    <3>4. CASE top # Null
      BY <1>1, <2>1, <3>1, <3>2, <3>4 DEF PopLoad, TopLoad, Load, Become, Idle
    <3> QED
      BY <3>3, <3>4
  <2>2. CASE PopFront(t)
    <3> DEFINE a == th[t].a
    <3>1. a \in Addr /\ (\E i \in DOMAIN path : path[i] = a) /\ node[a] # Null
      <4>1. \E i \in DOMAIN path : path[i] = a
        BY <1>0, <2>2 DEF PopFront, HandsOK, StackUser
      <4> QED
        BY <1>0, <4>1, ChainUsed
    <3>2. node[a].next \in Addr \cup {Null}
      BY <1>0, <3>1, StackFacts
    <3>3. [th[t] EXCEPT !.pc = "pop", !.front = node[a].next] \in ThType
      BY <1>0, <3>2, ThreadTypes
    <3> QED
      BY <1>0, <2>2, <3>1, <3>3 DEF PopFront, Become, ThType
  <2>3. CASE PopReturn(t)
    BY <2>0, <2>3 DEF PopReturn, Become
  <2>4. CASE PopRetry(t)
    <3>1. [Idle EXCEPT !.pc = "front", !.a = top] \in ThType
      BY <1>0, StackFacts, ThreadTypes
    <3>2. CASE top = Null
      BY <2>0, <2>4, <3>2 DEF PopRetry, Become
    <3>3. CASE top # Null
      BY <1>1, <2>4, <3>1, <3>3 DEF PopRetry, Become, Idle
    <3> QED
      BY <3>2, <3>3
  <2>5. CASE TopRead(t)
    <3> DEFINE a == th[t].a
    <3>1. a \in Addr /\ node[a] # Null /\ th[t].expect = node[a].value
      BY <1>0, <2>5, ChainUsed DEF TopRead, HandsOK, StackUser
    <3>2. node[a].value \in Nat
      BY <1>0, <3>1, StackFacts
    <3>3. [th[t] EXCEPT !.pc = "popped", !.value = node[a].value] \in ThType
      BY <1>0, <3>2, ThreadTypes
    <3> QED
      BY <1>0, <2>5, <3>1, <3>3 DEF TopRead, Become, ThType
  <2> QED
    BY <2>1, <2>2, <2>3, <2>4, <2>5
<1> PICK r \in ThType : th' = [th EXCEPT ![t] = r] /\ Reads(r)
  BY <1>2
<1>3. th'[t] = r /\ \A u \in StackUser : u # t => th'[u] = th[u]
  BY <1>0, StackFacts
<1>4. InHand' = InHand
  BY <1>2, <1>3 DEF InHand, StackUser
<1>5. Chain(path)' /\ Used' = Used
  BY <1>2 DEF Chain, Below, Used
<1>6. HandsOK(path)'
  BY <1>0, <1>2, <1>3, <1>4, <1>5 DEF HandsOK, InHand, StackUser
<1> QED
  BY <1>0, <1>2, <1>4, <1>5, <1>6 DEF StackShape

\* A successful exchange of pop takes the first node off the chain: it was on
\* the chain all the time, so that the node below it is still below it.  Who
\* looks at another node still finds it on the chain.
LEMMA PopDoneShape ==
  ASSUME StackShape, StackTypeOK', NEW t \in Popper, PopDone(t), ~undercut'
  PROVE  /\ StackShape' /\ UNCHANGED <<node, pushed>> /\ th[t].pc = "pop"
         /\ th'[t].pc = "take" /\ \A u \in StackUser : u # t => th'[u] = th[u]
         /\ Len(contents) > 0 /\ Len(contents') = Len(contents) - 1
<1> PICK path \in [1 .. Len(contents) -> Addr] : Chain(path) /\ HandsOK(path)
  BY DEF StackShape
<1>0. StackTypeOK /\ ~broken /\ t \in StackUser /\ th[t] \in ThType
  BY StackFacts DEF StackShape, StackUser
<1> DEFINE a == th[t].a
           r == [th[t] EXCEPT !.pc = "take", !.expect = TopValue]
           N == Len(contents)
<1>1. /\ th[t].pc = "pop" /\ top = a /\ top' = th[t].front /\ th' = [th EXCEPT ![t] = r]
      /\ contents' = IF contents = <<>> THEN <<>> ELSE Tail(contents)
      /\ UNCHANGED <<node, pushed, broken>> /\ Onlookers(t) = {}
  BY <1>0 DEF PopDone, Become, StackTypeOK
<1>2. /\ \E i \in DOMAIN path : path[i] = a
      /\ th[t].front = node[a].next
  BY <1>0, <1>1 DEF HandsOK, StackUser
<1>3. /\ N \in Nat /\ N > 0 /\ path[1] = a /\ a \in Addr /\ a \in Used
      /\ node[a].value = contents[1] /\ node[a].next = Below(path, 1)
  <2>1. N \in Nat /\ a \in Addr
    BY <1>0, <1>2, StackFacts
  <2>2. top # Null
    BY <1>1, <2>1, StackAssumption
  <2>3. N > 0 /\ path[1] = a
    BY <1>1, <2>1, <2>2 DEF Chain, Below
  <2> QED
    BY <1>0, <2>1, <2>3, ChainUsed
<1>4. /\ TopValue = contents[1] /\ contents[1] \in Nat
      /\ contents' \in Seq(Nat) /\ Len(contents') = N - 1
      /\ \A i \in 1 .. N - 1 : contents'[i] = contents[i + 1]
  <2>1. contents \in Seq(Nat) /\ contents # <<>>
    BY <1>0, <1>3, StackFacts
  <2> QED
    BY <1>1, <1>3, <2>1, HeadTailProperties DEF TopValue
<1>5. /\ r \in ThType /\ r.pc = "take" /\ r.a = a /\ r.expect = contents[1]
  <2>1. r \in ThType
    BY <1>0, <1>4, ThreadTypes
  <2> QED
    BY <1>0, <1>4, <2>1 DEF ThType
<1> HIDE DEF r
<1> PICK q \in [1 .. N - 1 -> Addr] : q = [i \in 1 .. N - 1 |-> path[i + 1]]
  <2>1. \A i \in 1 .. N - 1 : i + 1 \in 1 .. N
    BY <1>3
  <2> QED
    BY <2>1
<1>7. \A i \in 1 .. N - 1 : /\ i + 1 \in DOMAIN path /\ q[i] = path[i + 1] /\ q[i] # a
  <2>1. \A i \in 1 .. N - 1 : i + 1 \in 1 .. N /\ 1 \in 1 .. N /\ i + 1 # 1
    BY <1>3
  <2> QED
    BY <1>3, <2>1 DEF Chain
<1>8. Chain(q)'
  <2>1. top' = Below(q, 0)'
    <3>1. top' = Below(path, 1)
      BY <1>1, <1>2, <1>3
    <3>2. 0 < N - 1 => 1 \in 1 .. N - 1 /\ q[1] = path[2]
      <4>1. 0 < N - 1 => 1 \in 1 .. N - 1
        BY <1>3
      <4> QED
        BY <1>7, <4>1
    <3> QED
      BY <1>3, <1>4, <3>1, <3>2 DEF Below
  <2>2. ASSUME NEW i \in 1 .. N - 1
        PROVE  node'[q[i]] = [value |-> contents'[i], next |-> Below(q, i)']
    <3>1. Below(q, i)' = Below(path, i + 1)
      BY <1>3, <1>4, <1>7 DEF Below
    <3>2. node[path[i + 1]] = [value |-> contents[i + 1], next |-> Below(path, i + 1)]
      BY <1>7 DEF Chain
    <3> QED
      BY <1>1, <1>4, <1>7, <3>1, <3>2
  <2>3. \A i, j \in 1 .. N - 1 : q[i] = q[j] => i = j
    <3>1. \A i, j \in 1 .. N - 1 : q[i] = q[j] => i + 1 = j + 1
      BY <1>7 DEF Chain
    <3> QED
      BY <3>1
  <2> QED
    BY <2>1, <2>2, <2>3 DEF Chain
<1>9. HandsOK(q)'
  <2>1. th'[t] = r /\ \A u \in StackUser : u # t => th'[u] = th[u]
    BY <1>0, <1>1, StackFacts
  <2>2. ASSUME NEW u \in StackUser, u # t, th[u].pc \in {"push", "take"}
        PROVE  th[u].a # a /\ \A i \in DOMAIN q : q[i] # th[u].a
    BY <1>2, <1>7, <2>2 DEF HandsOK, StackUser
  <2>3. ASSUME NEW u \in StackUser, u # t, th[u].pc \in {"look", "front", "pop"}
        PROVE  \E j \in DOMAIN q : q[j] = th[u].a
    <3>1. u \in Popper /\ th[u].a # a
      BY <1>1, <2>3 DEF Onlookers, HandsOK, StackUser
    <3>2. PICK i \in DOMAIN path : path[i] = th[u].a
      BY <2>3 DEF HandsOK, StackUser
    <3>3. i \in 1 .. N /\ i # 1
      BY <1>3, <3>1, <3>2
    <3>4. i - 1 \in 1 .. N - 1 /\ (i - 1) + 1 = i
      BY <1>3, <3>3
    <3> QED
      BY <1>7, <3>2, <3>4
  <2>4. Used' = Used /\ node' = node
    BY <1>1 DEF Used
  <2>5. \A u, v \in InHand' : th'[u].a = th'[v].a => u = v
    <3>1. \A u \in InHand' : u = t \/ (u \in InHand /\ th'[u] = th[u] /\ th[u].a # a)
      BY <2>1, <2>2 DEF InHand, StackUser
    <3>2. th'[t].a = a
      BY <1>5, <2>1
    <3> QED
      BY <3>1, <3>2 DEF HandsOK
  <2>6. \A u \in StackUser :
          /\ th'[u].pc \in {"push", "take"} =>
                th'[u].a \in Used /\ \A i \in DOMAIN q : q[i] # th'[u].a
          /\ th'[u].pc \in {"look", "front", "pop"} => \E i \in DOMAIN q : q[i] = th'[u].a
          /\ th'[u].pc \in {"look", "front", "pop", "take"} => u \in Popper
          /\ th'[u].pc = "pop" => th'[u].front = node[th'[u].a].next
          /\ th'[u].pc \in {"look", "take"} => th'[u].expect = node[th'[u].a].value
          /\ th'[u].pc = "popped" => th'[u].value = th'[u].expect
    <3> TAKE u \in StackUser
    <3>1. CASE u = t
      BY <1>3, <1>5, <1>7, <2>1, <3>1
    <3>2. CASE u # t
      BY <2>1, <2>2, <2>3, <3>2 DEF HandsOK, StackUser
    <3> QED
      BY <3>1, <3>2
  <2> QED
    BY <2>4, <2>5, <2>6 DEF HandsOK, StackUser
<1>10. th'[t].pc = "take" /\ \A u \in StackUser : u # t => th'[u] = th[u]
  BY <1>0, <1>1, <1>5, StackFacts
<1>11. StackShape'
  BY <1>0, <1>1, <1>4, <1>8, <1>9 DEF StackShape
<1> QED
  BY <1>1, <1>3, <1>4, <1>10, <1>11

\* What was taken off is copied and deleted: it is on no chain any more.
LEMMA PopTakeShape ==
  ASSUME StackShape, StackTypeOK', NEW t \in Popper, PopTake(t)
  PROVE  /\ StackShape' /\ UNCHANGED contents /\ th[t].pc = "take"
         /\ th[t].a \in Used /\ Used' = Used \ {th[t].a} /\ InHand' = InHand \ {t}
<1> PICK path \in [1 .. Len(contents) -> Addr] : Chain(path) /\ HandsOK(path)
  BY DEF StackShape
<1>0. StackTypeOK /\ ~broken /\ t \in StackUser /\ t \in Popper /\ th[t] \in ThType
  BY StackFacts DEF StackShape, StackUser
<1> DEFINE a == th[t].a
           r == [th[t] EXCEPT !.pc = "popped", !.value = node[a].value]
<1>1. /\ th[t].pc = "take" /\ a \in Addr /\ a \in Used /\ node[a] # Null
      /\ th[t].expect = node[a].value
      /\ \A i \in DOMAIN path : path[i] # a
  BY <1>0 DEF PopTake, HandsOK, StackUser, Used
<1>2. /\ th' = [th EXCEPT ![t] = r] /\ node' = [node EXCEPT ![a] = Null]
      /\ UNCHANGED <<top, pushed, contents, broken>>
  BY DEF PopTake, Become
<1>3. r \in ThType /\ r.pc = "popped" /\ r.value = r.expect
  <2>1. node[a].value \in Nat
    BY <1>0, <1>1, StackFacts
  <2>2. r \in ThType
    BY <1>0, <2>1, ThreadTypes
  <2> QED
    BY <1>0, <1>1, <2>2 DEF ThType
<1> HIDE DEF r
<1>5. /\ th'[t] = r /\ \A u \in StackUser : u # t => th'[u] = th[u]
      /\ node'[a] = Null /\ \A b \in Addr : b # a => node'[b] = node[b]
  BY <1>0, <1>1, <1>2, StackFacts
<1>6. Used' = Used \ {a} /\ InHand' = InHand \ {t}
  BY <1>0, <1>1, <1>3, <1>5 DEF Used, InHand, StackUser
<1>7. Chain(path)'
  BY <1>1, <1>2, <1>5 DEF Chain, Below
<1>8. HandsOK(path)'
  <2>1. \A u \in StackUser : u # t /\ th[u].pc \in {"push", "take"} => th[u].a # a
    BY <1>0, <1>1 DEF HandsOK, InHand, StackUser
  <2>2. \A u \in StackUser : u # t /\ th[u].pc \in {"look", "front", "pop"} => th[u].a \in Addr /\ th[u].a # a
    BY <1>1 DEF HandsOK, StackUser
  <2>3. \A u \in StackUser : u # t /\ th[u].pc \in {"push", "take"} => th[u].a \in Addr
    BY DEF HandsOK, StackUser, Used
  <2> QED
    BY <1>0, <1>3, <1>5, <1>6, <2>1, <2>2, <2>3 DEF HandsOK, InHand, StackUser, Used
<1> QED
  BY <1>0, <1>1, <1>2, <1>6, <1>7, <1>8 DEF StackShape

\* Memory and threads are finite.
LEMMA StackFinite ==
  /\ IsFiniteSet(Used) /\ Cardinality(Used) \in Nat
  /\ IsFiniteSet(InHand) /\ Cardinality(InHand) \in Nat
BY StackAssumption, FS_Subset, FS_CardinalityType DEF Used, InHand

\* Every step takes as much memory as it puts on the stack or in hand.
LEMMA StackStep ==
  ASSUME StackShape, StackTypeOK', OwnedOnce, [StackNext]_stackVars, ~undercut'
  PROVE  StackShape' /\ OwnedOnce'
<1>0. StackTypeOK
  BY DEF StackShape
<1>1. CASE UNCHANGED stackVars
  <2> PICK path \in [1 .. Len(contents) -> Addr] : Chain(path) /\ HandsOK(path)
    BY DEF StackShape
  <2>1. StackTypeOK' /\ ~broken' /\ contents' = contents
    BY <1>1 DEF stackVars, StackShape
  <2>2. Chain(path)'
    BY <1>1 DEF stackVars, Chain, Below
  <2>3. InHand' = InHand /\ Used' = Used
    BY <1>1 DEF stackVars, InHand, Used
  <2>4. HandsOK(path)'
    BY <1>1, <2>3 DEF stackVars, HandsOK
  <2> QED
    BY <2>1, <2>2, <2>3, <2>4 DEF StackShape, OwnedOnce
<1>2. ASSUME NEW t \in Pusher, NEW a \in Addr, PushNew(t, a) PROVE StackShape' /\ OwnedOnce'
  <2>1. /\ Used' = Used \cup {a} /\ a \notin Used /\ t \notin InHand
        /\ InHand' = InHand \cup {t} /\ contents' = contents
    <3>1. /\ node[a] = Null /\ th[t].pc = "idle" /\ contents' = contents
          /\ node' = [node EXCEPT ![a] = [value |-> pushed + 1, next |-> top]]
          /\ th' = [th EXCEPT ![t] = [Idle EXCEPT !.pc = "push", !.a = a]]
      BY <1>2 DEF PushNew, Become
    <3>2. [value |-> pushed + 1, next |-> top] # Null
      BY <1>0, StackFacts, StackAssumption DEF NodeType
    <3>3. /\ t \in StackUser /\ th'[t].pc = "push"
          /\ \A u \in StackUser : u # t => th'[u] = th[u]
      BY <1>0, <3>1, StackFacts DEF StackUser, Idle
    <3>4. node'[a] # Null /\ \A b \in Addr : b # a => node'[b] = node[b]
      BY <1>0, <3>1, <3>2, StackFacts
    <3> QED
      BY <3>1, <3>3, <3>4 DEF Used, InHand, StackUser
  <2>2. Cardinality(Used') = Cardinality(Used) + 1 /\ Cardinality(InHand') = Cardinality(InHand) + 1
    BY <2>1, StackFinite, FS_AddElement
  <2> QED
    BY <1>0, <1>2, <2>1, <2>2, PushNewShape, StackFacts, StackFinite DEF OwnedOnce
<1>3. ASSUME NEW t \in Pusher, PushCas(t) PROVE StackShape' /\ OwnedOnce'
  <2>1. CASE UNCHANGED th
    <3>1. Used' = Used /\ InHand' = InHand /\ contents' = contents /\ StackShape'
      BY <1>3, <2>1, PushRetryShape
    <3> QED
      BY <3>1 DEF OwnedOnce
  <2>2. CASE th' # th
    <3>1. /\ StackShape' /\ UNCHANGED <<node, pushed>> /\ th[t].pc = "push"
          /\ th' = [th EXCEPT ![t] = Idle] /\ Len(contents') = Len(contents) + 1
      BY <1>3, <2>2, PushDoneShape
    <3>2. Used' = Used /\ t \in InHand /\ InHand' = InHand \ {t}
      BY <1>0, <3>1, StackFacts DEF Used, InHand, StackUser, Idle
    <3>3. Cardinality(InHand') = Cardinality(InHand) - 1
      BY <3>2, StackFinite, FS_RemoveElement
    <3> QED
      BY <1>0, <3>1, <3>2, <3>3, StackFacts, StackFinite DEF OwnedOnce
  <2> QED
    BY <2>1, <2>2
<1>4. ASSUME NEW t \in Popper,
             PopLoad(t) \/ TopLoad(t) \/ PopFront(t) \/ PopRetry(t) \/ TopRead(t) \/ PopReturn(t)
      PROVE  StackShape' /\ OwnedOnce'
  <2>1. StackShape' /\ UNCHANGED <<node, contents>> /\ InHand' = InHand
    BY <1>4, PopReadsShape
  <2>2. Used' = Used
    BY <2>1 DEF Used
  <2> QED
    BY <2>1, <2>2 DEF OwnedOnce
<1>5. ASSUME NEW t \in Popper, PopDone(t) PROVE StackShape' /\ OwnedOnce'
  <2>1. /\ StackShape' /\ UNCHANGED <<node, pushed>> /\ th[t].pc = "pop"
        /\ th'[t].pc = "take" /\ \A u \in StackUser : u # t => th'[u] = th[u]
        /\ Len(contents) > 0 /\ Len(contents') = Len(contents) - 1
    BY <1>5, PopDoneShape
  <2>2. Used' = Used /\ t \notin InHand /\ InHand' = InHand \cup {t}
    BY <2>1 DEF Used, InHand, StackUser
  <2>3. Cardinality(InHand') = Cardinality(InHand) + 1
    BY <2>2, StackFinite, FS_AddElement
  <2> QED
    BY <1>0, <2>1, <2>2, <2>3, StackFacts, StackFinite DEF OwnedOnce
<1>6. ASSUME NEW t \in Popper, PopTake(t) PROVE StackShape' /\ OwnedOnce'
  <2>1. /\ StackShape' /\ UNCHANGED contents /\ th[t].pc = "take"
        /\ th[t].a \in Used /\ Used' = Used \ {th[t].a} /\ InHand' = InHand \ {t}
    BY <1>6, PopTakeShape
  <2>2. t \in InHand
    BY <2>1 DEF InHand
  <2>3. Cardinality(Used') = Cardinality(Used) - 1 /\ Cardinality(InHand') = Cardinality(InHand) - 1
    BY <2>1, <2>2, StackFinite, FS_RemoveElement
  <2> QED
    BY <1>0, <2>1, <2>3, StackFacts, StackFinite DEF OwnedOnce
<1>7. ASSUME NEW t \in StackUser, UseFreedNode(t) PROVE FALSE
  <2> PICK path \in [1 .. Len(contents) -> Addr] : Chain(path) /\ HandsOK(path)
    BY DEF StackShape
  <2>1. \/ th[t].a \in Used
        \/ \E i \in DOMAIN path : path[i] = th[t].a
    BY <1>7 DEF UseFreedNode, HandsOK, StackUser
  <2>2. node[th[t].a] # Null
    BY <1>0, <2>1, ChainUsed DEF Used
  <2> QED
    BY <1>7, <2>2 DEF UseFreedNode
<1> QED
  BY <1>1, <1>2, <1>3, <1>4, <1>5, <1>6, <1>7 DEF StackNext, Pop, StackUser

\* An empty stack has the empty chain.
LEMMA StackStarts ==
  ASSUME StackInit
  PROVE  StackIInv
<1>1. contents = <<>> /\ Len(contents) = 0 /\ Used = {} /\ InHand = {}
  BY DEF StackInit, Used, InHand, Idle
<1>2. StackTypeOK
  <2>1. contents \in Seq(Nat)
    <3>1. <<>> \in Seq(Nat)
      OBVIOUS
    <3> QED
      BY <1>1, <3>1
  <2>2. th \in [StackUser -> ThType]
    BY ThreadTypes DEF StackInit, StackUser
  <2> QED
    BY <2>1, <2>2 DEF StackInit, StackTypeOK, ThType, ThPc, StackUser
<1>3. \E path \in [1 .. Len(contents) -> Addr] : TRUE
  <2>1. \A i \in 1 .. Len(contents) : FALSE
    BY <1>1
  <2>2. [i \in 1 .. Len(contents) |-> 0] \in [1 .. Len(contents) -> Addr]
    BY <2>1
  <2> QED
    BY <2>2
<1>4. \A path \in [1 .. Len(contents) -> Addr] : Chain(path) /\ HandsOK(path)
  BY <1>1 DEF StackInit, Chain, Below, HandsOK, Idle
<1>5. OwnedOnce
  BY <1>1, FS_EmptySet DEF OwnedOnce
<1>6. HasNode
  BY DEF StackInit, HasNode, Busy, Idle
<1> QED
  BY <1>2, <1>3, <1>4, <1>5, <1>6 DEF StackShape, StackIInv, StackInit

\* StackInv in every reachable state, for any number of pushing, popping and
\* asking threads, and any memory: until a pop takes off a node that another thread
\* looks at, the exchange of a pop finds the successor it has read still below the
\* node, although others push, pop and reuse memory meanwhile, and the memory in
\* use is what is on the stack or in a thread's hands.
THEOREM StackInvHolds == StackSpec => []StackInv
<1>1. StackInit => StackIInv
  BY StackStarts
<1>2. ASSUME StackIInv, [StackNext]_stackVars PROVE StackIInv'
  <2>1. StackTypeOK' /\ HasNode'
    BY <1>2, StackTypeNext DEF StackIInv
  <2>2. ~undercut' => ~undercut
    BY <1>2 DEF StackNext, stackVars, PushNew, PushCas, Pop, PopLoad, TopLoad, Load, PopFront,
                PopDone, PopRetry, PopTake, TopRead, PopReturn, UseFreedNode
  <2>3. ASSUME ~undercut' PROVE StackShape' /\ OwnedOnce'
    BY <1>2, <2>1, <2>2, <2>3, StackStep DEF StackIInv
  <2> QED
    BY <2>1, <2>3 DEF StackIInv
<1>3. ASSUME StackIInv PROVE StackInv
  <2>1. StackShape => ChainIsStack /\ ReturnsTop
    BY DEF StackShape, ChainIsStack, ReturnsTop, HandsOK
  <2> QED
    BY <1>3, <2>1 DEF StackIInv, StackInv
<1> QED
  BY <1>1, <1>2, <1>3, PTL DEF StackSpec

(***************************************************************************)
(* The log segments (Segment).                                             *)
(***************************************************************************)
\* fragments are in segments that were begun, and no lsn is past the tip
LsnInv ==
  /\ \A p \in Page : \A l \in held[p] : l > 0 /\ l <= tip
  /\ \A s \in Seg : seg[s].lsn <= tip

\* the books of one segment: what it counts and names agrees with the pages in
\* it, what it defers it has, the tip defers nothing and is active
BookInv(s) ==
  /\ seg[s].state \in {"inactive", "draining"} =>
        /\ seg[s].max - seg[s].replaced = Cardinality(Live(s))
        /\ seg[s].lsn < tip
  /\ seg[s].state \in {"active", "inactive"} => seg[s].pids \ seg[s].deferred = Live(s)
  /\ seg[s].state = "inactive" => seg[s].deferred = {}
  /\ seg[s].state = "draining" => Live(s) \subseteq cleaner[s]
  /\ seg[s].state = "active" =>
        /\ seg[s].deferred \subseteq seg[s].pids
        /\ seg[s].lsn = tip => seg[s].deferred = {}

\* the inductive invariant
SegIInv == SegTypeOK /\ LsnInv /\ \A s \in Seg : BookInv(s)

-------------------------------------------------------------------------------
\* With finitely many pages every set of pages can be counted.
LEMMA PagesFinite ==
  ASSUME IsFiniteSet(Page), NEW S \in SUBSET Page
  PROVE  IsFiniteSet(S) /\ Cardinality(S) \in Nat
BY FS_Subset, FS_CardinalityType

\* Segments that begin, free or active, have the shape of segments.
LEMMA FreshSegments ==
  ASSUME MaxLsn \in Nat, NEW l \in Lsn
  PROVE  FreeSegment(l) \in SegmentType /\ ActiveSegment(l) \in SegmentType
<1>1. 0 \in Lsn /\ {} \in SUBSET Page /\ {} \in SUBSET Lsn
  BY DEF Lsn
<1>2. FreeSegment(l) \in SegmentType
  BY <1>1 DEF SegmentType, FreeSegment
<1>3. ActiveSegment(l) \in SegmentType
  BY <1>2 DEF SegmentType, ActiveSegment
<1> QED
  BY <1>2, <1>3

\* Adding and removing a page gives a segment again.
LEMMA OperationsKeepType ==
  ASSUME NEW g \in SegmentType, NEW p \in Page, NEW l \in Lsn
  PROVE  InsertPid(g, p) \in SegmentType /\ RemovePid(g, p, l) \in SegmentType
<1>1. InsertPid(g, p) \in SegmentType
  BY DEF SegmentType, InsertPid
<1>2. Later(g.latest, l) \in Lsn
  BY DEF SegmentType, Later
<1>3. g.replaced + 1 \in Nat /\ g.pids \ {p} \in SUBSET Page
  BY DEF SegmentType
<1>4. ActiveRemove(g, p, l) \in SegmentType
  BY <1>2 DEF SegmentType, ActiveRemove
<1>5. InactiveRemove(g, p, l) \in SegmentType
  BY <1>2, <1>3 DEF SegmentType, InactiveRemove
<1>6. DrainingRemove(g, l) \in SegmentType
  BY <1>2, <1>3 DEF SegmentType, DrainingRemove
<1> QED
  BY <1>1, <1>4, <1>5, <1>6 DEF RemovePid

\* What remove_pid does to the fields that the counts depend on.
LEMMA RemoveFields ==
  ASSUME NEW g \in SegmentType, NEW p \in Page, NEW l \in Lsn, l # g.lsn
  PROVE  LET r == RemovePid(g, p, l) IN
         /\ r.state = g.state /\ r.lsn = g.lsn /\ r.max = g.max
         /\ g.state = "active" => r.pids = g.pids /\ r.deferred = g.deferred \cup {p}
         /\ g.state = "inactive" =>
               /\ r.pids = g.pids \ {p} /\ r.deferred = g.deferred
               /\ p \in g.pids => r.replaced = g.replaced + 1
         /\ g.state = "draining" =>
               r.pids = g.pids /\ r.deferred = g.deferred /\ r.replaced = g.replaced + 1
BY DEF RemovePid, ActiveRemove, InactiveRemove, DrainingRemove, SegmentType

\* A page replaced by a write to its own segment changes no count.
LEMMA RemoveAtTip ==
  ASSUME NEW g \in SegmentType, NEW p \in Page, g.state = "active"
  PROVE  LET r == RemovePid(g, p, g.lsn) IN
         /\ r.state = "active" /\ r.lsn = g.lsn
         /\ r.pids = g.pids /\ r.deferred = g.deferred
BY DEF RemovePid, ActiveRemove, SegmentType

\* One page less in a set of pages is one less to count.
LEMMA OneLess ==
  ASSUME IsFiniteSet(Page), NEW S \in SUBSET Page, NEW p \in S
  PROVE  Cardinality(S \ {p}) = Cardinality(S) - 1
BY PagesFinite, FS_RemoveElement

\* What is left of a set of pages after a part of it can be counted.
LEMMA Without ==
  ASSUME IsFiniteSet(Page), NEW S \in SUBSET Page, NEW D \in SUBSET S
  PROVE  Cardinality(S \ D) = Cardinality(S) - Cardinality(D)
<1>1. IsFiniteSet(S) /\ IsFiniteSet(D) /\ IsFiniteSet(S \ D)
  BY PagesFinite, FS_Subset
<1>2. Cardinality(S \cap D) = Cardinality(D)
  <2>1. S \cap D = D
    OBVIOUS
  <2> QED
    BY <2>1
<1>3. Cardinality(S \ D) = Cardinality(S) - Cardinality(S \cap D)
  BY <1>1, FS_Difference
<1> QED
  BY <1>2, <1>3

-------------------------------------------------------------------------------
(***************************************************************************)
(* The steps.                                                              *)
(***************************************************************************)
\* A segment whose books no step touches keeps them.
LEMMA Untouched ==
  ASSUME NEW s \in Seg, BookInv(s), tip' = tip,
         seg'[s] = seg[s] \/ \E u : seg'[s] = [seg[s] EXCEPT !.upon = u],
         seg[s] \in SegmentType,
         Live(s)' = Live(s), cleaner'[s] = cleaner[s]
  PROVE  BookInv(s)'
<1>1. LET f == seg'[s] IN
      /\ f.state = seg[s].state /\ f.lsn = seg[s].lsn /\ f.pids = seg[s].pids
      /\ f.deferred = seg[s].deferred /\ f.max = seg[s].max /\ f.replaced = seg[s].replaced
  BY DEF SegmentType
<1> QED
  BY <1>1 DEF BookInv

\* Taking a segment into use keeps the invariant.
LEMMA FreeToActiveStep ==
  ASSUME IsFiniteSet(Page), MaxLsn \in Nat, SegIInv, NEW s \in Seg, FreeToActive(s)
  PROVE  SegIInv'
<1> USE DEF SegIInv, SegTypeOK, FreeToActive
<1>1. tip + 1 \in Lsn /\ tip \in Nat /\ tip' = tip + 1
  BY DEF Lsn
<1>2. ActiveSegment(tip + 1) \in SegmentType
  BY <1>1, FreshSegments
<1>3. /\ seg' \in [Seg -> SegmentType]
      /\ seg'[s] = ActiveSegment(tip + 1)
      /\ \A u \in Seg \ {s} : seg'[u] = seg[u]
  BY <1>2
<1>4. /\ seg'[s].state = "active" /\ seg'[s].lsn = tip + 1
      /\ seg'[s].pids = {} /\ seg'[s].deferred = {}
  BY <1>3 DEF ActiveSegment, FreeSegment
<1>5. LsnInv'
  BY <1>1, <1>3, <1>4 DEF LsnInv, Lsn, SegmentType
<1>6. SegTypeOK'
  <2>1. \A u, v \in Seg : seg'[u].lsn = seg'[v].lsn => u = v \/ seg'[u].lsn = 0
    BY <1>1, <1>3, <1>4 DEF LsnInv, SegmentType, Lsn
  <2>2. reusable' \subseteq {u \in Seg : seg'[u].state = "free"}
    BY <1>3
  <2> QED
    BY <1>1, <1>3, <2>1, <2>2
<1>7. BookInv(s)'
  <2>1. Live(s)' = {}
    BY <1>1, <1>4 DEF Live, LsnInv, Lsn
  <2> QED
    BY <1>4, <2>1 DEF BookInv
<1>8. ASSUME NEW u \in Seg \ {s} PROVE BookInv(u)'
  <2>1. Live(u)' = Live(u)
    BY <1>3 DEF Live
  <2>2. seg[u].lsn <= tip /\ seg[u].lsn \in Nat
    BY DEF LsnInv, SegmentType, Lsn
  <2> QED
    BY <1>1, <1>3, <2>1, <2>2 DEF BookInv
<1> QED
  BY <1>5, <1>6, <1>7, <1>8

\* Only an active segment is the tip, and it holds what is written next.
LEMMA TipIsActive ==
  ASSUME SegIInv, NEW s \in Seg, IsTip(s)
  PROVE  seg[s].state = "active" /\ seg[s].lsn = tip /\ seg[s].deferred = {}
BY DEF SegIInv, SegTypeOK, SegmentType, BookInv, IsTip, InUse, Lsn

\* Linking a page keeps it.
LEMMA LinkStep ==
  ASSUME IsFiniteSet(Page), MaxLsn \in Nat, SegIInv, NEW p \in Page, Link(p)
  PROVE  SegIInv'
<1> USE DEF SegIInv, SegTypeOK, Link, WrittenTo
<1>1. tip \in Lsn /\ tip \in Nat /\ tip > 0 /\ tip' = tip
  BY DEF Lsn
<1>2. held' \in [Page -> SUBSET Lsn] /\ held' = [held EXCEPT ![p] = held[p] \cup {tip}]
  BY <1>1
<1>3. ASSUME NEW s \in Seg
      PROVE  /\ seg'[s] = IF IsTip(s) THEN InsertPid(seg[s], p) ELSE seg[s]
             /\ InsertPid(seg[s], p) \in SegmentType
             /\ seg'[s].state = seg[s].state /\ seg'[s].lsn = seg[s].lsn
  <2>1. InsertPid(seg[s], p) \in SegmentType
    BY <1>1, OperationsKeepType
  <2>2. InsertPid(seg[s], p).state = seg[s].state /\ InsertPid(seg[s], p).lsn = seg[s].lsn
    BY DEF InsertPid, SegmentType
  <2> QED
    BY <2>1, <2>2
<1>4. SegTypeOK'
  <2>1. seg' \in [Seg -> SegmentType]
    BY <1>3
  <2> QED
    BY <1>1, <1>2, <1>3, <2>1
<1>5. LsnInv'
  BY <1>1, <1>2, <1>3 DEF LsnInv
<1>6. ASSUME NEW s \in Seg, IsTip(s) PROVE BookInv(s)'
  <2>1. seg[s].state = "active" /\ seg[s].lsn = tip /\ seg[s].deferred = {}
    BY <1>6, TipIsActive
  <2>2. seg'[s].pids = seg[s].pids \cup {p} /\ seg'[s].deferred = {}
    BY <1>3, <1>6, <2>1 DEF InsertPid, SegmentType
  <2>3. Live(s)' = Live(s) \cup {p}
    BY <1>2, <1>3, <2>1 DEF Live
  <2> QED
    BY <1>1, <1>3, <2>1, <2>2, <2>3 DEF BookInv
<1>7. ASSUME NEW s \in Seg, ~IsTip(s) PROVE BookInv(s)'
  <2>1. CASE seg[s].state = "free"
    BY <1>3, <1>7, <2>1 DEF BookInv
  <2>2. CASE seg[s].state # "free"
    <3>1. seg[s].lsn # tip
      BY <1>7, <2>2 DEF IsTip, InUse
    <3>2. Live(s)' = Live(s)
      BY <1>2, <1>3, <3>1 DEF Live
    <3> QED
      BY <1>1, <1>3, <1>7, <3>2, Untouched
  <2> QED
    BY <2>1, <2>2
<1> QED
  BY <1>4, <1>5, <1>6, <1>7

\* Replacing a page keeps it.
LEMMA ReplacedStep ==
  ASSUME IsFiniteSet(Page), MaxLsn \in Nat, SegIInv, NEW p \in Page, Replaced(p),
         cleaner' \in [Seg -> SUBSET Page],
         \A s \in Seg : cleaner[s] \ {p} \subseteq cleaner'[s]
  PROVE  SegIInv'
<1> USE DEF SegIInv, SegTypeOK, Replaced, WrittenTo
<1> DEFINE Old(s) == InUse(s) /\ seg[s].lsn \in held[p]
           G(s) == IF Old(s) THEN RemovePid(seg[s], p, tip) ELSE seg[s]
<1>1. tip \in Lsn /\ tip \in Nat /\ tip > 0 /\ tip' = tip
  BY DEF Lsn
<1>2. held' \in [Page -> SUBSET Lsn] /\ held' = [held EXCEPT ![p] = {tip}]
  BY <1>1
<1>3. ASSUME NEW s \in Seg
      PROVE  /\ seg'[s] = IF IsTip(s) THEN InsertPid(G(s), p) ELSE G(s)
             /\ G(s) \in SegmentType
             /\ G(s).state = seg[s].state /\ G(s).lsn = seg[s].lsn
  <2>1. RemovePid(seg[s], p, tip) \in SegmentType
    BY <1>1, OperationsKeepType
  <2>2. RemovePid(seg[s], p, tip).state = seg[s].state /\ RemovePid(seg[s], p, tip).lsn = seg[s].lsn
    BY DEF RemovePid, ActiveRemove, InactiveRemove, DrainingRemove, SegmentType
  <2> QED
    BY <2>1, <2>2
<1>4. ASSUME NEW s \in Seg
      PROVE  /\ InsertPid(G(s), p) \in SegmentType
             /\ seg'[s] \in SegmentType
             /\ seg'[s].state = seg[s].state /\ seg'[s].lsn = seg[s].lsn
  <2>1. InsertPid(G(s), p) \in SegmentType
    BY <1>1, <1>3, OperationsKeepType
  <2>2. InsertPid(G(s), p).state = G(s).state /\ InsertPid(G(s), p).lsn = G(s).lsn
    BY <1>3 DEF InsertPid, SegmentType
  <2> QED
    BY <1>3, <2>1, <2>2
<1> HIDE DEF G, Old
<1>5. SegTypeOK'
  <2>1. seg' \in [Seg -> SegmentType]
    BY <1>4
  <2>2. reusable' = reusable /\ reusable' \subseteq {s \in Seg : seg'[s].state = "free"}
    BY <1>4
  <2>3. \A s, t \in Seg : seg'[s].lsn = seg'[t].lsn => s = t \/ seg'[s].lsn = 0
    BY <1>4
  <2> QED
    BY <1>1, <1>2, <2>1, <2>2, <2>3
<1>6. LsnInv'
  BY <1>1, <1>2, <1>4 DEF LsnInv
<1>7. ASSUME NEW s \in Seg, IsTip(s) PROVE BookInv(s)'
  <2>1. seg[s].state = "active" /\ seg[s].lsn = tip /\ seg[s].deferred = {}
    BY <1>7, TipIsActive
  <2>2. G(s).pids = seg[s].pids /\ G(s).deferred = {}
    BY <2>1, RemoveAtTip DEF G
  <2>3. seg'[s].pids = seg[s].pids \cup {p} /\ seg'[s].deferred = {}
    <3>1. seg'[s] = InsertPid(G(s), p) /\ G(s) \in SegmentType
      BY <1>3, <1>7
    <3>2. InsertPid(G(s), p).pids = G(s).pids \cup {p} /\ InsertPid(G(s), p).deferred = G(s).deferred
      BY <3>1 DEF InsertPid, SegmentType
    <3> QED
      BY <2>2, <3>1, <3>2
  <2>4. Live(s)' = Live(s) \cup {p}
    BY <1>2, <1>4, <2>1 DEF Live
  <2> QED
    BY <1>1, <1>4, <2>1, <2>3, <2>4 DEF BookInv
<1>8. ASSUME NEW s \in Seg, ~IsTip(s), InUse(s) PROVE BookInv(s)'
  <2>1. seg[s].lsn # tip /\ seg'[s] = G(s)
    BY <1>3, <1>8 DEF IsTip
  <2>2. Live(s)' = Live(s) \ {p}
    BY <1>2, <1>4, <2>1 DEF Live
  <2>3. Live(s) \in SUBSET Page
    BY DEF Live
  <2>4. CASE ~Old(s)
    <3>1. p \notin Live(s) /\ seg'[s] = seg[s]
      BY <1>8, <2>1, <2>4 DEF G, Old, Live
    <3>2. Live(s)' = Live(s)
      BY <2>2, <3>1
    <3>3. Live(s) \subseteq cleaner[s] => Live(s) \subseteq cleaner'[s]
      BY <3>1
    <3> QED
      BY <1>1, <3>1, <3>2, <3>3 DEF BookInv
  <2>5. CASE Old(s)
    <3>1. p \in Live(s) /\ seg'[s] = RemovePid(seg[s], p, tip)
      BY <2>1, <2>5 DEF G, Old, Live
    <3>2. Cardinality(Live(s) \ {p}) = Cardinality(Live(s)) - 1 /\ Cardinality(Live(s)) \in Nat
      BY <2>3, <3>1, OneLess, PagesFinite
    <3>6. BookInv(s) /\ seg'[s].state = seg[s].state /\ seg'[s].lsn = seg[s].lsn
      BY <1>4
    <3>7. seg[s].max \in Nat /\ seg[s].replaced \in Nat
      BY DEF SegmentType
    <3>3. CASE seg[s].state = "active"
      BY <1>1, <1>4, <2>1, <2>2, <3>1, <3>3, RemoveFields DEF BookInv
    <3>4. CASE seg[s].state = "inactive"
      <4>1. /\ seg'[s].pids = seg[s].pids \ {p} /\ seg'[s].deferred = seg[s].deferred
            /\ seg'[s].max = seg[s].max /\ seg'[s].replaced = seg[s].replaced + 1
        BY <1>1, <2>1, <3>1, <3>4, RemoveFields DEF BookInv
      <4>2. seg'[s].max - seg'[s].replaced = Cardinality(Live(s)')
        <5>1. seg[s].max - seg[s].replaced = Cardinality(Live(s))
          BY <3>4, <3>6 DEF BookInv
        <5>2. Cardinality(Live(s)') = Cardinality(Live(s)) - 1
          BY <2>2, <3>2
        <5> HIDE DEF SegIInv, SegTypeOK, Replaced, WrittenTo
        <5> QED
          BY <3>2, <3>7, <4>1, <5>1, <5>2
      <4>3. seg'[s].pids \ seg'[s].deferred = Live(s)' /\ seg'[s].deferred = {}
        BY <2>2, <3>4, <3>6, <4>1 DEF BookInv
      <4>4. seg[s].lsn < tip
        BY <3>4, <3>6 DEF BookInv
      <4> QED
        BY <1>1, <3>4, <3>6, <4>2, <4>3, <4>4 DEF BookInv
    <3>5. CASE seg[s].state = "draining"
      <4>1. seg'[s].max = seg[s].max /\ seg'[s].replaced = seg[s].replaced + 1
        BY <1>1, <2>1, <3>1, <3>5, RemoveFields
      <4>2. seg'[s].max - seg'[s].replaced = Cardinality(Live(s)')
        <5>1. seg[s].max - seg[s].replaced = Cardinality(Live(s))
          BY <3>5, <3>6 DEF BookInv
        <5>2. Cardinality(Live(s)') = Cardinality(Live(s)) - 1
          BY <2>2, <3>2
        <5> HIDE DEF SegIInv, SegTypeOK, Replaced, WrittenTo
        <5> QED
          BY <3>2, <3>7, <4>1, <5>1, <5>2
      <4>3. Live(s)' \subseteq cleaner'[s]
        BY <2>2, <3>5, <3>6 DEF BookInv
      <4>4. seg[s].lsn < tip
        BY <3>5, <3>6 DEF BookInv
      <4> QED
        BY <1>1, <3>5, <3>6, <4>2, <4>3, <4>4 DEF BookInv
    <3> QED
      BY <1>8, <3>3, <3>4, <3>5 DEF InUse, SegmentType
  <2> QED
    BY <2>4, <2>5
<1>9. ASSUME NEW s \in Seg, ~InUse(s) PROVE BookInv(s)'
  BY <1>4, <1>9 DEF BookInv, InUse
<1> QED
  BY <1>5, <1>6, <1>7, <1>8, <1>9
\* Deferred pages are counted when the segment becomes inactive.
LEMMA DeactivateStep ==
  ASSUME IsFiniteSet(Page), MaxLsn \in Nat, SegIInv, NEW s \in Seg, Deactivate(s)
  PROVE  SegIInv'
<1> USE DEF SegIInv, SegTypeOK, Deactivate
<1>1. ActiveToInactive(seg[s]) \in SegmentType
  <2>1. Cardinality(seg[s].pids) \in Nat /\ Cardinality(seg[s].deferred) \in Nat
    BY PagesFinite DEF SegmentType
  <2> QED
    BY <2>1 DEF SegmentType, ActiveToInactive
<1>2. /\ seg' \in [Seg -> SegmentType]
      /\ seg'[s] = ActiveToInactive(seg[s])
      /\ \A u \in Seg \ {s} : seg'[u] = seg[u]
  BY <1>1
<1>3. LET f == seg'[s] IN
      /\ f.state = "inactive" /\ f.lsn = seg[s].lsn /\ f.deferred = {}
      /\ f.pids = seg[s].pids \ seg[s].deferred
      /\ f.max = Cardinality(seg[s].pids) /\ f.replaced = Cardinality(seg[s].deferred)
  BY <1>2 DEF ActiveToInactive, SegmentType
<1>4. tip' = tip /\ held' = held /\ cleaner' = cleaner
  OBVIOUS
<1>5. LsnInv'
  BY <1>2, <1>3, <1>4 DEF LsnInv
<1>6. SegTypeOK'
  <2>1. \A u, v \in Seg : seg'[u].lsn = seg'[v].lsn => u = v \/ seg'[u].lsn = 0
    BY <1>2, <1>3
  <2>2. reusable' \subseteq {u \in Seg : seg'[u].state = "free"}
    BY <1>2, <1>3
  <2> QED
    BY <1>2, <1>4, <2>1, <2>2
<1>7. BookInv(s)'
  <2>1. Live(s)' = Live(s)
    BY <1>3, <1>4 DEF Live
  <2>2. seg[s].deferred \subseteq seg[s].pids /\ seg[s].pids \ seg[s].deferred = Live(s)
    BY DEF BookInv
  <2>3. seg[s].pids \in SUBSET Page
    BY DEF SegmentType
  <2>4. Cardinality(Live(s)) = Cardinality(seg[s].pids) - Cardinality(seg[s].deferred)
    BY <2>2, <2>3, Without
  <2> QED
    BY <1>3, <1>4, <2>1, <2>2, <2>4 DEF BookInv
<1>8. ASSUME NEW u \in Seg \ {s} PROVE BookInv(u)'
  <2>1. Live(u)' = Live(u)
    BY <1>2, <1>4 DEF Live
  <2> QED
    BY <1>2, <1>4, <2>1, Untouched
<1> QED
  BY <1>5, <1>6, <1>7, <1>8

\* The cleaner is given all the pages a segment still has.
LEMMA DrainStep ==
  ASSUME IsFiniteSet(Page), MaxLsn \in Nat, SegIInv, NEW s \in Seg, Drain(s)
  PROVE  SegIInv'
<1> USE DEF SegIInv, SegTypeOK, Drain
<1>1. /\ seg' \in [Seg -> SegmentType]
      /\ seg'[s] = InactiveToDraining(seg[s])
      /\ \A u \in Seg \ {s} : seg'[u] = seg[u]
  BY ZenonT(30) DEF SegmentType, InactiveToDraining
<1>2. LET f == seg'[s] IN
      /\ f.state = "draining" /\ f.lsn = seg[s].lsn
      /\ f.max = seg[s].max /\ f.replaced = seg[s].replaced
  BY <1>1 DEF InactiveToDraining, SegmentType
<1>3. /\ cleaner' \in [Seg -> SUBSET Page]
      /\ cleaner'[s] = seg[s].pids
      /\ \A u \in Seg \ {s} : cleaner'[u] = cleaner[u]
  BY DEF SegmentType
<1>4. tip' = tip /\ held' = held
  OBVIOUS
<1>5. LsnInv'
  BY <1>1, <1>2, <1>4 DEF LsnInv
<1>6. SegTypeOK'
  <2>1. \A u, v \in Seg : seg'[u].lsn = seg'[v].lsn => u = v \/ seg'[u].lsn = 0
    BY <1>1, <1>2
  <2>2. reusable' \subseteq {u \in Seg : seg'[u].state = "free"}
    BY <1>1, <1>2
  <2> QED
    BY <1>1, <1>3, <1>4, <2>1, <2>2
<1>7. BookInv(s)'
  <2>1. Live(s)' = Live(s)
    BY <1>2, <1>4 DEF Live
  <2>2. Live(s) \subseteq seg[s].pids
    BY DEF BookInv
  <2> QED
    BY <1>2, <1>3, <1>4, <2>1, <2>2 DEF BookInv
<1>8. ASSUME NEW u \in Seg \ {s} PROVE BookInv(u)'
  <2>1. Live(u)' = Live(u)
    BY <1>1, <1>4 DEF Live
  <2> QED
    BY <1>1, <1>3, <1>4, <2>1, Untouched
<1> QED
  BY <1>5, <1>6, <1>7, <1>8

\* Freeing a segment keeps it.
LEMMA FreeStep ==
  ASSUME IsFiniteSet(Page), MaxLsn \in Nat, SegIInv, NEW s \in Seg, Free(s)
  PROVE  SegIInv'
<1> USE DEF SegIInv, SegTypeOK, Free
<1>1. /\ seg'[s] = DrainingToFree(seg[s])
      /\ \A u \in Seg \ {s} :
            seg'[u] = seg[u] \/ seg'[u] = [seg[u] EXCEPT !.upon = @ \cup {seg[s].lsn}]
  OBVIOUS
<1>2. /\ seg'[s] \in SegmentType
      /\ seg'[s].state = "free" /\ seg'[s].lsn = seg[s].lsn
  <2>1. seg[s].lsn \in Lsn
    BY DEF SegmentType
  <2> QED
    BY <1>1, <2>1, FreshSegments DEF DrainingToFree, FreeSegment
<1>3. ASSUME NEW u \in Seg \ {s}
      PROVE  /\ seg'[u] \in SegmentType
             /\ seg'[u].state = seg[u].state /\ seg'[u].lsn = seg[u].lsn
  <2> DEFINE f == [seg[u] EXCEPT !.upon = @ \cup {seg[s].lsn}]
  <2>1. seg[u] \in SegmentType /\ seg[s].lsn \in Lsn
    BY DEF SegmentType
  <2>2. f \in SegmentType /\ f.state = seg[u].state /\ f.lsn = seg[u].lsn
    BY <2>1 DEF SegmentType
  <2> QED
    BY <1>1, <2>1, <2>2
<1>4. seg' \in [Seg -> SegmentType]
  BY <1>2, <1>3
<1>5. tip' = tip /\ held' = held /\ cleaner' \in [Seg -> SUBSET Page]
  OBVIOUS
<1>6. LsnInv'
  BY <1>2, <1>3, <1>5 DEF LsnInv
<1>7. SegTypeOK'
  <2>1. \A u, v \in Seg : seg'[u].lsn = seg'[v].lsn => u = v \/ seg'[u].lsn = 0
    BY <1>2, <1>3
  <2>2. reusable' \subseteq {u \in Seg : seg'[u].state = "free"}
    BY <1>2, <1>3
  <2> QED
    BY <1>4, <1>5, <2>1, <2>2
<1>8. BookInv(s)'
  BY <1>2 DEF BookInv
<1>9. ASSUME NEW u \in Seg \ {s} PROVE BookInv(u)'
  <2>1. Live(u)' = Live(u)
    BY <1>3, <1>5 DEF Live
  <2>2. cleaner'[u] = cleaner[u]
    OBVIOUS
  <2> QED
    BY <1>1, <1>5, <2>1, <2>2, Untouched
<1> QED
  BY <1>6, <1>7, <1>8, <1>9

\* A segment that is free satisfies the invariant.
LEMMA InitSegIInv ==
  ASSUME IsFiniteSet(Page), MaxLsn \in Nat, SegInit
  PROVE  SegIInv
<1> USE DEF SegInit
<1>1. 0 \in Lsn
  BY DEF Lsn
<1>2. \A s \in Seg : seg[s] = FreeSegment(0) /\ FreeSegment(0) \in SegmentType
  BY <1>1, FreshSegments
<1>3. \A s \in Seg : seg[s].state = "free" /\ seg[s].lsn = 0
  BY <1>2 DEF FreeSegment
<1>4. SegTypeOK
  <2>1. seg \in [Seg -> SegmentType]
    BY <1>2
  <2> QED
    BY <1>1, <1>3, <2>1 DEF SegTypeOK
<1>5. LsnInv
  BY <1>3 DEF LsnInv
<1>6. \A s \in Seg : BookInv(s)
  BY <1>3 DEF BookInv
<1> QED
  BY <1>4, <1>5, <1>6 DEF SegIInv

\* Every operation keeps it.
LEMMA StepSegIInv ==
  ASSUME IsFiniteSet(Page), MaxLsn \in Nat, SegIInv, [SegNext]_segVars
  PROVE  SegIInv'
<1>1. CASE UNCHANGED segVars
  BY <1>1 DEF segVars, SegIInv, SegTypeOK, LsnInv, BookInv, Live
<1>2. ASSUME NEW s \in Seg, FreeToActive(s) PROVE SegIInv'
  BY <1>2, FreeToActiveStep
<1>3. ASSUME NEW s \in Seg, Deactivate(s) PROVE SegIInv'
  BY <1>3, DeactivateStep
<1>4. ASSUME NEW s \in Seg, Drain(s) PROVE SegIInv'
  BY <1>4, DrainStep
<1>5. ASSUME NEW s \in Seg, Free(s) PROVE SegIInv'
  BY <1>5, FreeStep
<1>6. ASSUME NEW s \in Seg, NEW p \in Page, Clean(s, p) PROVE SegIInv'
  <2>1. cleaner' = [cleaner EXCEPT ![s] = @ \ {p}] /\ Replaced(p)
    BY <1>6 DEF Clean
  <2>2. cleaner' \in [Seg -> SUBSET Page] /\ \A u \in Seg : cleaner[u] \ {p} \subseteq cleaner'[u]
    BY <2>1 DEF SegIInv, SegTypeOK
  <2> QED
    BY <2>1, <2>2, ReplacedStep
<1>7. ASSUME NEW p \in Page, Link(p) PROVE SegIInv'
  BY <1>7, LinkStep
<1>8. ASSUME NEW p \in Page, Replace(p) PROVE SegIInv'
  <2>1. Replaced(p) /\ cleaner' = cleaner
    BY <1>8 DEF Replace
  <2>2. cleaner' \in [Seg -> SUBSET Page] /\ \A u \in Seg : cleaner[u] \ {p} \subseteq cleaner'[u]
    BY <2>1 DEF SegIInv, SegTypeOK
  <2> QED
    BY <2>1, <2>2, ReplacedStep
<1> QED
  BY <1>1, <1>2, <1>3, <1>4, <1>5, <1>6, <1>7, <1>8 DEF SegNext

\* For every number of places and pages: what a segment has counted as replaced
\* is exact, from the names it deferred while it was active to the bare count
\* of a draining segment, so can_free is true when and only when no page is
\* left in it, and the cleaner has been given whatever is left.
THEOREM SegmentInvHolds ==
  ASSUME IsFiniteSet(Page), MaxLsn \in Nat
  PROVE  SegSpec => []SegmentInv
<1>1. SegInit => SegIInv
  BY InitSegIInv
<1>2. SegIInv /\ [SegNext]_segVars => SegIInv'
  BY StepSegIInv
<1>3. SegIInv => SegmentInv
  BY DEF SegIInv, BookInv, SegmentInv, CanFreeExact, PidsAreLive, CleanerKnowsAll
<1> QED
  BY <1>1, <1>2, <1>3, PTL DEF SegSpec

(***************************************************************************)
(* Where the newest state on disk of a page lies is not reused.            *)
(***************************************************************************)
Active(s) == seg[s].state = "active"

\* The segments being written or waiting for the disk have the lsns up to the
\* tip, which is one of them; nothing was replaced by a write past the tip.
TipInv ==
  /\ tip > 0 => \E s \in Seg : IsTip(s)
  /\ \A a \in Seg : Active(a) =>
        \A l \in Lsn : seg[a].lsn <= l /\ l <= tip => \E b \in Seg : Active(b) /\ seg[b].lsn = l
  /\ \A s \in Seg : (InUse(s) => seg[s].lsn > 0) /\ seg[s].latest <= tip

\* A free place that waits for an active segment is in its list alone.
WaitInv ==
  /\ \A b \in Seg : Active(b) => \A l \in seg[b].upon :
        /\ l > 0
        /\ \E s \in Seg : seg[s].state = "free" /\ seg[s].lsn = l /\ s \notin reusable
        /\ \A c \in Seg : Active(c) /\ l \in seg[c].upon => c = b

\* Place s is not reused before the segment with the lsn x is on disk.
Guarded(s, x) ==
  IF seg[s].state = "free"
  THEN \E b \in Seg : Active(b) /\ seg[s].lsn \in seg[b].upon /\ x <= seg[b].lsn
  ELSE x <= seg[s].latest

\* What the segment l has of page p is there until an active segment past the
\* lsn x is on disk, with newer state of p that does not need l.
Stays(p, l, x) ==
  \E s \in Seg :
    /\ seg[s].lsn = l /\ s \notin reusable
    /\ \/ l \in held[p]
       \/ \E a \in Seg : /\ Active(a) /\ x < seg[a].lsn
                         /\ snap[a][p] # {} /\ l \notin snap[a][p]
                         /\ Guarded(s, seg[a].lsn)

StaysInv ==
  /\ snap \in [Seg -> [Page -> SUBSET Lsn]] /\ needed \in [Page -> SUBSET Lsn]
  /\ \A p \in Page : \A l \in held[p] : \E s \in Seg : InUse(s) /\ seg[s].lsn = l
  /\ \A p \in Page : \A l \in needed[p] : l > 0 /\ Stays(p, l, 0)
  /\ \A a \in Seg, p \in Page : Active(a) => \A l \in snap[a][p] : l > 0 /\ Stays(p, l, seg[a].lsn)

StableInv == SegIInv /\ TipInv /\ WaitInv /\ StaysInv

\* Guarded and Stays in the state a step leads to.
GuardedNext(s, x) ==
  IF seg'[s].state = "free"
  THEN \E b \in Seg : seg'[b].state = "active" /\ seg'[s].lsn \in seg'[b].upon /\ x <= seg'[b].lsn
  ELSE x <= seg'[s].latest

StaysNext(p, l, x) ==
  \E s \in Seg :
    /\ seg'[s].lsn = l /\ s \notin reusable'
    /\ \/ l \in held'[p]
       \/ \E a \in Seg : /\ seg'[a].state = "active" /\ x < seg'[a].lsn
                         /\ snap'[a][p] # {} /\ l \notin snap'[a][p]
                         /\ GuardedNext(s, seg'[a].lsn)

\* The parts of the invariant in the next state, from their primed forms.
LEMMA StaysInvNext ==
  ASSUME snap' \in [Seg -> [Page -> SUBSET Lsn]], needed' \in [Page -> SUBSET Lsn],
         \A p \in Page : \A l \in held'[p] : \E s \in Seg : seg'[s].state # "free" /\ seg'[s].lsn = l,
         \A p \in Page : \A l \in needed'[p] : l > 0 /\ StaysNext(p, l, 0),
         \A a \in Seg, p \in Page : seg'[a].state = "active" =>
            \A l \in snap'[a][p] : l > 0 /\ StaysNext(p, l, seg'[a].lsn)
  PROVE  StaysInv'
<1>1. (\A p \in Page : \A l \in needed[p] : l > 0 /\ Stays(p, l, 0))'
  BY DEF Stays, Guarded, StaysNext, GuardedNext, Active
<1>2. (\A a \in Seg, p \in Page : Active(a) => \A l \in snap[a][p] : l > 0 /\ Stays(p, l, seg[a].lsn))'
  BY DEF Stays, Guarded, StaysNext, GuardedNext, Active
<1> QED
  BY <1>1, <1>2 DEF StaysInv, InUse, Lsn

\* Taking a free place that waits for nothing keeps it.
LEMMA FreeToActiveStable ==
  ASSUME MaxLsn \in Nat, StableInv, SegIInv', NEW s0 \in Seg, FreeToActive(s0)
  PROVE  TipInv' /\ WaitInv' /\ StaysInv'
<1>1. /\ seg'[s0] = ActiveSegment(tip + 1) /\ \A u \in Seg \ {s0} : seg'[u] = seg[u]
      /\ tip' = tip + 1 /\ tip \in Nat /\ tip + 1 <= MaxLsn
      /\ s0 \in reusable /\ reusable' = reusable \ {s0} /\ seg[s0].state = "free"
      /\ held' = held /\ needed' = needed
      /\ snap'[s0] = [p \in Page |-> {}] /\ \A u \in Seg \ {s0} : snap'[u] = snap[u]
      /\ snap' \in [Seg -> [Page -> SUBSET Lsn]]
  BY DEF StableInv, SegIInv, SegTypeOK, StaysInv, FreeToActive, Lsn
<1>2. seg'[s0].state = "active" /\ seg'[s0].lsn = tip + 1 /\ seg'[s0].upon = {} /\ seg'[s0].latest = 0
  BY <1>1 DEF ActiveSegment, FreeSegment
<1>3. TipInv'
  <2>1. \E s \in Seg : IsTip(s)'
    BY <1>1, <1>2 DEF IsTip, InUse
  <2>2. ASSUME NEW a \in Seg, Active(a)', NEW l \in Lsn, seg'[a].lsn <= l, l <= tip'
        PROVE  \E b \in Seg : Active(b)' /\ seg'[b].lsn = l
    <3>1. CASE l = tip + 1
      BY <1>1, <1>2, <3>1 DEF Active
    <3>2. CASE l # tip + 1
      <4>1. l <= tip /\ a # s0
        BY <1>1, <1>2, <2>2, <3>2 DEF Lsn
      <4>2. Active(a) /\ seg[a].lsn <= l
        BY <1>1, <2>2, <4>1 DEF Active
      <4>3. PICK b \in Seg : Active(b) /\ seg[b].lsn = l
        BY <4>1, <4>2 DEF StableInv, TipInv
      <4>4. b # s0
        BY <1>1, <4>3 DEF Active
      <4> QED
        BY <1>1, <4>3, <4>4 DEF Active
    <3> QED
      BY <3>1, <3>2
  <2>3. \A s \in Seg : (InUse(s)' => seg'[s].lsn > 0) /\ seg'[s].latest <= tip'
    <3>1. ASSUME NEW s \in Seg PROVE (InUse(s)' => seg'[s].lsn > 0) /\ seg'[s].latest <= tip'
      <4>1. CASE s = s0
        BY <1>1, <1>2, <4>1
      <4>2. CASE s # s0
        <5>1. seg'[s] = seg[s] /\ seg[s] \in SegmentType
          BY <1>1, <4>2 DEF StableInv, SegIInv, SegTypeOK
        <5>2. seg[s].latest <= tip /\ seg[s].latest \in Nat /\ (InUse(s) => seg[s].lsn > 0)
          BY <5>1 DEF StableInv, TipInv, SegmentType, Lsn
        <5> QED
          BY <1>1, <5>1, <5>2 DEF InUse
      <4> QED
        BY <4>1, <4>2
    <3> QED
      BY <3>1
  <2> QED
    BY <2>1, <2>2, <2>3 DEF TipInv, Active, Lsn
<1>4. WaitInv'
  <2>1. ASSUME NEW b \in Seg, Active(b)', NEW l \in seg'[b].upon
        PROVE  /\ l > 0
               /\ \E s \in Seg : seg'[s].state = "free" /\ seg'[s].lsn = l /\ s \notin reusable'
               /\ \A c \in Seg : Active(c)' /\ l \in seg'[c].upon => c = b
    <3>1. b # s0 /\ Active(b) /\ l \in seg[b].upon
      BY <1>1, <1>2, <2>1 DEF Active
    <3> QED
      BY <1>1, <1>2, <3>1 DEF StableInv, WaitInv, Active
  <2> QED
    BY <2>1 DEF WaitInv, Active
<1>5. ASSUME NEW p \in Page, NEW l, NEW x, Stays(p, l, x) PROVE StaysNext(p, l, x)
  <2> PICK s \in Seg :
        /\ seg[s].lsn = l /\ s \notin reusable
        /\ \/ l \in held[p]
           \/ \E a \in Seg : /\ Active(a) /\ x < seg[a].lsn
                             /\ snap[a][p] # {} /\ l \notin snap[a][p]
                             /\ Guarded(s, seg[a].lsn)
    BY <1>5 DEF Stays
  <2>1. seg'[s] = seg[s] /\ s \notin reusable'
    BY <1>1
  <2>2. \A a \in Seg : Active(a) => a # s0 /\ seg'[a] = seg[a] /\ snap'[a] = snap[a]
    BY <1>1 DEF Active
  <2>3. \A y : Guarded(s, y) => GuardedNext(s, y)
    BY <2>1, <2>2 DEF Guarded, GuardedNext, Active
  <2> QED
    BY <1>1, <2>1, <2>2, <2>3 DEF StaysNext, Active
<1>6. StaysInv'
  <2>1. \A p \in Page : \A l \in held'[p] : \E s \in Seg : seg'[s].state # "free" /\ seg'[s].lsn = l
    BY <1>1 DEF StableInv, StaysInv, InUse
  <2>2. \A p \in Page : \A l \in needed'[p] : l > 0 /\ StaysNext(p, l, 0)
    BY <1>1, <1>5 DEF StableInv, StaysInv
  <2>3. ASSUME NEW a \in Seg, NEW p \in Page, seg'[a].state = "active", NEW l \in snap'[a][p]
        PROVE  l > 0 /\ StaysNext(p, l, seg'[a].lsn)
    <3>1. a # s0 /\ Active(a) /\ l \in snap[a][p] /\ seg'[a].lsn = seg[a].lsn
      BY <1>1, <2>3 DEF Active
    <3> QED
      BY <1>5, <3>1 DEF StableInv, StaysInv
  <2> QED
    BY <1>1, <2>1, <2>2, <2>3, StaysInvNext DEF StableInv, StaysInv
<1> QED
  BY <1>3, <1>4, <1>6

\* Every segment that is in use has an lsn of its own.
LEMMA OwnLsn ==
  ASSUME MaxLsn \in Nat, StableInv, NEW s \in Seg, NEW t \in Seg,
         InUse(s) \/ seg[s].lsn > 0, seg[s].lsn = seg[t].lsn
  PROVE  s = t
BY DEF StableInv, SegIInv, SegTypeOK, SegmentType, TipInv, Lsn

\* Writing a page to the tip, which then has its newest state, keeps it: what
\* the page leaves behind waits at least for the tip.
LEMMA WrittenStable ==
  ASSUME MaxLsn \in Nat, StableInv, NEW p \in Page, NEW lsns \in SUBSET Lsn, WrittenTo(p, lsns),
         tip > 0, tip' = tip, reusable' = reusable, needed' = needed,
         tip \in lsns, lsns \subseteq held[p] \cup {tip},
         \A s \in Seg : /\ seg'[s].state = seg[s].state /\ seg'[s].lsn = seg[s].lsn
                        /\ seg'[s].upon = seg[s].upon
                        /\ seg[s].latest <= seg'[s].latest /\ seg'[s].latest <= tip
                        /\ seg'[s].latest \in Lsn,
         \A s \in Seg : InUse(s) /\ seg[s].lsn \in held[p] \ lsns => seg'[s].latest = tip
  PROVE  TipInv' /\ WaitInv' /\ StaysInv'
<1>1. PICK t \in Seg : IsTip(t)
  BY DEF StableInv, TipInv
<1>2. Active(t) /\ seg[t].lsn = tip /\ InUse(t)
  BY <1>1, TipIsActive DEF StableInv, Active, IsTip
<1>3. \A s \in Seg : s # t => ~IsTip(s)
  BY <1>1, <1>2, OwnLsn DEF IsTip
<1>4. /\ \A q \in Page : held'[q] = IF q = p THEN lsns ELSE held[q]
      /\ \A s \in Seg, q \in Page :
            snap'[s][q] = IF s = t /\ q = p THEN lsns ELSE snap[s][q]
      /\ snap' \in [Seg -> [Page -> SUBSET Lsn]]
  BY <1>1, <1>3 DEF StableInv, StaysInv, SegIInv, SegTypeOK, WrittenTo
<1>5. TipInv'
  BY DEF StableInv, TipInv, IsTip, InUse, Active, Lsn
<1>6. WaitInv'
  BY DEF StableInv, WaitInv, Active
<1>7. ASSUME NEW s \in Seg, NEW a \in Seg, Guarded(s, seg[a].lsn)
      PROVE  GuardedNext(s, seg'[a].lsn)
  BY <1>7 DEF Guarded, GuardedNext, Active, StableInv, SegIInv, SegTypeOK, SegmentType, Lsn
<1>8. ASSUME NEW q \in Page, NEW l, NEW x, Stays(q, l, x), q # p \/ l \in lsns \/ x < tip
      PROVE  StaysNext(q, l, x)
  <2> PICK s \in Seg :
        /\ seg[s].lsn = l /\ s \notin reusable
        /\ \/ l \in held[q]
           \/ \E a \in Seg : /\ Active(a) /\ x < seg[a].lsn
                             /\ snap[a][q] # {} /\ l \notin snap[a][q]
                             /\ Guarded(s, seg[a].lsn)
    BY <1>8 DEF Stays
  <2>1. CASE l \in held'[q]
    BY <2>1 DEF StaysNext
  <2>2. CASE l \in held[q] /\ l \notin held'[q]
    <3>1. q = p /\ l \in held[p] \ lsns /\ x < tip
      BY <1>4, <1>8, <2>2
    <3>2. InUse(s)
      <4>1. PICK u \in Seg : InUse(u) /\ seg[u].lsn = l
        BY <3>1 DEF StableInv, StaysInv
      <4> QED
        BY <4>1, OwnLsn
    <3>3. seg'[s].latest = tip
      BY <3>1, <3>2
    <3>4. GuardedNext(s, seg'[t].lsn)
      BY <1>2, <3>2, <3>3 DEF GuardedNext, InUse, StableInv, SegIInv, SegTypeOK, Lsn
    <3>5. seg'[t].state = "active" /\ x < seg'[t].lsn /\ snap'[t][p] = lsns
      BY <1>2, <1>4, <3>1 DEF Active
    <3> QED
      BY <3>1, <3>4, <3>5 DEF StaysNext
  <2>3. CASE l \notin held[q] /\ l \notin held'[q]
    <3>1. PICK a \in Seg : /\ Active(a) /\ x < seg[a].lsn
                           /\ snap[a][q] # {} /\ l \notin snap[a][q]
                           /\ Guarded(s, seg[a].lsn)
      BY <2>3
    <3>2. GuardedNext(s, seg'[a].lsn)
      BY <1>7, <3>1
    <3>3. snap'[a][q] # {} /\ l \notin snap'[a][q]
      BY <1>4, <2>3, <3>1
    <3> QED
      BY <3>1, <3>2, <3>3 DEF StaysNext, Active
  <2> QED
    BY <2>1, <2>2, <2>3
<1>9. ASSUME NEW q \in Page, NEW l \in held'[q]
      PROVE  \E s \in Seg : seg'[s].state # "free" /\ seg'[s].lsn = l
  <2>1. CASE l \in held[q]
    BY <2>1 DEF StableInv, StaysInv, InUse
  <2>2. CASE l \notin held[q]
    BY <1>2, <1>4, <1>9, <2>2 DEF InUse
  <2> QED
    BY <2>1, <2>2
<1>10. ASSUME NEW q \in Page, NEW l \in needed'[q] PROVE l > 0 /\ StaysNext(q, l, 0)
  BY <1>8, <1>10 DEF StableInv, StaysInv
<1>11. ASSUME NEW a \in Seg, NEW q \in Page, seg'[a].state = "active", NEW l \in snap'[a][q]
       PROVE  l > 0 /\ StaysNext(q, l, seg'[a].lsn)
  <2>1. CASE a = t /\ q = p
    <3>1. l \in held'[p]
      BY <1>4, <1>11, <2>1
    <3>2. PICK s \in Seg : seg'[s].state # "free" /\ seg'[s].lsn = l
      BY <1>9, <3>1
    <3>3. s \notin reusable'
      BY <3>2 DEF StableInv, SegIInv, SegTypeOK
    <3>4. l > 0
      BY <1>4, <3>1 DEF StableInv, SegIInv, LsnInv
    <3> QED
      BY <2>1, <3>1, <3>2, <3>3, <3>4 DEF StaysNext
  <2>2. CASE ~(a = t /\ q = p)
    <3>1. Active(a) /\ l \in snap[a][q] /\ seg'[a].lsn = seg[a].lsn
      BY <1>4, <1>11, <2>2 DEF Active
    <3>2. l > 0 /\ Stays(q, l, seg[a].lsn)
      BY <3>1 DEF StableInv, StaysInv
    <3>3. q # p \/ seg[a].lsn < tip
      <4>1. a # t => seg[a].lsn # tip
        BY <1>2, OwnLsn
      <4> QED
        BY <2>2, <4>1 DEF StableInv, SegIInv, LsnInv, SegTypeOK, SegmentType, Lsn
    <3> QED
      BY <1>8, <3>1, <3>2, <3>3
  <2> QED
    BY <2>1, <2>2
<1>12. StaysInv'
  <2>1. needed' \in [Page -> SUBSET Lsn]
    BY DEF StableInv, StaysInv
  <2> QED
    BY <1>4, <1>9, <1>10, <1>11, <2>1, StaysInvNext
<1> QED
  BY <1>5, <1>6, <1>12

\* Linking a page keeps it.
LEMMA LinkStable ==
  ASSUME MaxLsn \in Nat, StableInv, NEW p \in Page, Link(p)
  PROVE  TipInv' /\ WaitInv' /\ StaysInv'
<1>1. /\ held[p] \cup {tip} \in SUBSET Lsn /\ WrittenTo(p, held[p] \cup {tip})
      /\ tip > 0 /\ tip' = tip /\ reusable' = reusable /\ needed' = needed
  BY DEF Link, StableInv, SegIInv, SegTypeOK
<1>2. ASSUME NEW s \in Seg
      PROVE  /\ seg'[s].state = seg[s].state /\ seg'[s].lsn = seg[s].lsn
             /\ seg'[s].upon = seg[s].upon /\ seg'[s].latest = seg[s].latest
  BY DEF Link, InsertPid, StableInv, SegIInv, SegTypeOK, SegmentType
<1>3. \A s \in Seg : seg[s].latest <= seg[s].latest /\ seg[s].latest <= tip /\ seg[s].latest \in Lsn
  BY DEF StableInv, SegIInv, SegTypeOK, SegmentType, TipInv, Lsn
<1> QED
  BY <1>1, <1>2, <1>3, WrittenStable

\* Replacing a page keeps it: every segment it was in learns the lsn.
LEMMA ReplacedStable ==
  ASSUME MaxLsn \in Nat, StableInv, NEW p \in Page, Replaced(p)
  PROVE  TipInv' /\ WaitInv' /\ StaysInv'
<1>1. /\ {tip} \in SUBSET Lsn /\ WrittenTo(p, {tip})
      /\ tip > 0 /\ tip' = tip /\ reusable' = reusable /\ needed' = needed
  BY DEF Replaced, StableInv, SegIInv, SegTypeOK
<1>2. ASSUME NEW s \in Seg
      PROVE  /\ seg'[s].state = seg[s].state /\ seg'[s].lsn = seg[s].lsn
             /\ seg'[s].upon = seg[s].upon
             /\ seg[s].latest <= seg'[s].latest /\ seg'[s].latest <= tip /\ seg'[s].latest \in Lsn
             /\ InUse(s) /\ seg[s].lsn \in held[p] => seg'[s].latest = tip
  <2> DEFINE G == IF InUse(s) /\ seg[s].lsn \in held[p] THEN RemovePid(seg[s], p, tip) ELSE seg[s]
  <2>1. seg[s] \in SegmentType /\ tip \in Lsn /\ seg[s].latest <= tip
    BY DEF StableInv, SegIInv, SegTypeOK, TipInv
  <2>2. Later(seg[s].latest, tip) = tip
    BY <2>1 DEF Later, Lsn, SegmentType
  <2>3. LET r == RemovePid(seg[s], p, tip) IN
        /\ r \in SegmentType
        /\ r.state = seg[s].state /\ r.lsn = seg[s].lsn /\ r.upon = seg[s].upon /\ r.latest = tip
    <3>1. RemovePid(seg[s], p, tip) \in SegmentType
      BY <2>1, OperationsKeepType
    <3> QED
      BY <2>1, <2>2, <3>1 DEF RemovePid, ActiveRemove, InactiveRemove, DrainingRemove, SegmentType
  <2>4. /\ G \in SegmentType
        /\ G.state = seg[s].state /\ G.lsn = seg[s].lsn /\ G.upon = seg[s].upon
        /\ G.latest = IF InUse(s) /\ seg[s].lsn \in held[p] THEN tip ELSE seg[s].latest
    BY <2>1, <2>3
  <2>5. seg'[s] = IF IsTip(s) THEN InsertPid(G, p) ELSE G
    BY DEF Replaced
  <2> HIDE DEF G
  <2>6. /\ seg'[s].state = G.state /\ seg'[s].lsn = G.lsn
        /\ seg'[s].upon = G.upon /\ seg'[s].latest = G.latest
    BY <2>4, <2>5 DEF InsertPid, SegmentType
  <2> QED
    BY <2>1, <2>4, <2>6 DEF SegmentType, Lsn
<1> QED
  BY <1>1, <1>2, WrittenStable

\* The segment that becomes inactive is the oldest of the active ones: all
\* that waits for another still waits, and what it made stable is kept.
LEMMA DeactivateStable ==
  ASSUME MaxLsn \in Nat, StableInv, SegIInv', NEW d \in Seg, Deactivate(d)
  PROVE  TipInv' /\ WaitInv' /\ StaysInv'
<1>1. /\ seg'[d] = ActiveToInactive(seg[d]) /\ \A u \in Seg \ {d} : seg'[u] = seg[u]
      /\ seg[d].state = "active" /\ seg[d].lsn < tip
      /\ \A t \in Seg : Active(t) => seg[t].lsn >= seg[d].lsn
      /\ reusable' = reusable \cup {t \in Seg : seg[t].state = "free" /\ seg[t].lsn \in seg[d].upon}
      /\ tip' = tip /\ held' = held /\ snap' = snap
      /\ needed' = [p \in Page |-> IF snap[d][p] # {} THEN snap[d][p] ELSE needed[p]]
  BY DEF Deactivate, StableInv, SegIInv, SegTypeOK, Active
<1>2. /\ seg'[d].state = "inactive" /\ seg'[d].lsn = seg[d].lsn
      /\ seg'[d].latest = seg[d].latest /\ InUse(d) /\ seg[d].lsn > 0
  BY <1>1 DEF ActiveToInactive, StableInv, SegIInv, SegTypeOK, SegmentType, InUse, TipInv
<1>3. \A s \in Seg : /\ seg'[s].lsn = seg[s].lsn /\ seg'[s].latest = seg[s].latest
                     /\ InUse(s) => seg'[s].state # "free"
                     /\ seg'[s].state # "free" => InUse(s)
                     /\ seg'[s].state = "active" => s # d /\ Active(s) /\ seg'[s] = seg[s]
                     /\ seg[s].state \in {"free", "active"} /\ s # d => seg'[s] = seg[s]
                     /\ seg[s].lsn \in Nat
  BY <1>1, <1>2 DEF InUse, Active, StableInv, SegIInv, SegTypeOK, SegmentType, Lsn
<1>4. \A a \in Seg : Active(a) /\ a # d => seg[a].lsn > seg[d].lsn
  BY <1>1, <1>2, <1>3, OwnLsn
<1>5. TipInv'
  <2>1. tip > 0 => \E s \in Seg : IsTip(s)'
    BY <1>1, <1>3 DEF StableInv, TipInv, IsTip, InUse
  <2>2. ASSUME NEW a \in Seg, seg'[a].state = "active", NEW l \in Lsn, seg'[a].lsn <= l, l <= tip
        PROVE  \E b \in Seg : seg'[b].state = "active" /\ seg'[b].lsn = l
    <3>1. a # d /\ Active(a) /\ seg[a].lsn <= l
      BY <1>3, <2>2
    <3>2. PICK b \in Seg : Active(b) /\ seg[b].lsn = l
      BY <2>2, <3>1 DEF StableInv, TipInv
    <3>3. b # d
      BY <1>3, <1>4, <3>1, <3>2 DEF Lsn
    <3> QED
      BY <1>1, <3>2, <3>3 DEF Active
  <2>3. \A s \in Seg : (seg'[s].state # "free" => seg'[s].lsn > 0) /\ seg'[s].latest <= tip
    BY <1>3 DEF StableInv, TipInv
  <2> QED
    BY <1>1, <2>1, <2>2, <2>3 DEF TipInv, Active, InUse, Lsn
<1>6. WaitInv'
  <2>1. ASSUME NEW b \in Seg, seg'[b].state = "active", NEW l \in seg'[b].upon
        PROVE  /\ l > 0
               /\ \E s \in Seg : seg'[s].state = "free" /\ seg'[s].lsn = l /\ s \notin reusable'
               /\ \A c \in Seg : seg'[c].state = "active" /\ l \in seg'[c].upon => c = b
    <3>1. b # d /\ Active(b) /\ l \in seg[b].upon
      BY <1>3, <2>1
    <3>2. /\ l > 0
          /\ \E s \in Seg : seg[s].state = "free" /\ seg[s].lsn = l /\ s \notin reusable
          /\ \A c \in Seg : Active(c) /\ l \in seg[c].upon => c = b
      BY <3>1 DEF StableInv, WaitInv
    <3>3. l \notin seg[d].upon
      BY <1>1, <3>1, <3>2 DEF Active
    <3> QED
      BY <1>1, <1>3, <3>2, <3>3
  <2> QED
    BY <2>1 DEF WaitInv, Active
<1>7. ASSUME NEW p \in Page, NEW l, NEW x \in Nat, Stays(p, l, x), l > 0,
             x >= seg[d].lsn \/ snap[d][p] = {}
      PROVE  StaysNext(p, l, x)
  <2> PICK s \in Seg :
        /\ seg[s].lsn = l /\ s \notin reusable
        /\ \/ l \in held[p]
           \/ \E a \in Seg : /\ Active(a) /\ x < seg[a].lsn
                             /\ snap[a][p] # {} /\ l \notin snap[a][p]
                             /\ Guarded(s, seg[a].lsn)
    BY <1>7 DEF Stays
  <2>1. CASE l \in held[p]
    <3>1. PICK u \in Seg : InUse(u) /\ seg[u].lsn = l
      BY <2>1 DEF StableInv, StaysInv
    <3>2. InUse(s)
      BY <3>1, OwnLsn
    <3>3. s \notin reusable'
      BY <1>1, <3>2 DEF InUse
    <3> QED
      BY <1>1, <1>3, <2>1, <3>3 DEF StaysNext
  <2>2. CASE l \notin held[p]
    <3>1. PICK a \in Seg : /\ Active(a) /\ x < seg[a].lsn
                           /\ snap[a][p] # {} /\ l \notin snap[a][p]
                           /\ Guarded(s, seg[a].lsn)
      BY <2>2
    <3>2. a # d
      BY <1>3, <1>7, <3>1
    <3>3. seg[a].lsn > seg[d].lsn /\ seg'[a] = seg[a]
      BY <1>1, <1>4, <3>1, <3>2
    <3>4. s \notin reusable' /\ GuardedNext(s, seg'[a].lsn)
      <4>1. CASE seg[s].state = "free"
        <5>1. PICK b \in Seg : Active(b) /\ seg[s].lsn \in seg[b].upon /\ seg[a].lsn <= seg[b].lsn
          BY <3>1, <4>1 DEF Guarded
        <5>2. b # d
          BY <1>3, <3>3, <5>1
        <5>3. seg[s].lsn \notin seg[d].upon
          BY <1>1, <5>1, <5>2 DEF StableInv, WaitInv, Active
        <5>4. seg'[b] = seg[b] /\ seg'[s] = seg[s]
          BY <1>1, <4>1, <5>2
        <5> QED
          BY <1>1, <3>3, <4>1, <5>1, <5>3, <5>4 DEF GuardedNext, Active
      <4>2. CASE seg[s].state # "free"
        <5>1. seg[a].lsn <= seg[s].latest
          BY <3>1, <4>2 DEF Guarded
        <5> QED
          BY <1>1, <1>3, <3>3, <4>2, <5>1 DEF GuardedNext, InUse
      <4> QED
        BY <4>1, <4>2
    <3>5. seg'[a].state = "active" /\ x < seg'[a].lsn /\ snap'[a][p] # {} /\ l \notin snap'[a][p]
      BY <1>1, <3>1, <3>3 DEF Active
    <3> QED
      BY <1>3, <3>4, <3>5 DEF StaysNext
  <2> QED
    BY <2>1, <2>2
<1>8. \A p \in Page : \A l \in held'[p] : \E s \in Seg : seg'[s].state # "free" /\ seg'[s].lsn = l
  BY <1>1, <1>3 DEF StableInv, StaysInv
<1>9. ASSUME NEW p \in Page, NEW l \in needed'[p] PROVE l > 0 /\ StaysNext(p, l, 0)
  <2>1. CASE snap[d][p] = {}
    <3>1. l \in needed[p]
      BY <1>1, <1>9, <2>1
    <3> QED
      BY <1>7, <2>1, <3>1 DEF StableInv, StaysInv
  <2>2. CASE snap[d][p] # {}
    <3>1. l \in snap[d][p]
      BY <1>1, <1>9, <2>2
    <3>2. l > 0 /\ Stays(p, l, seg[d].lsn)
      BY <1>1, <3>1 DEF StableInv, StaysInv, Active
    <3>3. StaysNext(p, l, seg[d].lsn)
      BY <1>3, <1>7, <3>2
    <3>4. \A y : y \in Nat /\ seg[d].lsn < y => 0 < y
      BY <1>3
    <3>5. \A a \in Seg : seg'[a].lsn \in Nat
      BY <1>3
    <3>6. StaysNext(p, l, 0)
      BY <3>3, <3>4, <3>5 DEF StaysNext
    <3> QED
      BY <3>2, <3>6
  <2> QED
    BY <2>1, <2>2
<1>10. ASSUME NEW a \in Seg, NEW p \in Page, seg'[a].state = "active", NEW l \in snap'[a][p]
       PROVE  l > 0 /\ StaysNext(p, l, seg'[a].lsn)
  <2>1. Active(a) /\ seg'[a].lsn = seg[a].lsn /\ l \in snap[a][p] /\ seg[a].lsn >= seg[d].lsn
    BY <1>1, <1>3, <1>10
  <2>2. l > 0 /\ Stays(p, l, seg[a].lsn)
    BY <2>1 DEF StableInv, StaysInv
  <2> QED
    BY <1>3, <1>7, <2>1, <2>2
<1>11. snap' \in [Seg -> [Page -> SUBSET Lsn]] /\ needed' \in [Page -> SUBSET Lsn]
  <2>1. snap \in [Seg -> [Page -> SUBSET Lsn]] /\ needed \in [Page -> SUBSET Lsn]
    BY DEF StableInv, StaysInv
  <2> QED
    BY <1>1, <2>1
<1> QED
  BY <1>5, <1>6, <1>8, <1>9, <1>10, <1>11, StaysInvNext

\* Draining changes nothing that is waited for.
LEMMA DrainStable ==
  ASSUME MaxLsn \in Nat, StableInv, NEW d \in Seg, Drain(d)
  PROVE  TipInv' /\ WaitInv' /\ StaysInv'
<1>1. /\ tip' = tip /\ reusable' = reusable /\ held' = held /\ snap' = snap /\ needed' = needed
      /\ seg'[d] = InactiveToDraining(seg[d]) /\ \A u \in Seg \ {d} : seg'[u] = seg[u]
      /\ seg[d].state = "inactive"
  BY DEF Drain, StableInv, SegIInv, SegTypeOK
<1>2. ASSUME NEW s \in Seg
      PROVE  /\ seg'[s].lsn = seg[s].lsn /\ seg'[s].latest = seg[s].latest
             /\ seg'[s].upon = seg[s].upon
             /\ seg'[s].state = "free" <=> seg[s].state = "free"
             /\ seg'[s].state = "active" <=> seg[s].state = "active"
  <2>1. seg[s] \in SegmentType
    BY DEF StableInv, SegIInv, SegTypeOK
  <2>2. CASE s = d
    BY <1>1, <2>1, <2>2 DEF InactiveToDraining, SegmentType
  <2>3. CASE s # d
    BY <1>1, <2>3
  <2> QED
    BY <2>2, <2>3
<1>3. TipInv'
  BY <1>1, <1>2 DEF StableInv, TipInv, IsTip, InUse, Active, Lsn
<1>4. WaitInv'
  BY <1>1, <1>2 DEF StableInv, WaitInv, Active
<1>5. ASSUME NEW s \in Seg, NEW x, Guarded(s, x) PROVE GuardedNext(s, x)
  BY <1>2, <1>5 DEF Guarded, GuardedNext, Active
<1>6. ASSUME NEW p \in Page, NEW l, NEW x, Stays(p, l, x) PROVE StaysNext(p, l, x)
  BY <1>1, <1>2, <1>5, <1>6 DEF Stays, StaysNext, Active
<1>7. /\ \A p \in Page : \A l \in held'[p] : \E s \in Seg : seg'[s].state # "free" /\ seg'[s].lsn = l
      /\ \A p \in Page : \A l \in needed'[p] : l > 0 /\ StaysNext(p, l, 0)
      /\ \A a \in Seg, p \in Page : seg'[a].state = "active" =>
            \A l \in snap'[a][p] : l > 0 /\ StaysNext(p, l, seg'[a].lsn)
      /\ snap' \in [Seg -> [Page -> SUBSET Lsn]] /\ needed' \in [Page -> SUBSET Lsn]
  BY <1>1, <1>2, <1>6 DEF StableInv, StaysInv, Active, InUse
<1> QED
  BY <1>3, <1>4, <1>7, StaysInvNext

\* A segment is freed when no page has a fragment in it, and it is reused at
\* once only when the write that replaced its last page is on disk.
LEMMA FreeStable ==
  ASSUME IsFiniteSet(Page), MaxLsn \in Nat, StableInv, NEW f \in Seg, Free(f)
  PROVE  TipInv' /\ WaitInv' /\ StaysInv'
<1> DEFINE R == {t \in Seg : seg[t].state = "active" /\ seg[t].lsn = seg[f].latest}
<1>1. /\ seg[f].state = "draining" /\ CanFree(seg[f])
      /\ seg'[f] = FreeSegment(seg[f].lsn)
      /\ \A u \in R : seg'[u] = [seg[u] EXCEPT !.upon = @ \cup {seg[f].lsn}]
      /\ \A u \in Seg \ {f} : u \notin R => seg'[u] = seg[u]
      /\ reusable' = IF R = {} THEN reusable \cup {f} ELSE reusable
      /\ tip' = tip /\ held' = held /\ snap' = snap /\ needed' = needed
  BY DEF Free, DrainingToFree, StableInv, SegIInv, SegTypeOK
<1>2. seg'[f].state = "free" /\ seg'[f].lsn = seg[f].lsn /\ seg'[f].latest = 0
  BY <1>1 DEF FreeSegment
<1>3. seg[f].lsn > 0 /\ InUse(f) /\ f \notin R /\ f \notin reusable /\ tip \in Nat
  BY <1>1 DEF StableInv, TipInv, InUse, SegIInv, SegTypeOK, Lsn
<1>4. ASSUME NEW s \in Seg, s # f
      PROVE  /\ seg'[s].state = seg[s].state /\ seg'[s].lsn = seg[s].lsn
             /\ seg'[s].latest = seg[s].latest
             /\ seg'[s].upon = IF s \in R THEN seg[s].upon \cup {seg[f].lsn} ELSE seg[s].upon
  <2>1. seg[s] \in SegmentType
    BY DEF StableInv, SegIInv, SegTypeOK
  <2> QED
    BY <1>1, <1>4, <2>1 DEF SegmentType
<1>5. \A t \in R, u \in R : t = u
  BY OwnLsn DEF InUse
<1>6. TipInv'
  <2>1. tip > 0 => \E s \in Seg : IsTip(s)'
    <3>1. SUFFICES ASSUME tip > 0 PROVE \E s \in Seg : IsTip(s)'
      OBVIOUS
    <3>2. PICK s \in Seg : IsTip(s)
      BY <3>1 DEF StableInv, TipInv
    <3>3. s # f
      BY <1>1, <3>2, TipIsActive DEF StableInv
    <3> QED
      BY <1>1, <1>4, <3>2, <3>3 DEF IsTip, InUse
  <2>2. ASSUME NEW a \in Seg, seg'[a].state = "active", NEW l \in Lsn, seg'[a].lsn <= l, l <= tip
        PROVE  \E b \in Seg : seg'[b].state = "active" /\ seg'[b].lsn = l
    <3>1. Active(a) /\ seg[a].lsn <= l
      BY <1>2, <1>4, <2>2 DEF Active
    <3>2. PICK b \in Seg : Active(b) /\ seg[b].lsn = l
      BY <2>2, <3>1 DEF StableInv, TipInv
    <3> QED
      BY <1>1, <1>4, <3>2 DEF Active
  <2>3. \A s \in Seg : (seg'[s].state # "free" => seg'[s].lsn > 0) /\ seg'[s].latest <= tip
    <3>1. \A s \in Seg : (seg[s].state # "free" => seg[s].lsn > 0) /\ seg[s].latest <= tip
      BY DEF StableInv, TipInv, InUse
    <3>2. ASSUME NEW s \in Seg
          PROVE  (seg'[s].state # "free" => seg'[s].lsn > 0) /\ seg'[s].latest <= tip
      <4>1. CASE s = f
        BY <1>2, <1>3, <4>1
      <4>2. CASE s # f
        BY <1>4, <3>1, <4>2
      <4> QED
        BY <4>1, <4>2
    <3> QED
      BY <3>2
  <2> QED
    BY <1>1, <2>1, <2>2, <2>3 DEF TipInv, Active, InUse, Lsn
<1>7. WaitInv'
  <2>1. ASSUME NEW b \in Seg, seg[b].state = "active", NEW l \in seg[b].upon
        PROVE  /\ l > 0 /\ l # seg[f].lsn
               /\ \E s \in Seg \ {f} : seg[s].state = "free" /\ seg[s].lsn = l /\ s \notin reusable
               /\ \A c \in Seg : Active(c) /\ l \in seg[c].upon => c = b
    <3>1. /\ l > 0
          /\ \A c \in Seg : Active(c) /\ l \in seg[c].upon => c = b
      BY <2>1 DEF StableInv, WaitInv, Active
    <3>2. PICK s \in Seg : seg[s].state = "free" /\ seg[s].lsn = l /\ s \notin reusable
      BY <2>1 DEF StableInv, WaitInv, Active
    <3>3. s # f
      BY <1>1, <3>2
    <3>4. l # seg[f].lsn
      BY <3>1, <3>2, <3>3, OwnLsn
    <3> QED
      BY <3>1, <3>2, <3>3, <3>4
  <2>2. ASSUME NEW b \in Seg, seg'[b].state = "active", NEW l \in seg'[b].upon
        PROVE  /\ l > 0
               /\ \E s \in Seg : seg'[s].state = "free" /\ seg'[s].lsn = l /\ s \notin reusable'
               /\ \A c \in Seg : seg'[c].state = "active" /\ l \in seg'[c].upon => c = b
    <3>1. b # f /\ seg[b].state = "active"
      BY <1>2, <1>4, <2>2
    <3>2. CASE l \in seg[b].upon
      <4>1. /\ l > 0 /\ l # seg[f].lsn
            /\ \E s \in Seg \ {f} : seg[s].state = "free" /\ seg[s].lsn = l /\ s \notin reusable
            /\ \A c \in Seg : Active(c) /\ l \in seg[c].upon => c = b
        BY <2>1, <3>1, <3>2
      <4>2. ASSUME NEW c \in Seg, seg'[c].state = "active", l \in seg'[c].upon PROVE c = b
        <5>1. c # f
          BY <1>2, <4>2
        <5>2. l \in seg[c].upon /\ Active(c)
          BY <1>4, <4>1, <4>2, <5>1 DEF Active
        <5> QED
          BY <4>1, <5>2
      <4>3. PICK s \in Seg \ {f} : seg[s].state = "free" /\ seg[s].lsn = l /\ s \notin reusable
        BY <4>1
      <4>4. seg'[s].state = "free" /\ seg'[s].lsn = l /\ s \notin reusable'
        BY <1>1, <1>4, <4>3
      <4> QED
        BY <4>1, <4>2, <4>4
    <3>3. CASE l \notin seg[b].upon
      <4>1. b \in R /\ l = seg[f].lsn
        BY <1>4, <2>2, <3>1, <3>3
      <4>2. f \notin reusable'
        BY <1>1, <1>3, <4>1
      <4>3. ASSUME NEW c \in Seg, seg'[c].state = "active", l \in seg'[c].upon PROVE c = b
        <5>1. c # f
          BY <1>2, <4>3
        <5>2. seg[c].state = "active"
          BY <1>4, <4>3, <5>1
        <5>3. l \notin seg[c].upon
          BY <2>1, <4>1, <5>2
        <5>4. c \in R
          BY <1>4, <4>3, <5>1, <5>3
        <5> QED
          BY <1>5, <4>1, <5>4
      <4> QED
        BY <1>2, <1>3, <4>1, <4>2, <4>3
    <3> QED
      BY <3>2, <3>3
  <2> QED
    BY <2>2 DEF WaitInv, Active
<1>8. \A p \in Page : seg[f].lsn \notin held[p]
  <2>1. Cardinality(Live(f)) = 0
    BY <1>1 DEF StableInv, SegIInv, SegTypeOK, SegmentType, BookInv, CanFree
  <2>2. Live(f) \in SUBSET Page
    BY DEF Live
  <2>3. IsFiniteSet(Live(f))
    BY <2>2, PagesFinite
  <2>4. Live(f) = {}
    BY <2>1, <2>3, FS_EmptySet
  <2> QED
    BY <2>4 DEF Live
<1>9. ASSUME NEW s \in Seg, s \notin reusable, NEW a \in Seg, Active(a), Guarded(s, seg[a].lsn)
      PROVE  s \notin reusable' /\ GuardedNext(s, seg[a].lsn)
  <2>1. CASE s # f
    <3>1. s \notin reusable'
      BY <1>1, <1>9, <2>1
    <3>2. CASE seg[s].state = "free"
      <4>1. PICK b \in Seg : Active(b) /\ seg[s].lsn \in seg[b].upon /\ seg[a].lsn <= seg[b].lsn
        BY <1>9, <3>2 DEF Guarded
      <4>2. b # f
        BY <1>1, <4>1 DEF Active
      <4>3. seg'[b].state = "active" /\ seg'[s].lsn \in seg'[b].upon /\ seg[a].lsn <= seg'[b].lsn
        BY <1>4, <2>1, <4>1, <4>2 DEF Active
      <4> QED
        BY <1>4, <2>1, <3>1, <3>2, <4>3 DEF GuardedNext
    <3>3. CASE seg[s].state # "free"
      BY <1>4, <1>9, <2>1, <3>1, <3>3 DEF Guarded, GuardedNext
    <3> QED
      BY <3>2, <3>3
  <2>2. CASE s = f
    <3>1. seg[a].lsn <= seg[f].latest
      BY <1>1, <1>9, <2>2 DEF Guarded
    <3>2. seg[f].latest \in Lsn /\ seg[f].latest <= tip
      BY DEF StableInv, TipInv, SegIInv, SegTypeOK, SegmentType
    <3>3. PICK b \in Seg : Active(b) /\ seg[b].lsn = seg[f].latest
      BY <1>9, <3>1, <3>2 DEF StableInv, TipInv
    <3>4. b \in R /\ b # f
      BY <1>3, <3>3 DEF Active
    <3>5. f \notin reusable'
      BY <1>1, <1>3, <3>4
    <3>6. seg'[b].state = "active" /\ seg'[f].lsn \in seg'[b].upon /\ seg[a].lsn <= seg'[b].lsn
      BY <1>2, <1>4, <3>1, <3>3, <3>4 DEF Active
    <3> QED
      BY <1>2, <2>2, <3>5, <3>6 DEF GuardedNext
  <2> QED
    BY <2>1, <2>2
<1>10. ASSUME NEW p \in Page, NEW l, NEW x, Stays(p, l, x) PROVE StaysNext(p, l, x)
  <2> PICK s \in Seg :
        /\ seg[s].lsn = l /\ s \notin reusable
        /\ \/ l \in held[p]
           \/ \E a \in Seg : /\ Active(a) /\ x < seg[a].lsn
                             /\ snap[a][p] # {} /\ l \notin snap[a][p]
                             /\ Guarded(s, seg[a].lsn)
    BY <1>10 DEF Stays
  <2>1. seg'[s].lsn = l
    BY <1>2, <1>4
  <2>2. CASE l \in held[p]
    <3>1. s # f
      BY <1>8, <2>2
    <3>2. s \notin reusable'
      BY <1>1, <3>1
    <3> QED
      BY <1>1, <2>1, <2>2, <3>2 DEF StaysNext
  <2>3. CASE l \notin held[p]
    <3>1. PICK a \in Seg : /\ Active(a) /\ x < seg[a].lsn
                           /\ snap[a][p] # {} /\ l \notin snap[a][p]
                           /\ Guarded(s, seg[a].lsn)
      BY <2>3
    <3>2. s \notin reusable' /\ GuardedNext(s, seg[a].lsn)
      BY <1>9, <3>1
    <3>3. seg'[a].state = "active" /\ seg'[a].lsn = seg[a].lsn
      BY <1>1, <1>4, <3>1 DEF Active
    <3> QED
      BY <1>1, <2>1, <3>1, <3>2, <3>3 DEF StaysNext
  <2> QED
    BY <2>2, <2>3
<1>11. ASSUME NEW p \in Page, NEW l \in held'[p]
       PROVE  \E s \in Seg : seg'[s].state # "free" /\ seg'[s].lsn = l
  <2>1. PICK s \in Seg : InUse(s) /\ seg[s].lsn = l
    BY <1>1, <1>11 DEF StableInv, StaysInv
  <2>2. s # f
    BY <1>1, <1>8, <1>11, <2>1
  <2> QED
    BY <1>4, <2>1, <2>2 DEF InUse
<1>12. \A p \in Page : \A l \in needed'[p] : l > 0 /\ StaysNext(p, l, 0)
  BY <1>1, <1>10 DEF StableInv, StaysInv
<1>13. ASSUME NEW a \in Seg, NEW p \in Page, seg'[a].state = "active", NEW l \in snap'[a][p]
       PROVE  l > 0 /\ StaysNext(p, l, seg'[a].lsn)
  <2>1. Active(a) /\ seg'[a].lsn = seg[a].lsn /\ l \in snap[a][p]
    BY <1>1, <1>2, <1>4, <1>13 DEF Active
  <2> QED
    BY <1>10, <2>1 DEF StableInv, StaysInv
<1>14. snap' \in [Seg -> [Page -> SUBSET Lsn]] /\ needed' \in [Page -> SUBSET Lsn]
  BY <1>1 DEF StableInv, StaysInv
<1> QED
  BY <1>6, <1>7, <1>11, <1>12, <1>13, <1>14, StaysInvNext

\* At first nothing is written and nothing is needed.
LEMMA InitStable ==
  ASSUME IsFiniteSet(Page), MaxLsn \in Nat, SegInit
  PROVE  StableInv
<1>1. SegIInv
  BY InitSegIInv
<1>2. /\ tip = 0 /\ \A s \in Seg : seg[s] = FreeSegment(0)
      /\ \A p \in Page : held[p] = {} /\ needed[p] = {}
      /\ snap \in [Seg -> [Page -> SUBSET Lsn]] /\ needed \in [Page -> SUBSET Lsn]
  BY DEF SegInit
<1>3. \A s \in Seg : seg[s].state = "free" /\ seg[s].latest = 0
  BY <1>2 DEF FreeSegment
<1>4. TipInv
  BY <1>2, <1>3 DEF TipInv, InUse, Active
<1>5. WaitInv
  BY <1>3 DEF WaitInv, Active
<1>6. StaysInv
  BY <1>2, <1>3 DEF StaysInv, Active
<1> QED
  BY <1>1, <1>4, <1>5, <1>6 DEF StableInv

\* Every operation keeps it.
LEMMA StepStable ==
  ASSUME IsFiniteSet(Page), MaxLsn \in Nat, StableInv, [SegNext]_segVars
  PROVE  StableInv'
<1>1. SegIInv'
  BY StepSegIInv DEF StableInv
<1>2. ASSUME UNCHANGED segVars PROVE TipInv' /\ WaitInv' /\ StaysInv'
  <2>1. TipInv'
    BY <1>2 DEF segVars, StableInv, TipInv, IsTip, InUse, Active, Lsn
  <2>2. WaitInv'
    BY <1>2 DEF segVars, StableInv, WaitInv, Active
  <2>3. StaysInv'
    BY <1>2 DEF segVars, StableInv, StaysInv, InUse, Active, Stays, Guarded, Lsn
  <2> QED
    BY <2>1, <2>2, <2>3
<1>3. ASSUME NEW s \in Seg, FreeToActive(s) PROVE TipInv' /\ WaitInv' /\ StaysInv'
  BY <1>1, <1>3, FreeToActiveStable
<1>4. ASSUME NEW s \in Seg, Deactivate(s) PROVE TipInv' /\ WaitInv' /\ StaysInv'
  BY <1>1, <1>4, DeactivateStable
<1>5. ASSUME NEW s \in Seg, Drain(s) PROVE TipInv' /\ WaitInv' /\ StaysInv'
  BY <1>5, DrainStable
<1>6. ASSUME NEW s \in Seg, Free(s) PROVE TipInv' /\ WaitInv' /\ StaysInv'
  BY <1>6, FreeStable
<1>7. ASSUME NEW s \in Seg, NEW p \in Page, Clean(s, p) PROVE TipInv' /\ WaitInv' /\ StaysInv'
  BY <1>7, ReplacedStable DEF Clean
<1>8. ASSUME NEW p \in Page, Link(p) PROVE TipInv' /\ WaitInv' /\ StaysInv'
  BY <1>8, LinkStable
<1>9. ASSUME NEW p \in Page, Replace(p) PROVE TipInv' /\ WaitInv' /\ StaysInv'
  BY <1>9, ReplacedStable DEF Replace
<1>10. TipInv' /\ WaitInv' /\ StaysInv'
  BY <1>2, <1>3, <1>4, <1>5, <1>6, <1>7, <1>8, <1>9 DEF SegNext
<1> QED
  BY <1>1, <1>10 DEF StableInv

\* For every number of places and pages: the segment where a page's newest state
\* on disk lies is not reused before newer state of the page is on disk too,
\* although the page may have been rewritten, its segment drained and freed
\* while the segment it was rewritten to was still being written.
THEOREM StableStateKeptHolds ==
  ASSUME IsFiniteSet(Page), MaxLsn \in Nat
  PROVE  SegSpec => []StableStateKept
<1>1. SegInit => StableInv
  BY InitStable
<1>2. StableInv /\ [SegNext]_segVars => StableInv'
  BY StepStable
<1>3. StableInv => StableStateKept
  BY DEF StableInv, StaysInv, Stays, StableStateKept
<1> QED
  BY <1>1, <1>2, <1>3, PTL DEF SegSpec

(***************************************************************************)
(* The files of a log stream (LogRotate).                                  *)
(***************************************************************************)
\* the names _tlog_write and gzip work with, and where a line is in hand
Name == {"log", "pending", "gz"}
Archived == {"old_gz", "set_aside", "name_it", "fork"}
Cleaning == {"count", "trim"}
LineInHand == at \in Archived \cup {"open", "append"} \/ (at \in Cleaning /\ back = "open")
Written == IF LineInHand THEN asked - 1 ELSE asked

\* RotateTypeOK, and the histories
FilesTypeInv ==
  /\ dir \in [Name -> FileType \cup {NoFile}] /\ archives \in Seq(FileType)
  /\ at \in Archived \cup Cleaning \cup {"idle", "open", "append", "down"}
  /\ back \in {"idle", "open"} /\ fd \in {"none", "log", "gone"}
  /\ filesize \in Nat /\ last_try \in 0 .. now
  /\ zip_pid \in BOOLEAN /\ compress \in BOOLEAN /\ nocompress \in BOOLEAN /\ outlived \in BOOLEAN
  /\ now \in 1 .. MaxNow /\ asked \in 0 .. MaxLines

\* the gzip of each life, and the time of the file it reads
ZipTypeInv ==
  /\ crashes \in Life
  /\ gzip \in [Life -> {"none", "new", "writing", "whole", "exited"}]
  /\ stamp \in [Life -> 0 .. MaxNow]
  /\ \A l \in Life : gzip[l] = "writing" => stamp[l] \in 1 .. MaxNow

\* the line in hand is in no file yet
LinesInv ==
  /\ lines \subseteq 1 .. Written /\ deleted \subseteq lines
  /\ filesize <= Written /\ 0 <= Written
  /\ \A name \in Name : Exists(name) => dir[name].lines \subseteq lines
  /\ \A i \in DOMAIN archives : archives[i].lines \subseteq lines

\* the file that is open is there, and none is while files are archived
OpenInv ==
  /\ fd = "log" => Exists("log")
  /\ at \in Archived \/ (at \in Cleaning /\ back = "open") => fd = "none"
  /\ Exists("log") => dir.log.writer = Nobody
  /\ Exists("pending") => dir.pending.writer = Nobody

\* the process knows of the gzip of its life, and archives no file beside it
GzipInv ==
  /\ at \in Archived \cup Cleaning => ~zip_pid
  /\ gzip[crashes] # "none" => zip_pid /\ at \in {"idle", "open", "append"}
  /\ \A l \in Life : l > crashes => gzip[l] = "none"

\* while no gzip outlives its process, the files of a gzip are left to it
AloneInv ==
  ~outlived =>
    /\ \A l \in Life : Running(l) => l = crashes
    /\ gzip[crashes] \in {"writing", "whole"} =>
          Exists("gz") /\ Exists("pending") /\ dir.gz.lines = dir.pending.lines
    /\ gzip[crashes] = "writing" => dir.gz.writer = crashes
    /\ gzip[crashes] = "whole" => dir.gz.writer = Nobody

\* what is to be removed is owed, and nothing else is too many
OwedInv ==
  /\ left \in Nat /\ owed \in Nat /\ left <= owed
  /\ Len(archives) <= LogCount + owed

FilesInv == FilesTypeInv /\ ZipTypeInv /\ LinesInv /\ OpenInv /\ GzipInv

\* NoLineLost, file by file
InFile(f, l) == f # NoFile /\ f.writer = Nobody /\ l \in f.lines
InSomeFile(l) ==
  \/ InFile(dir.log, l) \/ InFile(dir.pending, l) \/ InFile(dir.gz, l)
  \/ \E i \in DOMAIN archives : InFile(archives[i], l)

\* What a directory of three names is.
LEMMA DirFacts ==
  ASSUME dir \in [Name -> FileType \cup {NoFile}]
  PROVE  /\ dir.log \in FileType \cup {NoFile} /\ dir.pending \in FileType \cup {NoFile}
         /\ dir.gz \in FileType \cup {NoFile}
         /\ dir["log"] = dir.log /\ dir["pending"] = dir.pending /\ dir["gz"] = dir.gz
BY DEF Name

\* A file made of lines, a time and a writer has these.
LEMMA FileFacts ==
  ASSUME NEW ls \in SUBSET (1 .. MaxLines), NEW m \in 1 .. MaxNow, NEW w \in Life \cup {Nobody}
  PROVE  /\ File(ls, m, w) \in FileType /\ File(ls, m, w) # NoFile
         /\ File(ls, m, w).lines = ls /\ File(ls, m, w).mtime = m /\ File(ls, m, w).writer = w
<1>1. File(ls, m, w) \in FileType
  BY DEF File, FileType
<1> QED
  BY <1>1, RotateAssumption DEF File

\* Nobody is no life of the process.
LEMMA NobodyFacts == Nobody \notin Life
BY DEF Nobody, Life

\* Completing a file leaves its lines, and a file that nobody writes.
LEMMA CompletedFacts ==
  ASSUME ZipTypeInv, NEW l \in Life, gzip[l] = "writing", NEW f \in FileType \cup {NoFile}
  PROVE  /\ Completed(f, l) \in FileType \cup {NoFile}
         /\ f = NoFile => Completed(f, l) = NoFile
         /\ f # NoFile => Completed(f, l) # NoFile /\ Completed(f, l) \in FileType
                          /\ Completed(f, l).lines = f.lines
         /\ f # NoFile /\ f.writer = l => Completed(f, l).writer = Nobody
         /\ f # NoFile /\ f.writer = Nobody => Completed(f, l) = f
<1>1. CASE f = NoFile
  BY <1>1 DEF Completed
<1>2. CASE f # NoFile /\ f.writer = l
  <2>1. f.lines \in SUBSET (1 .. MaxLines) /\ stamp[l] \in 1 .. MaxNow
    BY <1>2 DEF FileType, ZipTypeInv
  <2>2. Completed(f, l) = File(f.lines, stamp[l], Nobody)
    BY <1>2 DEF Completed
  <2> QED
    BY <1>2, <2>1, <2>2, FileFacts, NobodyFacts
<1>3. CASE f # NoFile /\ f.writer # l
  BY <1>3 DEF Completed
<1> QED
  BY <1>1, <1>2, <1>3

\* The size of a file is that of a set of lines.
LEMMA SizeFacts ==
  ASSUME NEW f \in FileType \cup {NoFile}
  PROVE  /\ Size(f) \in Nat
         /\ f # NoFile => /\ IsFiniteSet(f.lines) /\ Size(f) = Cardinality(f.lines)
                         /\ \A n \in Nat : f.lines \subseteq 1 .. n => Size(f) <= n
<1>1. CASE f = NoFile
  BY <1>1 DEF Size
<1>2. CASE f # NoFile
  <2>1. f.lines \subseteq 1 .. MaxLines
    BY <1>2 DEF FileType
  <2>2. \A n \in Nat : IsFiniteSet(1 .. n) /\ Cardinality(1 .. n) = n
    <3>1. ASSUME NEW n \in Nat PROVE IsFiniteSet(1 .. n) /\ Cardinality(1 .. n) = n
      BY FS_Interval, 1 \in Int, n \in Int
    <3> QED
      BY <3>1
  <2>3. IsFiniteSet(f.lines)
    BY <2>1, <2>2, FS_Subset, RotateAssumption
  <2>4. \A n \in Nat : f.lines \subseteq 1 .. n => Cardinality(f.lines) <= n
    BY <2>2, FS_Subset
  <2> QED
    BY <1>2, <2>3, <2>4, FS_CardinalityType DEF Size
<1> QED
  BY <1>1, <1>2

\* Removing one element of a sequence leaves the others.
LEMMA RemoveOne ==
  ASSUME NEW S, NEW s \in Seq(S), NEW i \in DOMAIN s
  PROVE  /\ RemoveAt(s, i) \in Seq(S) /\ Len(RemoveAt(s, i)) = Len(s) - 1
         /\ \A j \in DOMAIN RemoveAt(s, i) : \E k \in DOMAIN s : RemoveAt(s, i)[j] = s[k]
         /\ \A k \in DOMAIN s : k # i => \E j \in DOMAIN RemoveAt(s, i) : RemoveAt(s, i)[j] = s[k]
<1> DEFINE a == SubSeq(s, 1, i - 1)
           b == SubSeq(s, i + 1, Len(s))
<1>1. i \in 1 .. Len(s) /\ Len(s) \in Nat /\ DOMAIN s = 1 .. Len(s)
  OBVIOUS
<1>2. a \in Seq(S) /\ Len(a) = i - 1 /\ \A j \in 1 .. i - 1 : a[j] = s[j]
  BY <1>1, SubSeqProperties
<1>3. b \in Seq(S) /\ Len(b) = Len(s) - i /\ \A j \in 1 .. Len(s) - i : b[j] = s[i + j]
  BY <1>1, SubSeqProperties
<1> HIDE DEF a, b
<1>4. /\ a \o b \in Seq(S) /\ Len(a \o b) = Len(s) - 1
      /\ \A j \in 1 .. Len(a) + Len(b) : (a \o b)[j] = IF j <= Len(a) THEN a[j] ELSE b[j - Len(a)]
  <2>1. /\ a \o b \in Seq(S) /\ Len(a \o b) = Len(a) + Len(b)
        /\ \A j \in 1 .. Len(a) + Len(b) : (a \o b)[j] = IF j <= Len(a) THEN a[j] ELSE b[j - Len(a)]
    BY <1>2, <1>3, ConcatProperties
  <2> QED
    BY <1>1, <1>2, <1>3, <2>1
<1>5. RemoveAt(s, i) = a \o b
  BY DEF RemoveAt, a, b
<1>6. ASSUME NEW j \in 1 .. Len(s) - 1
      PROVE  /\ j < i => (a \o b)[j] = s[j] /\ j \in DOMAIN s
             /\ j >= i => (a \o b)[j] = s[j + 1] /\ j + 1 \in DOMAIN s
  <2>1. j \in 1 .. Len(a) + Len(b)
    BY <1>1, <1>2, <1>3
  <2>2. (a \o b)[j] = IF j <= Len(a) THEN a[j] ELSE b[j - Len(a)]
    BY <1>4, <2>1
  <2>3. CASE j < i
    <3>1. j <= Len(a) /\ j \in 1 .. i - 1 /\ j \in DOMAIN s
      BY <1>1, <1>2, <2>3
    <3> QED
      BY <1>2, <2>2, <2>3, <3>1
  <2>4. CASE j >= i
    <3>1. /\ ~(j <= Len(a)) /\ j - Len(a) \in 1 .. Len(s) - i /\ i + (j - Len(a)) = j + 1
          /\ j + 1 \in DOMAIN s
      BY <1>1, <1>2, <2>4
    <3>2. b[j - Len(a)] = s[i + (j - Len(a))]
      BY <1>3, <3>1
    <3> QED
      BY <2>2, <2>4, <3>1, <3>2
  <2> QED
    BY <1>1, <2>3, <2>4
<1>7. ASSUME NEW k \in DOMAIN s, k # i PROVE \E j \in 1 .. Len(s) - 1 : (a \o b)[j] = s[k]
  <2>1. CASE k < i
    <3>1. k \in 1 .. Len(s) - 1
      BY <1>1, <2>1
    <3> QED
      BY <1>6, <2>1, <3>1
  <2>2. CASE k > i
    <3>1. k - 1 \in 1 .. Len(s) - 1 /\ k - 1 >= i /\ (k - 1) + 1 = k
      BY <1>1, <2>2
    <3>2. (a \o b)[k - 1] = s[(k - 1) + 1]
      BY <1>6, <3>1
    <3> QED
      BY <3>1, <3>2
  <2>3. k < i \/ k > i
    BY <1>1, <1>7
  <2> QED
    BY <2>1, <2>2, <2>3
<1>8. DOMAIN (a \o b) = 1 .. Len(s) - 1
  BY <1>4
<1>9. \A j \in 1 .. Len(s) - 1 : \E k \in DOMAIN s : (a \o b)[j] = s[k]
  <2>1. ASSUME NEW j \in 1 .. Len(s) - 1 PROVE j < i \/ j >= i
    BY <1>1
  <2> QED
    BY <1>6, <2>1
<1> QED
  BY <1>4, <1>5, <1>7, <1>8, <1>9

\* The line in hand has a number, and with the open file makes a file.
LEMMA AppendedFile ==
  ASSUME FilesInv, AppendLine
  PROVE  /\ asked \in 1 .. MaxLines
         /\ fd = "log" => File(dir.log.lines \cup {asked}, now, Nobody) \in FileType
<1>1. asked \in 1 .. MaxLines
  BY RotateAssumption DEF FilesInv, FilesTypeInv, LinesInv, AppendLine, Written, LineInHand
<1>2. fd = "log" => dir.log \in FileType
  BY DirFacts DEF FilesInv, FilesTypeInv, OpenInv, Exists
<1>3. fd = "log" => dir.log.lines \cup {asked} \in SUBSET (1 .. MaxLines)
  BY <1>1, <1>2 DEF FileType
<1> QED
  BY <1>1, <1>3, FileFacts DEF FilesInv, FilesTypeInv

\* The steps that change no file.
Quiet ==
  \/ BeginWrite \/ AlreadyOpen \/ OpenFails \/ AppendFails \/ Fork \/ ExecFails \/ ForkFails
  \/ CountArchives \/ CountFails \/ RemoveFails \/ TrimDone
  \/ Tick \/ Crash \/ Stop \/ Start \/ UNCHANGED rotateVars

\* The steps that name an archive, or fail to.
Naming == ArchiveOldGz \/ WaitPid \/ ArchivePending

\* Every step is quiet or one of these.
LEMMA RotateCases ==
  [RotateNext]_rotateVars =>
    \/ Quiet \/ Naming \/ SetAside \/ RemoveOldest \/ OpenLog \/ AppendLine \/ DeleteLog
    \/ \E l \in Life : GzipOpen(l) \/ GzipWrite(l) \/ GzipUnlink(l) \/ GzipFails(l)
BY DEF RotateNext, Archiving, Trimming, Writing, Gzip, Quiet, Naming

\* Quiet steps leave files and histories of lines alone.
LEMMA QuietFacts ==
  ASSUME Quiet
  PROVE  UNCHANGED <<dir, archives, lines, deleted>>
<1> USE DEF files, history, process, options
<1>1. CASE BeginWrite \/ AlreadyOpen \/ OpenFails \/ AppendFails
  BY <1>1 DEF BeginWrite, AlreadyOpen, OpenFails, AppendFails
<1>2. CASE Fork \/ ExecFails \/ ForkFails
  BY <1>2 DEF Fork, ExecFails, ForkFails
<1>3. CASE CountArchives \/ CountFails \/ RemoveFails \/ TrimDone
  BY <1>3 DEF CountArchives, CountFails, RemoveFails, TrimDone
<1>4. CASE Tick \/ Crash \/ Stop \/ Start \/ UNCHANGED rotateVars
  BY <1>4 DEF Tick, Crash, Stop, Start, rotateVars
<1> QED
  BY <1>1, <1>2, <1>3, <1>4 DEF Quiet

\* The names that a step leaves alone, and what it makes of the others.
LEMMA DirEffects ==
  ASSUME FilesTypeInv
  PROVE  /\ SetAside => /\ archives' = archives
                        /\ \/ UNCHANGED dir
                           \/ /\ ~Exists("pending") /\ Exists("log")
                              /\ dir'.log = NoFile /\ dir'.pending = dir.log /\ dir'.gz = dir.gz
         /\ OpenLog => /\ Exists("log") => dir'.log = dir.log
                       /\ ~Exists("log") => dir'.log = File({}, now, Nobody)
                       /\ dir'.pending = dir.pending /\ dir'.gz = dir.gz /\ archives' = archives
         /\ AppendLine =>
               /\ IF fd = "log" THEN dir'.log = File(dir.log.lines \cup {asked}, now, Nobody)
                                ELSE dir'.log = dir.log
               /\ dir'.pending = dir.pending /\ dir'.gz = dir.gz /\ archives' = archives
         /\ DeleteLog => /\ dir'.log = NoFile /\ dir'.pending = dir.pending /\ dir'.gz = dir.gz
                         /\ archives' = archives
<1> USE DEF FilesTypeInv, Name
<1>1. SetAside => /\ archives' = archives
                  /\ \/ UNCHANGED dir
                     \/ /\ ~Exists("pending") /\ Exists("log")
                        /\ dir'.log = NoFile /\ dir'.pending = dir.log /\ dir'.gz = dir.gz
  BY DEF SetAside, Move, Exists
<1>2. OpenLog => /\ Exists("log") => dir'.log = dir.log
                 /\ ~Exists("log") => dir'.log = File({}, now, Nobody)
                 /\ dir'.pending = dir.pending /\ dir'.gz = dir.gz /\ archives' = archives
  <2>1. OpenLog => archives' = archives
                   /\ \E f : /\ dir' = [dir EXCEPT !.log = f]
                             /\ Exists("log") => f = dir.log
                             /\ ~Exists("log") => f = File({}, now, Nobody)
    BY DEF OpenLog, Exists
  <2> QED
    BY <2>1
<1>3. AppendLine =>
        /\ IF fd = "log" THEN dir'.log = File(dir.log.lines \cup {asked}, now, Nobody)
                         ELSE dir'.log = dir.log
        /\ dir'.pending = dir.pending /\ dir'.gz = dir.gz /\ archives' = archives
  BY DEF AppendLine
<1>4. DeleteLog => /\ dir'.log = NoFile /\ dir'.pending = dir.pending /\ dir'.gz = dir.gz
                   /\ archives' = archives
  BY DEF DeleteLog
<1> QED
  BY <1>1, <1>2, <1>3, <1>4

\* A step that names an archive moves one file, or nothing.
LEMMA NamingEffects ==
  ASSUME FilesTypeInv, Naming
  PROVE  \/ UNCHANGED <<dir, archives, owed>>
         \/ \E f \in FileType :
              /\ archives' = Append(archives, f) /\ owed' = owed + 1 /\ dir'.log = dir.log
              /\ \/ f = dir.gz /\ dir'.gz = NoFile /\ dir'.pending = dir.pending
                 \/ f = dir.pending /\ dir'.pending = NoFile /\ dir'.gz = dir.gz
<1> USE DEF FilesTypeInv, Name
<1>1. \/ UNCHANGED <<dir, archives, owed>>
      \/ Archive("gz") \/ Archive("pending")
  BY DEF Naming, ArchiveOldGz, WaitPid, ArchivePending, ArchiveFails, files
<1>2. CASE Archive("gz")
  <2>1. dir.gz \in FileType
    BY <1>2, DirFacts DEF Archive, Exists
  <2> QED
    BY <1>2, <2>1 DEF Archive
<1>3. CASE Archive("pending")
  <2>1. dir.pending \in FileType
    BY <1>3, DirFacts DEF Archive, Exists
  <2> QED
    BY <1>3, <2>1 DEF Archive
<1> QED
  BY <1>1, <1>2, <1>3

\* What the steps of a gzip make of the files, and of the gzips.
LEMMA GzipEffects ==
  ASSUME FilesTypeInv, ZipTypeInv, NEW l \in Life
  PROVE  /\ GzipOpen(l) => /\ dir'.log = dir.log /\ dir'.pending = dir.pending /\ archives' = archives
                           /\ dir'.gz = File(dir.pending.lines, now, l)
         /\ GzipWrite(l) => /\ dir'.log = Completed(dir.log, l)
                            /\ dir'.pending = Completed(dir.pending, l)
                            /\ dir'.gz = Completed(dir.gz, l)
                            /\ Len(archives') = Len(archives) /\ DOMAIN archives' = DOMAIN archives
                            /\ \A i \in DOMAIN archives : archives'[i] = Completed(archives[i], l)
         /\ GzipUnlink(l) => /\ dir'.log = dir.log /\ dir'.pending = NoFile /\ dir'.gz = dir.gz
                             /\ archives' = archives
         /\ GzipFails(l) => /\ dir'.log = dir.log /\ dir'.pending = dir.pending /\ archives' = archives
                            /\ dir'.gz = dir.gz \/ (gzip[l] = "writing" /\ dir'.gz = NoFile)
<1> USE DEF FilesTypeInv, Name
<1>1. /\ GzipOpen(l) => /\ dir'.log = dir.log /\ dir'.pending = dir.pending /\ archives' = archives
                        /\ dir'.gz = File(dir.pending.lines, now, l)
      /\ GzipUnlink(l) => /\ dir'.log = dir.log /\ dir'.pending = NoFile /\ dir'.gz = dir.gz
                          /\ archives' = archives
  BY DEF GzipOpen, GzipUnlink
<1>2. GzipFails(l) => /\ dir'.log = dir.log /\ dir'.pending = dir.pending /\ archives' = archives
                      /\ dir'.gz = dir.gz \/ (gzip[l] = "writing" /\ dir'.gz = NoFile)
  BY DEF GzipFails
<1>3. GzipWrite(l) => /\ dir'.log = Completed(dir.log, l)
                      /\ dir'.pending = Completed(dir.pending, l)
                      /\ dir'.gz = Completed(dir.gz, l)
  BY DEF GzipWrite
<1>4. GzipWrite(l) => /\ Len(archives') = Len(archives) /\ DOMAIN archives' = DOMAIN archives
                      /\ \A i \in DOMAIN archives : archives'[i] = Completed(archives[i], l)
  <2> SUFFICES ASSUME GzipWrite(l)
               PROVE  /\ Len(archives') = Len(archives) /\ DOMAIN archives' = DOMAIN archives
                      /\ \A i \in DOMAIN archives : archives'[i] = Completed(archives[i], l)
    OBVIOUS
  <2>1. archives' = [i \in DOMAIN archives |-> Completed(archives[i], l)]
    BY DEF GzipWrite
  <2>2. Len(archives) \in Nat /\ DOMAIN archives = 1 .. Len(archives)
    OBVIOUS
  <2>3. \A i \in DOMAIN archives : Completed(archives[i], l) \in FileType
    BY CompletedFacts, RotateAssumption DEF GzipWrite
  <2>4. archives' \in Seq(FileType) /\ Len(archives') = Len(archives)
    BY <2>1, <2>2, <2>3
  <2> QED
    BY <2>1, <2>4
<1> QED
  BY <1>1, <1>2, <1>3, <1>4

\* What a step of a gzip leaves alone.
LEMMA GzipLeaves ==
  ASSUME NEW l \in Life, GzipOpen(l) \/ GzipWrite(l) \/ GzipUnlink(l) \/ GzipFails(l)
  PROVE  /\ UNCHANGED <<process, history, at, trimming, now, asked>>
         /\ Running(l)
BY DEF GzipOpen, GzipWrite, GzipUnlink, GzipFails, Running

\* The types are kept: a line in hand has a number, and a file that is closed,
\* moved or opened is there.
LEMMA FilesTypeNext ==
  ASSUME FilesInv, [RotateNext]_rotateVars
  PROVE  FilesTypeInv'
<1>0. FilesTypeInv /\ ZipTypeInv
  BY DEF FilesInv
<1> USE DEF process, options, files, history, trimming, Archived, Cleaning, Written, LineInHand
<1>1. CASE Quiet
  <2>0. UNCHANGED <<dir, archives>>
    BY <1>1, QuietFacts
  <2>1. CASE BeginWrite
    BY <1>0, <2>0, <2>1, RotateAssumption DEF FilesTypeInv, BeginWrite
  <2>2. CASE AlreadyOpen
    BY <1>0, <2>0, <2>2 DEF FilesTypeInv, AlreadyOpen
  <2>3. CASE OpenFails
    BY <1>0, <2>0, <2>3 DEF FilesTypeInv, OpenFails
  <2>4. CASE AppendFails
    BY <1>0, <2>0, <2>4 DEF FilesTypeInv, AppendFails
  <2>5. CASE Fork \/ ExecFails \/ ForkFails
    BY <1>0, <2>0, <2>5 DEF FilesTypeInv, Fork, ExecFails, ForkFails
  <2>6. CASE CountArchives \/ CountFails \/ RemoveFails \/ TrimDone
    BY <1>0, <2>0, <2>6 DEF FilesTypeInv, CountArchives, CountFails, RemoveFails, TrimDone
  <2>7. CASE Tick
    BY <1>0, <2>0, <2>7, RotateAssumption DEF FilesTypeInv, Tick
  <2>8. CASE Crash
    <3>1. outlived' \in BOOLEAN
      BY <1>0, <2>8 DEF FilesTypeInv, Crash
    <3> QED
      BY <1>0, <2>0, <2>8, <3>1 DEF FilesTypeInv, Crash
  <2>9. CASE Stop
    BY <1>0, <2>0, <2>9 DEF FilesTypeInv, Stop
  <2>10. CASE Start
    <3>1. nocompress' \in BOOLEAN
      BY <1>0, <2>10 DEF Start, Started, FilesTypeInv
    <3>2. 0 \in 0 .. now
      BY <1>0, RotateAssumption DEF FilesTypeInv
    <3> QED
      BY <1>0, <2>0, <2>10, <3>1, <3>2 DEF FilesTypeInv, Start, Started
  <2>11. CASE UNCHANGED rotateVars
    BY <1>0, <2>11 DEF FilesTypeInv, rotateVars
  <2> QED
    BY <1>1, <2>1, <2>2, <2>3, <2>4, <2>5, <2>6, <2>7, <2>8, <2>9, <2>10, <2>11 DEF Quiet
<1>2. CASE Naming
  <2>1. \A f \in FileType : Append(archives, f) \in Seq(FileType)
    BY <1>0 DEF FilesTypeInv
  <2>2. /\ dir["gz"] # NoFile => dir["gz"] \in FileType
        /\ dir["pending"] # NoFile => dir["pending"] \in FileType
        /\ [dir EXCEPT !["gz"] = NoFile] \in [Name -> FileType \cup {NoFile}]
        /\ [dir EXCEPT !["pending"] = NoFile] \in [Name -> FileType \cup {NoFile}]
    BY <1>0 DEF FilesTypeInv, Name
  <2>3. /\ dir' \in [Name -> FileType \cup {NoFile}] /\ archives' \in Seq(FileType)
    BY <1>0, <1>2, <2>1, <2>2
    DEF FilesTypeInv, Naming, ArchiveOldGz, ArchivePending, WaitPid, Archive, ArchiveFails, Exists
  <2> QED
    BY <1>0, <1>2, <2>3 DEF FilesTypeInv, Naming, ArchiveOldGz, ArchivePending, WaitPid, Reaped
<1>3. CASE SetAside
  BY <1>0, <1>3 DEF FilesTypeInv, SetAside, HavePending, Move, Exists, Name
<1>4. CASE RemoveOldest
  <2>1. \A i \in DOMAIN archives : RemoveAt(archives, i) \in Seq(FileType)
    BY <1>0, RemoveOne DEF FilesTypeInv
  <2> QED
    BY <1>0, <1>4, <2>1 DEF FilesTypeInv, RemoveOldest
<1>5. CASE OpenLog
  <2>1. File({}, now, Nobody) \in FileType
    BY <1>0, FileFacts DEF FilesTypeInv
  <2>2. Size(dir.log) \in Nat
    BY <1>0, DirFacts, SizeFacts DEF FilesTypeInv
  <2>3. dir.log \in FileType \cup {NoFile}
    BY <1>0, DirFacts DEF FilesTypeInv
  <2>4. dir' \in [Name -> FileType \cup {NoFile}]
    <3>1. PICK f \in FileType \cup {NoFile} : dir' = [dir EXCEPT !.log = f]
      BY <1>5, <2>1, <2>3 DEF OpenLog
    <3> QED
      BY <1>0, <3>1 DEF FilesTypeInv, Name
  <2>5. 0 \in 0 .. now
    BY <1>0, RotateAssumption DEF FilesTypeInv
  <2> QED
    BY <1>0, <1>5, <2>2, <2>4, <2>5 DEF FilesTypeInv, OpenLog
<1>6. CASE AppendLine
  <2>1. dir' \in [Name -> FileType \cup {NoFile}]
    BY <1>0, <1>6, AppendedFile DEF FilesTypeInv, AppendLine, Name
  <2> QED
    BY <1>0, <1>6, <2>1 DEF FilesTypeInv, AppendLine
<1>7. CASE DeleteLog
  BY <1>0, <1>7 DEF FilesTypeInv, DeleteLog, Name
<1>8. ASSUME NEW l \in Life, GzipOpen(l) \/ GzipWrite(l) \/ GzipUnlink(l) \/ GzipFails(l)
      PROVE  FilesTypeInv'
  <2>1. CASE GzipOpen(l)
    <3>1. dir.pending \in FileType /\ now \in 1 .. MaxNow
      BY <1>0, <2>1, DirFacts DEF GzipOpen, FilesTypeInv, Exists
    <3>2. dir.pending.lines \in SUBSET (1 .. MaxLines)
      BY <3>1 DEF FileType
    <3>3. File(dir.pending.lines, now, l) \in FileType
      BY <3>1, <3>2, FileFacts
    <3>4. dir' \in [Name -> FileType \cup {NoFile}] /\ archives' = archives
      BY <1>0, <2>1, <3>3 DEF FilesTypeInv, GzipOpen, Name
    <3> QED
      BY <1>0, <2>1, <3>4, GzipLeaves DEF FilesTypeInv
  <2>2. CASE GzipWrite(l)
    <3>1. /\ \A f \in FileType \cup {NoFile} : Completed(f, l) \in FileType \cup {NoFile}
          /\ \A f \in FileType : Completed(f, l) \in FileType
      BY <1>0, <2>2, CompletedFacts, RotateAssumption DEF GzipWrite
    <3>2. dir' \in [Name -> FileType \cup {NoFile}]
      BY <1>0, <2>2, <3>1 DEF FilesTypeInv, GzipWrite, Name
    <3>3. archives' \in Seq(FileType)
      <4>1. archives' = [i \in DOMAIN archives |-> Completed(archives[i], l)]
        BY <2>2 DEF GzipWrite
      <4>2. archives \in Seq(FileType)
        BY <1>0 DEF FilesTypeInv
      <4>3. \A i \in DOMAIN archives : Completed(archives[i], l) \in FileType
        BY <3>1, <4>2
      <4> QED
        BY <4>1, <4>2, <4>3
    <3> QED
      BY <1>0, <2>2, <3>2, <3>3, GzipLeaves DEF FilesTypeInv
  <2>3. CASE GzipUnlink(l) \/ GzipFails(l)
    <3>1. dir' \in [Name -> FileType \cup {NoFile}] /\ archives' = archives
      BY <1>0, <2>3 DEF FilesTypeInv, GzipUnlink, GzipFails, Name
    <3> QED
      BY <1>0, <2>3, <3>1, GzipLeaves DEF FilesTypeInv
  <2> QED
    BY <1>8, <2>1, <2>2, <2>3
<1> QED
  BY <1>1, <1>2, <1>3, <1>4, <1>5, <1>6, <1>7, <1>8, RotateCases

\* The steps that change what the gzips are at.
Zipping ==
  \/ Fork \/ ExecFails \/ WaitPid \/ Crash
  \/ \E l \in Life : GzipOpen(l) \/ GzipWrite(l) \/ GzipUnlink(l) \/ GzipFails(l)

\* Only they do.
LEMMA ZipLeft ==
  ASSUME [RotateNext]_rotateVars, ~Zipping
  PROVE  UNCHANGED <<gzip, stamp, crashes, outlived>>
<1> USE DEF zip, history, files
<1>1. CASE BeginWrite \/ AlreadyOpen \/ OpenFails \/ AppendFails \/ ForkFails
  BY <1>1 DEF BeginWrite, AlreadyOpen, OpenFails, AppendFails, ForkFails
<1>2. CASE CountArchives \/ CountFails \/ RemoveFails \/ TrimDone \/ RemoveOldest
  BY <1>2 DEF CountArchives, CountFails, RemoveFails, TrimDone, RemoveOldest
<1>3. CASE Tick \/ Stop \/ Start \/ DeleteLog \/ UNCHANGED rotateVars
  BY <1>3 DEF Tick, Stop, Start, DeleteLog, rotateVars
<1>4. CASE ArchiveOldGz \/ ArchivePending \/ SetAside \/ OpenLog \/ AppendLine
  BY <1>4 DEF ArchiveOldGz, ArchivePending, SetAside, OpenLog, AppendLine
<1> QED
  BY <1>1, <1>2, <1>3, <1>4, RotateCases DEF Quiet, Naming, Zipping

\* Where the gzips are after each step that changes it.
LEMMA ZipEffects ==
  ASSUME ZipTypeInv
  PROVE  /\ Fork => /\ gzip' = [gzip EXCEPT ![crashes] = "new"]
                    /\ UNCHANGED <<stamp, crashes, outlived>>
         /\ ExecFails => /\ gzip' = [gzip EXCEPT ![crashes] = "exited"]
                         /\ UNCHANGED <<stamp, crashes, outlived>>
         /\ WaitPid => /\ gzip' = [gzip EXCEPT ![crashes] = "none"]
                       /\ UNCHANGED <<stamp, crashes, outlived>>
         /\ \A l \in Life : GzipOpen(l) \/ GzipWrite(l) \/ GzipUnlink(l) \/ GzipFails(l) =>
              \E x \in {"writing", "whole", "exited"} :
                /\ gzip' = [gzip EXCEPT ![l] = x] /\ UNCHANGED <<crashes, outlived>>
                /\ \E t : stamp' = [stamp EXCEPT ![l] = t]
                /\ x = "writing" => GzipOpen(l)
                /\ x = "whole" => GzipWrite(l)
<1> USE DEF history
<1>1. /\ Fork => /\ gzip' = [gzip EXCEPT ![crashes] = "new"]
                 /\ UNCHANGED <<stamp, crashes, outlived>>
      /\ ExecFails => /\ gzip' = [gzip EXCEPT ![crashes] = "exited"]
                      /\ UNCHANGED <<stamp, crashes, outlived>>
      /\ WaitPid => /\ gzip' = [gzip EXCEPT ![crashes] = "none"]
                    /\ UNCHANGED <<stamp, crashes, outlived>>
  BY DEF Fork, ExecFails, WaitPid, Reaped
<1>2. ASSUME NEW l \in Life, GzipOpen(l) \/ GzipWrite(l) \/ GzipUnlink(l) \/ GzipFails(l)
      PROVE  \E x \in {"writing", "whole", "exited"} :
                /\ gzip' = [gzip EXCEPT ![l] = x] /\ UNCHANGED <<crashes, outlived>>
                /\ \E t : stamp' = [stamp EXCEPT ![l] = t]
                /\ x = "writing" => GzipOpen(l)
                /\ x = "whole" => GzipWrite(l)
  <2>1. stamp = [stamp EXCEPT ![l] = stamp[l]]
    BY DEF ZipTypeInv
  <2> QED
    BY <1>2, <2>1 DEF GzipOpen, GzipWrite, GzipUnlink, GzipFails
<1> QED
  BY <1>1, <1>2

\* The types of the gzips are kept.
LEMMA ZipTypeNext ==
  ASSUME FilesInv, [RotateNext]_rotateVars
  PROVE  ZipTypeInv'
<1>0. FilesTypeInv /\ ZipTypeInv /\ MaxNow \in Nat /\ MaxNow # 0
  BY RotateAssumption DEF FilesInv
<1> USE DEF ZipTypeInv
<1>1. CASE ~Zipping
  BY <1>0, <1>1, ZipLeft
<1>2. CASE Fork \/ ExecFails \/ WaitPid
  <2>1. PICK x \in {"new", "exited", "none"} :
           gzip' = [gzip EXCEPT ![crashes] = x] /\ UNCHANGED <<stamp, crashes, outlived>>
    BY <1>0, <1>2, ZipEffects
  <2> QED
    BY <1>0, <2>1
<1>3. CASE Crash
  <2>1. PICK survivors \in SUBSET Life :
           /\ gzip' = [l \in Life |-> IF l \in survivors THEN gzip[l] ELSE "none"]
           /\ stamp' = [l \in Life |-> IF l \in survivors THEN stamp[l] ELSE 0]
    BY <1>3 DEF Crash
  <2>2. crashes' \in Life
    BY <1>0, <1>3, RotateAssumption DEF Crash, Life
  <2> QED
    BY <1>0, <2>1, <2>2
<1>4. ASSUME NEW l \in Life, GzipOpen(l) \/ GzipWrite(l) \/ GzipUnlink(l) \/ GzipFails(l)
      PROVE  ZipTypeInv'
  <2>1. UNCHANGED crashes
    BY <1>4, GzipLeaves DEF history
  <2>2. CASE GzipOpen(l)
    <3>1. dir.pending \in FileType
      BY <1>0, <2>2, DirFacts DEF GzipOpen, FilesTypeInv, Exists
    <3>2. dir.pending.mtime \in 1 .. MaxNow
      BY <3>1 DEF FileType
    <3> QED
      BY <1>0, <2>1, <2>2, <3>2 DEF GzipOpen
  <2>3. CASE GzipWrite(l) \/ GzipUnlink(l) \/ GzipFails(l)
    BY <1>0, <2>1, <2>3 DEF GzipWrite, GzipUnlink, GzipFails
  <2> QED
    BY <1>4, <2>2, <2>3
<1> QED
  BY <1>1, <1>2, <1>3, <1>4 DEF Zipping

\* Where a step leaves the line in hand.
LEMMA HandNext ==
  ASSUME FilesTypeInv, [RotateNext]_rotateVars
  PROVE  \/ asked' = asked /\ (LineInHand' => LineInHand)
         \/ asked' = asked + 1 /\ LineInHand' /\ ~LineInHand
<1> USE DEF LineInHand, Archived, Cleaning, trimming
<1>1. CASE BeginWrite
  BY <1>1 DEF BeginWrite
<1>2. CASE Writing
  BY <1>2 DEF Writing, AlreadyOpen, OpenLog, OpenFails, AppendLine, AppendFails
<1>3. CASE ArchiveOldGz \/ SetAside \/ ArchivePending
  BY <1>3 DEF ArchiveOldGz, SetAside, HavePending, ArchivePending
<1>4. CASE Fork \/ ExecFails \/ ForkFails
  BY <1>4 DEF Fork, ExecFails, ForkFails
<1>5. CASE Trimming
  BY <1>5 DEF Trimming, CountArchives, CountFails, RemoveOldest, RemoveFails, TrimDone, FilesTypeInv
<1>6. CASE Gzip
  BY <1>6, GzipLeaves DEF Gzip
<1>7. CASE WaitPid
  BY <1>7 DEF WaitPid, Reaped
<1>8. CASE DeleteLog \/ Tick \/ Crash \/ Stop \/ Start \/ UNCHANGED rotateVars
  BY <1>8 DEF DeleteLog, Tick, Crash, Stop, Start, rotateVars
<1> QED
  BY <1>1, <1>2, <1>3, <1>4, <1>5, <1>6, <1>7, <1>8 DEF RotateNext, Archiving

\* The lines that may be in files become more only.
LEMMA WrittenNext ==
  ASSUME FilesInv, [RotateNext]_rotateVars
  PROVE  Written \in Nat /\ Written' \in Nat /\ Written <= Written'
<1>1. asked \in Nat /\ 0 <= Written
  BY RotateAssumption DEF FilesInv, FilesTypeInv, LinesInv
<1>2. \/ asked' = asked /\ (LineInHand' => LineInHand)
      \/ asked' = asked + 1 /\ LineInHand' /\ ~LineInHand
  BY HandNext DEF FilesInv
<1>3. CASE LineInHand
  BY <1>1, <1>2, <1>3 DEF Written
<1>4. CASE ~LineInHand
  BY <1>1, <1>2, <1>4 DEF Written
<1> QED
  BY <1>3, <1>4

\* Appending the line in hand makes it the last that is in a file.
LEMMA AppendNext ==
  ASSUME FilesInv, AppendLine
  PROVE  Written \in Nat /\ asked = Written + 1 /\ Written' = asked
<1>1. asked \in Nat /\ 0 <= Written /\ LineInHand /\ ~LineInHand' /\ asked' = asked
  BY RotateAssumption
  DEF FilesInv, FilesTypeInv, LinesInv, AppendLine, LineInHand, Archived, Cleaning
<1> QED
  BY <1>1 DEF Written

\* filesize counts lines that were written.
LEMMA FilesizeNext ==
  ASSUME FilesInv, [RotateNext]_rotateVars
  PROVE  filesize' <= Written'
<1>0. filesize \in Nat /\ filesize <= Written /\ Written \in Nat /\ Written' \in Nat /\ Written <= Written'
  <2>1. filesize \in Nat
    BY DEF FilesInv, FilesTypeInv
  <2>2. filesize <= Written
    BY DEF FilesInv, LinesInv
  <2> QED
    BY <2>1, <2>2, WrittenNext
<1>1. CASE AppendLine
  <2>1. filesize' = filesize + 1
    BY <1>1 DEF AppendLine
  <2>2. Written' = Written + 1
    BY <1>1, AppendNext
  <2> QED
    BY <1>0, <2>1, <2>2
<1>2. CASE OpenLog
  <2>1. dir.log \in FileType \cup {NoFile}
    BY DirFacts DEF FilesInv, FilesTypeInv
  <2>2. dir.log # NoFile => dir.log.lines \subseteq 1 .. Written
    BY DEF FilesInv, LinesInv, Exists, Name
  <2>3. Size(dir.log) \in Nat /\ Size(dir.log) <= Written
    BY <1>0, <2>1, <2>2, SizeFacts DEF Size
  <2> QED
    BY <1>0, <1>2, <2>3 DEF OpenLog
<1>3. CASE filesize' \in {0, filesize}
  BY <1>0, <1>3
<1>4. filesize' \in {0, filesize} \/ AppendLine \/ OpenLog
  <2> USE DEF process, options
  <2>1. CASE BeginWrite \/ AlreadyOpen \/ OpenFails \/ AppendFails
    BY <2>1 DEF BeginWrite, AlreadyOpen, OpenFails, AppendFails
  <2>2. CASE Archiving
    BY <2>2 DEF Archiving, ArchiveOldGz, SetAside, ArchivePending, Fork, ExecFails, ForkFails
  <2>3. CASE Trimming
    BY <2>3 DEF Trimming, CountArchives, CountFails, RemoveOldest, RemoveFails, TrimDone
  <2>4. CASE Gzip \/ WaitPid \/ DeleteLog
    BY <2>4, GzipLeaves DEF Gzip, WaitPid, DeleteLog
  <2>5. CASE Tick \/ Crash \/ Stop \/ Start \/ UNCHANGED rotateVars
    BY <2>5 DEF Tick, Crash, Stop, Start, Started, rotateVars
  <2> QED
    BY <2>1, <2>2, <2>3, <2>4, <2>5 DEF RotateNext, Writing
<1> QED
  BY <1>1, <1>2, <1>3, <1>4

\* Every file holds lines that were written.
LEMMA LinesNext ==
  ASSUME FilesInv, [RotateNext]_rotateVars
  PROVE  LinesInv'
<1>0. FilesTypeInv /\ ZipTypeInv /\ LinesInv
  BY DEF FilesInv
<1> DEFINE Known(f) == f # NoFile => f.lines \subseteq lines'
<1>1. /\ Written \in Nat /\ Written' \in Nat /\ Written <= Written' /\ filesize' <= Written'
  BY WrittenNext, FilesizeNext
<1>2. /\ \/ UNCHANGED lines
         \/ AppendLine /\ lines' = lines \cup {asked}
      /\ lines \subseteq lines' /\ lines' \subseteq 1 .. Written'
  <2>1. UNCHANGED lines \/ (AppendLine /\ lines' = lines \cup {asked})
    <3>1. CASE Quiet
      BY <3>1, QuietFacts
    <3>2. CASE \E l \in Life : GzipOpen(l) \/ GzipWrite(l) \/ GzipUnlink(l) \/ GzipFails(l)
      BY <3>2, GzipLeaves DEF history
    <3>3. CASE Naming \/ SetAside \/ RemoveOldest \/ OpenLog \/ AppendLine \/ DeleteLog
      BY <3>3
      DEF Naming, ArchiveOldGz, WaitPid, ArchivePending, SetAside, RemoveOldest, OpenLog, AppendLine,
          DeleteLog, history
    <3> QED
      BY <3>1, <3>2, <3>3, RotateCases
  <2>2. lines \subseteq 1 .. Written
    BY <1>0 DEF LinesInv
  <2>3. 1 .. Written \subseteq 1 .. Written'
    BY <1>1
  <2>4. AppendLine => asked \in 1 .. Written'
    BY <1>1, AppendNext
  <2> QED
    BY <2>1, <2>2, <2>3, <2>4
<1>3. /\ Known(dir.log) /\ Known(dir.pending) /\ Known(dir.gz)
      /\ \A i \in DOMAIN archives : Known(archives[i])
  BY <1>0, <1>2 DEF LinesInv, Exists, Name
<1>4. /\ dir.log \in FileType \cup {NoFile} /\ dir.pending \in FileType \cup {NoFile}
      /\ dir.gz \in FileType \cup {NoFile} /\ archives \in Seq(FileType)
      /\ \A f \in FileType : f # NoFile
  BY <1>0, DirFacts, RotateAssumption DEF FilesTypeInv
<1>5. /\ Known(dir'.log) /\ Known(dir'.pending) /\ Known(dir'.gz)
      /\ \A i \in DOMAIN archives' : Known(archives'[i])
      /\ deleted' \subseteq lines'
  <2>0. deleted \subseteq lines'
    BY <1>0, <1>2 DEF LinesInv
  <2>1. CASE Quiet
    BY <1>3, <2>0, <2>1, QuietFacts
  <2>2. CASE Naming
    <3>1. UNCHANGED deleted
      BY <2>2 DEF Naming, ArchiveOldGz, WaitPid, ArchivePending
    <3>2. CASE UNCHANGED <<dir, archives>>
      BY <1>3, <2>0, <3>1, <3>2
    <3>3. CASE ~UNCHANGED <<dir, archives>>
      <4>1. PICK f \in FileType :
              /\ archives' = Append(archives, f) /\ dir'.log = dir.log
              /\ \/ f = dir.gz /\ dir'.gz = NoFile /\ dir'.pending = dir.pending
                 \/ f = dir.pending /\ dir'.pending = NoFile /\ dir'.gz = dir.gz
        BY <1>0, <2>2, <3>3, NamingEffects
      <4>2. \A i \in DOMAIN archives' : archives'[i] = f \/ (i \in DOMAIN archives /\ archives'[i] = archives[i])
        BY <1>4, <4>1
      <4> QED
        BY <1>3, <2>0, <3>1, <4>1, <4>2
    <3> QED
      BY <3>2, <3>3
  <2>3. CASE SetAside
    <3>1. UNCHANGED deleted
      BY <2>3 DEF SetAside, history
    <3> QED
      BY <1>0, <1>3, <2>0, <2>3, <3>1, DirEffects
  <2>4. CASE RemoveOldest
    <3>1. PICK i \in DOMAIN archives : /\ archives' = RemoveAt(archives, i)
                                       /\ deleted' = deleted \cup archives[i].lines
                                       /\ dir' = dir
      BY <2>4 DEF RemoveOldest
    <3>2. \A j \in DOMAIN archives' : \E k \in DOMAIN archives : archives'[j] = archives[k]
      BY <1>4, <3>1, RemoveOne
    <3>3. archives[i] \in FileType
      BY <1>4, <3>1
    <3> QED
      BY <1>3, <1>4, <2>0, <3>1, <3>2, <3>3
  <2>5. CASE OpenLog
    <3>1. UNCHANGED deleted /\ File({}, now, Nobody).lines = {}
      BY <2>5 DEF OpenLog, history, File
    <3> QED
      BY <1>0, <1>3, <2>0, <2>5, <3>1, DirEffects DEF Exists
  <2>6. CASE AppendLine
    <3>1. /\ deleted' \subseteq deleted \cup {asked} /\ lines' = lines \cup {asked}
          /\ File(dir.log.lines \cup {asked}, now, Nobody).lines = dir.log.lines \cup {asked}
      BY <2>6 DEF AppendLine, File
    <3>2. fd = "log" => dir.log # NoFile
      BY DEF FilesInv, OpenInv, Exists
    <3> QED
      BY <1>0, <1>3, <2>0, <2>6, <3>1, <3>2, DirEffects
  <2>7. CASE DeleteLog
    <3>1. deleted' = deleted \cup dir.log.lines /\ dir.log # NoFile
      BY <2>7 DEF DeleteLog, Exists
    <3> QED
      BY <1>0, <1>3, <2>0, <2>7, <3>1, DirEffects
  <2>8. ASSUME NEW l \in Life, GzipOpen(l) \/ GzipWrite(l) \/ GzipUnlink(l) \/ GzipFails(l)
        PROVE  /\ Known(dir'.log) /\ Known(dir'.pending) /\ Known(dir'.gz)
               /\ \A i \in DOMAIN archives' : Known(archives'[i])
               /\ deleted' \subseteq lines'
    <3>0. UNCHANGED deleted
      BY <2>8, GzipLeaves DEF history
    <3>1. CASE GzipOpen(l)
      <4>1. File(dir.pending.lines, now, l).lines = dir.pending.lines /\ dir.pending # NoFile
        BY <3>1 DEF GzipOpen, File, Exists
      <4> QED
        BY <1>0, <1>3, <2>0, <3>0, <3>1, <4>1, GzipEffects
    <3>2. CASE GzipWrite(l)
      <4>1. \A f \in FileType \cup {NoFile} : Known(f) => Known(Completed(f, l))
        BY <1>0, <3>2, CompletedFacts DEF GzipWrite
      <4>2. /\ dir'.log = Completed(dir.log, l) /\ dir'.pending = Completed(dir.pending, l)
            /\ dir'.gz = Completed(dir.gz, l) /\ DOMAIN archives' = DOMAIN archives
            /\ \A i \in DOMAIN archives : archives'[i] = Completed(archives[i], l)
        BY <1>0, <3>2, GzipEffects
      <4>3. \A i \in DOMAIN archives : archives[i] \in FileType
        BY <1>4
      <4> HIDE DEF Known
      <4> QED
        BY <1>3, <1>4, <2>0, <3>0, <4>1, <4>2, <4>3
    <3>3. CASE GzipUnlink(l) \/ GzipFails(l)
      BY <1>0, <1>3, <2>0, <3>0, <3>3, GzipEffects
    <3> QED
      BY <2>8, <3>1, <3>2, <3>3
  <2> QED
    BY <2>1, <2>2, <2>3, <2>4, <2>5, <2>6, <2>7, <2>8, RotateCases
<1>6. \A name \in Name : dir'[name] # NoFile => dir'[name].lines \subseteq lines'
  BY <1>5 DEF Name
<1>7. \A i \in DOMAIN archives' : archives'[i].lines \subseteq lines'
  <2>1. archives' \in Seq(FileType)
    BY FilesTypeNext DEF FilesTypeInv
  <2> QED
    BY <1>4, <1>5, <2>1
<1> QED
  BY <1>1, <1>2, <1>5, <1>6, <1>7 DEF LinesInv, Exists

\* The file that is open stays there, and the files that are read are whole.
LEMMA OpenNext ==
  ASSUME FilesInv, [RotateNext]_rotateVars
  PROVE  OpenInv'
<1>0. FilesTypeInv /\ ZipTypeInv /\ OpenInv /\ GzipInv
  BY DEF FilesInv
<1> USE DEF OpenInv, Archived, Cleaning, Exists
<1>1. CASE Quiet
  <2>1. UNCHANGED dir
    BY <1>1, QuietFacts
  <2>2. CASE BeginWrite
    BY <1>0, <2>1, <2>2 DEF BeginWrite
  <2>3. CASE AlreadyOpen \/ OpenFails \/ AppendFails
    BY <1>0, <2>1, <2>3 DEF AlreadyOpen, OpenFails, AppendFails, process
  <2>4. CASE Fork \/ ExecFails \/ ForkFails
    BY <1>0, <2>1, <2>4 DEF Fork, ExecFails, ForkFails
  <2>5. CASE CountArchives \/ CountFails \/ RemoveFails \/ TrimDone
    BY <1>0, <2>1, <2>5
    DEF CountArchives, CountFails, RemoveFails, TrimDone, process, trimming, FilesTypeInv
  <2>6. CASE Tick \/ Crash \/ Stop \/ Start \/ UNCHANGED rotateVars
    BY <1>0, <2>1, <2>6 DEF Tick, Crash, Stop, Start, Started, rotateVars, process, trimming
  <2> QED
    BY <1>1, <2>2, <2>3, <2>4, <2>5, <2>6 DEF Quiet
<1>2. CASE Naming
  <2>1. dir'.log = dir.log /\ dir'.pending \in {NoFile, dir.pending}
    BY <1>0, <1>2, NamingEffects
  <2>2. fd' = fd /\ (at' \in Archived \/ (at' \in Cleaning /\ back' = "open") => at \in Archived)
    BY <1>0, <1>2 DEF Naming, ArchiveOldGz, WaitPid, Reaped, ArchivePending, process
  <2> QED
    BY <1>0, <2>1, <2>2
<1>3. CASE SetAside
  <2>1. fd' = fd /\ at \in Archived
    BY <1>3 DEF SetAside, process
  <2> QED
    BY <1>0, <1>3, <2>1, DirEffects
<1>4. CASE RemoveOldest
  BY <1>0, <1>4 DEF RemoveOldest, process
<1>5. CASE OpenLog
  <2>1. /\ fd' = "log" /\ at' = "append"
        /\ File({}, now, Nobody).writer = Nobody /\ File({}, now, Nobody) # NoFile
    BY <1>0, <1>5, FileFacts DEF OpenLog, FilesTypeInv
  <2> QED
    BY <1>0, <1>5, <2>1, DirEffects
<1>6. CASE AppendLine
  <2>1. fd' = fd /\ at' = "idle"
    BY <1>6 DEF AppendLine
  <2>2. File(dir.log.lines \cup {asked}, now, Nobody).writer = Nobody
    BY DEF File
  <2>3. fd = "log" => dir'.log # NoFile
    BY <1>0, <1>6, AppendedFile, RotateAssumption, DirEffects
  <2> QED
    BY <1>0, <1>6, <2>1, <2>2, <2>3, DirEffects
<1>7. CASE DeleteLog
  <2>1. fd' # "log" /\ (fd = "none" => fd' = "none") /\ at' = at /\ back' = back
    BY <1>7 DEF DeleteLog, trimming
  <2> QED
    BY <1>0, <1>7, <2>1, DirEffects
<1>8. ASSUME NEW l \in Life, GzipOpen(l) \/ GzipWrite(l) \/ GzipUnlink(l) \/ GzipFails(l)
      PROVE  OpenInv'
  <2>1. fd' = fd /\ at' = at /\ back' = back
    BY <1>8, GzipLeaves DEF process, trimming
  <2>2. dir'.log = dir.log /\ dir'.pending \in {NoFile, dir.pending}
    <3>1. CASE GzipWrite(l)
      <4>1. dir.log \in FileType \cup {NoFile} /\ dir.pending \in FileType \cup {NoFile}
        BY <1>0, DirFacts DEF FilesTypeInv
      <4>2. Completed(dir.log, l) = dir.log /\ Completed(dir.pending, l) = dir.pending
        BY <1>0, <3>1, <4>1, CompletedFacts DEF GzipWrite
      <4> QED
        BY <1>0, <3>1, <4>2, GzipEffects
    <3>2. CASE ~GzipWrite(l)
      BY <1>0, <1>8, <3>2, GzipEffects
    <3> QED
      BY <3>1, <3>2
  <2> QED
    BY <1>0, <2>1, <2>2
<1> QED
  BY <1>1, <1>2, <1>3, <1>4, <1>5, <1>6, <1>7, <1>8, RotateCases

\* The gzip of this life runs only while no file is archived.
LEMMA GzipNext ==
  ASSUME FilesInv, [RotateNext]_rotateVars
  PROVE  GzipInv'
<1>0. FilesTypeInv /\ ZipTypeInv /\ GzipInv /\ crashes \in Life
  BY DEF FilesInv, ZipTypeInv
<1> USE DEF GzipInv, Archived, Cleaning
<1>1. CASE ~Zipping
  <2>1. UNCHANGED <<gzip, crashes>>
    BY <1>1, ZipLeft
  <2>2. CASE BeginWrite
    BY <1>0, <2>1, <2>2 DEF BeginWrite
  <2>3. CASE AlreadyOpen \/ OpenLog \/ OpenFails \/ AppendLine \/ AppendFails
    BY <1>0, <2>1, <2>3 DEF AlreadyOpen, OpenLog, OpenFails, AppendLine, AppendFails, process
  <2>4. CASE ArchiveOldGz \/ SetAside \/ ArchivePending \/ ForkFails
    BY <1>0, <2>1, <2>4
    DEF ArchiveOldGz, SetAside, HavePending, ArchivePending, ForkFails, process
  <2>5. CASE CountArchives \/ CountFails \/ RemoveOldest \/ RemoveFails \/ TrimDone
    BY <1>0, <2>1, <2>5
    DEF CountArchives, CountFails, RemoveOldest, RemoveFails, TrimDone, process, FilesTypeInv
  <2>6. CASE DeleteLog \/ Tick \/ UNCHANGED rotateVars
    BY <1>0, <2>1, <2>6 DEF DeleteLog, Tick, rotateVars, process
  <2>7. CASE Stop \/ Start
    BY <1>0, <2>1, <2>7 DEF Stop, Start, Started, process
  <2> QED
    BY <1>1, <2>2, <2>3, <2>4, <2>5, <2>6, <2>7 DEF RotateNext, Archiving, Trimming, Writing, Gzip, Zipping
<1>2. CASE Fork \/ ExecFails
  <2>1. /\ gzip' = [gzip EXCEPT ![crashes] = "new"] \/ gzip' = [gzip EXCEPT ![crashes] = "exited"]
        /\ crashes' = crashes
    BY <1>0, <1>2, ZipEffects
  <2>2. \A l \in Life : l > crashes => gzip'[l] = "none"
    <3>1. \A l \in Life : l > crashes => l # crashes
      BY <1>0 DEF Life
    <3>2. \A l \in Life : l # crashes => gzip'[l] = gzip[l]
      BY <1>0, <2>1 DEF ZipTypeInv
    <3> QED
      BY <1>0, <3>1, <3>2
  <2>3. zip_pid' /\ at' = "open"
    BY <1>2 DEF Fork, ExecFails
  <2> QED
    BY <2>1, <2>2, <2>3
<1>3. CASE WaitPid
  <2>1. gzip' = [gzip EXCEPT ![crashes] = "none"] /\ crashes' = crashes
    BY <1>0, <1>3, ZipEffects
  <2>2. gzip'[crashes] = "none" /\ \A l \in Life : l > crashes => gzip'[l] = "none"
    BY <1>0, <2>1 DEF ZipTypeInv
  <2>3. ~zip_pid' /\ at' \in {"idle", "count"}
    BY <1>3 DEF WaitPid, Reaped
  <2> QED
    BY <2>1, <2>2, <2>3
<1>4. CASE Crash
  <2>1. PICK survivors \in SUBSET {l \in Life : Running(l)} :
           gzip' = [l \in Life |-> IF l \in survivors THEN gzip[l] ELSE "none"]
    BY <1>4 DEF Crash
  <2>2. \A l \in Life : l > crashes => gzip'[l] = "none"
    BY <1>0, <2>1
  <2>3. crashes' = crashes + 1 /\ crashes' \in Life /\ crashes' > crashes /\ at' = "down"
    BY <1>0, <1>4, RotateAssumption DEF Crash, Life
  <2>4. \A l \in Life : l > crashes' => l > crashes
    BY <1>0, <2>3 DEF Life
  <2> QED
    BY <2>2, <2>3, <2>4
<1>5. ASSUME NEW l \in Life, GzipOpen(l) \/ GzipWrite(l) \/ GzipUnlink(l) \/ GzipFails(l)
      PROVE  GzipInv'
  <2>1. Running(l) /\ UNCHANGED <<zip_pid, at, crashes>>
    BY <1>5, GzipLeaves DEF process, history
  <2>2. \A m \in Life : m # l => gzip'[m] = gzip[m]
    BY <1>0, <1>5, ZipEffects DEF ZipTypeInv
  <2>3. gzip[l] # "none" /\ ~(l > crashes)
    BY <1>0, <2>1 DEF Running
  <2> QED
    BY <1>0, <2>1, <2>2, <2>3
<1> QED
  BY <1>1, <1>2, <1>3, <1>4, <1>5 DEF Zipping

\* While no gzip outlives its process a running gzip has its files to itself.
LEMMA AloneNext ==
  ASSUME FilesInv, AloneInv, [RotateNext]_rotateVars
  PROVE  AloneInv'
<1>0. FilesTypeInv /\ ZipTypeInv /\ OpenInv /\ GzipInv /\ crashes \in Life /\ NoFile \notin FileType
  BY RotateAssumption DEF FilesInv, ZipTypeInv
<1> SUFFICES ASSUME ~outlived'
             PROVE  /\ \A l \in Life : Running(l)' => l = crashes'
                    /\ gzip'[crashes'] \in {"writing", "whole"} =>
                          /\ dir'.gz # NoFile /\ dir'.pending # NoFile
                          /\ dir'.gz.lines = dir'.pending.lines
                    /\ gzip'[crashes'] = "writing" => dir'.gz.writer = crashes'
                    /\ gzip'[crashes'] = "whole" => dir'.gz.writer = Nobody
  BY DEF AloneInv, Exists
<1>1. CASE ~Zipping
  <2>1. UNCHANGED <<gzip, crashes, outlived>>
    BY <1>1, ZipLeft
  <2>2. /\ \A l \in Life : Running(l) => l = crashes
        /\ gzip[crashes] \in {"writing", "whole"} =>
              dir.gz # NoFile /\ dir.pending # NoFile /\ dir.gz.lines = dir.pending.lines
        /\ gzip[crashes] = "writing" => dir.gz.writer = crashes
        /\ gzip[crashes] = "whole" => dir.gz.writer = Nobody
    BY <2>1 DEF AloneInv, Exists
  <2>3. \A l \in Life : Running(l)' => l = crashes'
    BY <2>1, <2>2 DEF Running
  <2>4. CASE gzip[crashes] \notin {"writing", "whole"}
    BY <2>1, <2>3, <2>4
  <2>5. CASE gzip[crashes] \in {"writing", "whole"}
    <3>1. at \in {"idle", "open", "append"}
      BY <1>0, <2>5 DEF GzipInv
    <3>2. dir'.pending = dir.pending /\ dir'.gz = dir.gz
      <4>1. CASE Quiet
        BY <4>1, QuietFacts
      <4>2. CASE ~Quiet
        <5>1. ~ArchiveOldGz /\ ~ArchivePending /\ ~SetAside /\ ~RemoveOldest
          BY <3>1 DEF ArchiveOldGz, ArchivePending, SetAside, RemoveOldest
        <5>2. OpenLog \/ AppendLine \/ DeleteLog
          BY <1>1, <4>2, <5>1, RotateCases DEF Naming, Zipping
        <5> QED
          BY <1>0, <5>2, DirEffects
      <4> QED
        BY <4>1, <4>2
    <3> QED
      BY <2>1, <2>2, <2>3, <3>2
  <2> QED
    BY <2>4, <2>5
<1>2. CASE Fork \/ ExecFails \/ WaitPid
  <2>1. PICK x \in {"new", "exited", "none"} :
           gzip' = [gzip EXCEPT ![crashes] = x] /\ UNCHANGED <<crashes, outlived>>
    BY <1>0, <1>2, ZipEffects
  <2>2. gzip'[crashes] = x /\ \A l \in Life : l # crashes => gzip'[l] = gzip[l]
    BY <1>0, <2>1 DEF ZipTypeInv
  <2>3. \A l \in Life : Running(l) => l = crashes
    BY <2>1 DEF AloneInv
  <2>4. \A l \in Life : Running(l)' => l = crashes'
    BY <2>1, <2>2, <2>3 DEF Running
  <2> QED
    BY <2>1, <2>2, <2>4
<1>3. CASE Crash
  <2>1. gzip' = [l \in Life |-> "none"]
    <3>1. PICK survivors \in SUBSET {l \in Life : Running(l)} :
            /\ gzip' = [l \in Life |-> IF l \in survivors THEN gzip[l] ELSE "none"]
            /\ outlived' = (outlived \/ survivors # {})
      BY <1>3 DEF Crash
    <3>2. survivors = {}
      BY <3>1
    <3> QED
      BY <3>1, <3>2
  <2>2. crashes' \in Life
    BY ZipTypeNext DEF ZipTypeInv
  <2> QED
    BY <2>1, <2>2 DEF Running
<1>4. ASSUME NEW l \in Life, GzipOpen(l) \/ GzipWrite(l) \/ GzipUnlink(l) \/ GzipFails(l)
      PROVE  /\ \A m \in Life : Running(m)' => m = crashes'
             /\ gzip'[crashes'] \in {"writing", "whole"} =>
                   /\ dir'.gz # NoFile /\ dir'.pending # NoFile
                   /\ dir'.gz.lines = dir'.pending.lines
             /\ gzip'[crashes'] = "writing" => dir'.gz.writer = crashes'
             /\ gzip'[crashes'] = "whole" => dir'.gz.writer = Nobody
  <2>1. PICK x \in {"writing", "whole", "exited"} :
          /\ gzip' = [gzip EXCEPT ![l] = x] /\ UNCHANGED <<crashes, outlived>>
          /\ x = "writing" => GzipOpen(l)
          /\ x = "whole" => GzipWrite(l)
    BY <1>0, <1>4, ZipEffects
  <2>2. /\ l = crashes /\ \A m \in Life : Running(m) => m = crashes
        /\ gzip[crashes] \in {"writing", "whole"} =>
              dir.gz # NoFile /\ dir.pending # NoFile /\ dir.gz.lines = dir.pending.lines
        /\ gzip[crashes] = "writing" => dir.gz.writer = crashes
    BY <1>4, <2>1, GzipLeaves DEF AloneInv, Exists
  <2>3. gzip'[crashes'] = x /\ \A m \in Life : m # l => gzip'[m] = gzip[m]
    BY <1>0, <2>1, <2>2 DEF ZipTypeInv
  <2>4. \A m \in Life : Running(m)' => m = crashes'
    BY <2>1, <2>2, <2>3 DEF Running
  <2>5. CASE x = "writing"
    <3>1. dir.pending \in FileType /\ now \in 1 .. MaxNow /\ dir.pending # NoFile
      BY <1>0, <2>1, <2>5, DirFacts DEF GzipOpen, FilesTypeInv, Exists
    <3>2. dir.pending.lines \in SUBSET (1 .. MaxLines)
      BY <3>1 DEF FileType
    <3>3. /\ dir'.pending = dir.pending /\ dir'.gz # NoFile
          /\ dir'.gz.lines = dir.pending.lines /\ dir'.gz.writer = l
      BY <1>0, <2>1, <2>5, <3>1, <3>2, GzipEffects, FileFacts
    <3> QED
      BY <2>1, <2>2, <2>3, <2>4, <2>5, <3>1, <3>3
  <2>6. CASE x = "whole"
    <3>1. gzip[l] = "writing"
      BY <2>1, <2>6 DEF GzipWrite
    <3>2. /\ dir.gz \in FileType /\ dir.pending \in FileType /\ dir.gz # NoFile /\ dir.pending # NoFile
          /\ dir.pending.writer = Nobody
      BY <1>0, <2>2, <3>1, DirFacts DEF OpenInv, FilesTypeInv, Exists
    <3>3. dir'.gz = Completed(dir.gz, l) /\ dir'.pending = Completed(dir.pending, l)
      BY <1>0, <2>1, <2>6, GzipEffects
    <3>4. /\ Completed(dir.gz, l) # NoFile /\ Completed(dir.gz, l).lines = dir.gz.lines
          /\ Completed(dir.gz, l).writer = Nobody /\ Completed(dir.pending, l) = dir.pending
      BY <1>0, <2>2, <3>1, <3>2, CompletedFacts
    <3> QED
      BY <2>1, <2>2, <2>3, <2>4, <2>6, <3>1, <3>2, <3>3, <3>4
  <2>7. CASE x = "exited"
    BY <2>3, <2>4, <2>7
  <2> QED
    BY <2>5, <2>6, <2>7
<1> QED
  BY <1>1, <1>2, <1>3, <1>4 DEF Zipping

\* What is left to remove is owed, and nothing else is too many.
LEMMA OwedNext ==
  ASSUME FilesInv, OwedInv, [RotateNext]_rotateVars
  PROVE  OwedInv'
<1>0. /\ FilesTypeInv /\ ZipTypeInv /\ archives \in Seq(FileType) /\ Len(archives) \in Nat
      /\ LogCount \in Nat
  <2>1. archives \in Seq(FileType)
    BY DEF FilesInv, FilesTypeInv
  <2> QED
    BY <2>1, RotateAssumption DEF FilesInv
<1> USE DEF OwedInv
<1>1. CASE CountArchives
  BY <1>0, <1>1 DEF CountArchives, Excess, files
<1>2. CASE RemoveOldest
  <2>1. PICK i \in DOMAIN archives : archives' = RemoveAt(archives, i)
    BY <1>2 DEF RemoveOldest
  <2>2. Len(archives') = Len(archives) - 1
    BY <1>0, <2>1, RemoveOne
  <2>3. left > 0 /\ left' = left - 1 /\ owed' = owed - 1
    BY <1>2 DEF RemoveOldest
  <2> QED
    BY <1>0, <2>2, <2>3
<1>3. CASE RemoveFails
  BY <1>0, <1>3 DEF RemoveFails, history, files
<1>4. CASE Crash
  BY <1>0, <1>4 DEF Crash, files
<1>5. CASE Naming
  <2>1. UNCHANGED left
    BY <1>5 DEF Naming, ArchiveOldGz, ArchivePending, WaitPid, trimming
  <2>2. \A f \in FileType : Len(Append(archives, f)) = Len(archives) + 1
    BY <1>0
  <2>3. \/ UNCHANGED <<archives, owed>>
        \/ Len(archives') = Len(archives) + 1 /\ owed' = owed + 1
    BY <1>0, <1>5, <2>2, NamingEffects
  <2> QED
    BY <1>0, <2>1, <2>3
<1>6. ASSUME NEW l \in Life, GzipOpen(l) \/ GzipWrite(l) \/ GzipUnlink(l) \/ GzipFails(l)
      PROVE  UNCHANGED <<left, owed>> /\ Len(archives') = Len(archives)
  <2>1. UNCHANGED <<left, owed>>
    BY <1>6, GzipLeaves DEF history, trimming
  <2>2. Len(archives') = Len(archives)
    <3>1. GzipWrite(l) => Len(archives') = Len(archives)
      BY <1>0, GzipEffects
    <3>2. ~GzipWrite(l) => archives' = archives
      BY <1>0, <1>6, GzipEffects
    <3> QED
      BY <3>1, <3>2
  <2> QED
    BY <2>1, <2>2
<1>7. CASE BeginWrite \/ AlreadyOpen \/ OpenLog \/ OpenFails \/ AppendLine \/ AppendFails
  BY <1>7
  DEF BeginWrite, AlreadyOpen, OpenLog, OpenFails, AppendLine, AppendFails, history, files, trimming
<1>8. CASE SetAside \/ Fork \/ ExecFails \/ ForkFails \/ CountFails \/ TrimDone
  BY <1>8 DEF SetAside, Fork, ExecFails, ForkFails, CountFails, TrimDone, history, files, trimming
<1>9. CASE DeleteLog \/ Tick \/ Stop \/ Start \/ UNCHANGED rotateVars
  BY <1>9 DEF DeleteLog, Tick, Stop, Start, rotateVars, history, files, trimming
<1> QED
  BY <1>0, <1>1, <1>2, <1>3, <1>4, <1>5, <1>6, <1>7, <1>8, <1>9, RotateCases DEF Quiet

\* The stream keeps count of the file it has open: the line it appends is new
\* to the file, and the file it opens is measured.
LEMMA SizeNext ==
  ASSUME FilesInv, SizeTracked, [RotateNext]_rotateVars
  PROVE  SizeTracked'
<1>0. FilesTypeInv /\ ZipTypeInv /\ OpenInv /\ dir.log \in FileType \cup {NoFile}
  BY DirFacts DEF FilesInv, FilesTypeInv
<1> USE DEF SizeTracked
<1>1. CASE fd' # "log" \/ at' = "down"
  BY <1>1
<1>2. CASE UNCHANGED <<fd, filesize>> /\ at # "down" /\ dir'.log = dir.log
  BY <1>2
<1>3. CASE OpenLog
  <2>1. /\ File({}, now, Nobody).lines = {} /\ File({}, now, Nobody) # NoFile
    BY <1>0, FileFacts DEF File, FilesTypeInv
  <2>2. Size(File({}, now, Nobody)) = 0 /\ Size(NoFile) = 0
    BY <2>1, FS_EmptySet DEF Size
  <2>3. dir'.log = dir.log \/ (dir.log = NoFile /\ dir'.log = File({}, now, Nobody))
    BY <1>0, <1>3, DirEffects DEF Exists
  <2>4. filesize' = Size(dir.log)
    BY <1>3 DEF OpenLog
  <2>5. Size(dir'.log) = Size(dir.log)
    BY <2>2, <2>3
  <2> QED
    BY <2>4, <2>5
<1>4. CASE AppendLine /\ fd = "log"
  <2>1. /\ dir.log # NoFile /\ dir.log \in FileType
        /\ IsFiniteSet(dir.log.lines) /\ Size(dir.log) = Cardinality(dir.log.lines)
    BY <1>0, <1>4, SizeFacts DEF OpenInv, Exists
  <2>2. asked \notin dir.log.lines
    <3>1. dir.log.lines \subseteq 1 .. Written
      BY <2>1 DEF FilesInv, LinesInv, Exists, Name
    <3> QED
      BY <1>4, <3>1, AppendNext
  <2>3. Cardinality(dir.log.lines \cup {asked}) = Cardinality(dir.log.lines) + 1
    BY <2>1, <2>2, FS_AddElement
  <2>4. /\ dir'.log = File(dir.log.lines \cup {asked}, now, Nobody) /\ dir'.log # NoFile
        /\ dir'.log.lines = dir.log.lines \cup {asked}
    BY <1>0, <1>4, DirEffects, AppendedFile, RotateAssumption DEF File
  <2>5. filesize' = filesize + 1 /\ filesize = Size(dir.log)
    BY <1>4 DEF AppendLine
  <2>6. Size(dir'.log) = Size(dir.log) + 1
    BY <2>1, <2>3, <2>4 DEF Size
  <2> QED
    BY <2>5, <2>6
<1>5. CASE RemoveOldest \/ DeleteLog \/ (AppendLine /\ fd # "log")
  BY <1>1, <1>2, <1>5 DEF RemoveOldest, DeleteLog, AppendLine, process
<1>6. CASE Quiet
  <2>1. dir' = dir
    BY <1>6, QuietFacts
  <2> USE DEF process, options
  <2>2. CASE BeginWrite \/ AlreadyOpen \/ OpenFails \/ AppendFails
    BY <2>1, <2>2 DEF BeginWrite, AlreadyOpen, OpenFails, AppendFails
  <2>3. CASE Fork \/ ExecFails \/ ForkFails
    BY <2>1, <2>3 DEF Fork, ExecFails, ForkFails
  <2>4. CASE CountArchives \/ CountFails \/ RemoveFails \/ TrimDone
    BY <2>1, <2>4 DEF CountArchives, CountFails, RemoveFails, TrimDone
  <2>5. CASE Tick \/ UNCHANGED rotateVars
    BY <2>1, <2>5 DEF Tick, rotateVars
  <2>6. CASE Crash \/ Stop \/ Start
    BY <2>6 DEF Crash, Stop, Start, Started
  <2> QED
    BY <1>6, <2>2, <2>3, <2>4, <2>5, <2>6 DEF Quiet
<1>7. CASE Naming
  <2>1. dir'.log = dir.log
    BY <1>0, <1>7, NamingEffects
  <2> QED
    BY <1>2, <1>7, <2>1 DEF Naming, ArchiveOldGz, WaitPid, Reaped, ArchivePending, process
<1>8. CASE SetAside
  BY <1>0, <1>8 DEF SetAside, OpenInv, Archived, process
<1>9. ASSUME NEW l \in Life, GzipOpen(l) \/ GzipWrite(l) \/ GzipUnlink(l) \/ GzipFails(l)
      PROVE  SizeTracked'
  <2>1. UNCHANGED <<fd, filesize, at>>
    BY <1>9, GzipLeaves DEF process
  <2>2. dir'.log = dir.log
    <3>1. CASE GzipWrite(l)
      BY <1>0, <3>1, CompletedFacts, GzipEffects DEF GzipWrite, OpenInv, Exists
    <3>2. CASE ~GzipWrite(l)
      BY <1>0, <1>9, <3>2, GzipEffects
    <3> QED
      BY <3>1, <3>2
  <2> QED
    BY <2>1, <2>2
<1> QED
  BY <1>3, <1>4, <1>5, <1>6, <1>7, <1>8, <1>9, RotateCases

\* Each line that was written is in a whole file, while no gzip outlives its
\* process.
LinesKept == ~outlived => \A l \in lines \ deleted : InSomeFile(l)

\* What is appended to the archives is there, with what was.
LEMMA Appended ==
  ASSUME FilesTypeInv, NEW f \in FileType, archives' = Append(archives, f), NEW l,
         InFile(f, l) \/ \E i \in DOMAIN archives : InFile(archives[i], l)
  PROVE  \E i \in DOMAIN archives' : InFile(archives'[i], l)
<1>1. archives \in Seq(FileType)
  BY DEF FilesTypeInv
<1>2. archives'[Len(archives) + 1] = f /\ Len(archives) + 1 \in DOMAIN archives'
  BY <1>1
<1>3. \A i \in DOMAIN archives : archives'[i] = archives[i] /\ i \in DOMAIN archives'
  BY <1>1
<1> QED
  BY <1>2, <1>3

\* No step takes back that a gzip outlived its process.
LEMMA OutlivedStays ==
  ASSUME [RotateNext]_rotateVars, ZipTypeInv, ~outlived'
  PROVE  ~outlived
<1>1. CASE ~Zipping
  BY <1>1, ZipLeft
<1>2. CASE Crash
  BY <1>2 DEF Crash
<1>3. CASE Zipping /\ ~Crash
  BY <1>3, ZipEffects DEF Zipping
<1> QED
  BY <1>1, <1>2, <1>3

\* A line stays in a whole file until it is deleted: a renamed file keeps its
\* lines, and the file gzip reads goes when the file it wrote is whole.
LEMMA KeptNext ==
  ASSUME FilesInv, AloneInv, LinesKept, [RotateNext]_rotateVars
  PROVE  LinesKept'
<1>0. FilesTypeInv /\ ZipTypeInv /\ OpenInv /\ GzipInv
  BY DEF FilesInv
<1> SUFFICES ASSUME ~outlived', NEW l \in lines' \ deleted'
             PROVE  \/ InFile(dir'.log, l) \/ InFile(dir'.pending, l) \/ InFile(dir'.gz, l)
                    \/ \E i \in DOMAIN archives' : InFile(archives'[i], l)
  BY DEF LinesKept, InSomeFile, InFile
<1>a. ~outlived
  BY <1>0, OutlivedStays
<1> DEFINE Archives == \E i \in DOMAIN archives : InFile(archives[i], l)
<1>1. CASE Quiet
  <2>1. InSomeFile(l)
    BY <1>1, <1>a, QuietFacts DEF LinesKept
  <2> QED
    BY <1>1, <2>1, QuietFacts DEF InSomeFile
<1>2. CASE AppendLine
  <2>1. lines' = lines \cup {asked}
    BY <1>2 DEF AppendLine
  <2>2. CASE fd = "log"
    <3>1. /\ dir'.log = File(dir.log.lines \cup {asked}, now, Nobody) /\ dir'.log # NoFile
          /\ dir'.log.lines = dir.log.lines \cup {asked} /\ dir'.log.writer = Nobody
          /\ dir'.pending = dir.pending /\ dir'.gz = dir.gz /\ deleted' = deleted
          /\ archives' = archives
      BY <1>0, <1>2, <2>2, DirEffects, AppendedFile, RotateAssumption DEF File, AppendLine
    <3>2. CASE l = asked
      BY <3>1, <3>2 DEF InFile
    <3>3. CASE l # asked
      <4>1. InSomeFile(l)
        BY <1>a, <2>1, <3>1, <3>3 DEF LinesKept
      <4> QED
        BY <3>1, <4>1 DEF InSomeFile, InFile
    <3> QED
      BY <3>2, <3>3
  <2>3. CASE fd # "log"
    <3>1. deleted' = deleted \cup {asked} /\ dir' = dir /\ archives' = archives
      BY <1>2, <2>3 DEF AppendLine
    <3>2. InSomeFile(l)
      BY <1>a, <2>1, <3>1 DEF LinesKept
    <3> QED
      BY <3>1, <3>2 DEF InSomeFile
  <2> QED
    BY <2>2, <2>3
<1>3. CASE ~Quiet /\ ~AppendLine
  <2>1. lines' = lines /\ deleted \subseteq deleted'
    <3>1. CASE \E m \in Life : GzipOpen(m) \/ GzipWrite(m) \/ GzipUnlink(m) \/ GzipFails(m)
      BY <3>1, GzipLeaves DEF history
    <3>2. CASE Naming \/ SetAside \/ RemoveOldest \/ OpenLog \/ DeleteLog
      BY <3>2
      DEF Naming, ArchiveOldGz, WaitPid, ArchivePending, SetAside, RemoveOldest, OpenLog, DeleteLog, history
    <3> QED
      BY <1>3, <3>1, <3>2, RotateCases
  <2>2. InFile(dir.log, l) \/ InFile(dir.pending, l) \/ InFile(dir.gz, l) \/ Archives
    BY <1>a, <2>1 DEF LinesKept, InSomeFile
  <2> HIDE DEF Archives
  <2>3. CASE Naming
    <3>1. CASE UNCHANGED <<dir, archives>>
      BY <2>2, <3>1 DEF Archives
    <3>2. CASE ~UNCHANGED <<dir, archives>>
      <4>1. PICK f \in FileType :
              /\ archives' = Append(archives, f) /\ dir'.log = dir.log
              /\ \/ f = dir.gz /\ dir'.gz = NoFile /\ dir'.pending = dir.pending
                 \/ f = dir.pending /\ dir'.pending = NoFile /\ dir'.gz = dir.gz
        BY <1>0, <2>3, <3>2, NamingEffects
      <4>2. InFile(f, l) \/ Archives => \E i \in DOMAIN archives' : InFile(archives'[i], l)
        BY <1>0, <4>1, Appended DEF Archives
      <4> QED
        BY <2>2, <4>1, <4>2
    <3> QED
      BY <3>1, <3>2
  <2>4. CASE SetAside
    <3>1. /\ archives' = archives
          /\ \/ dir' = dir
             \/ ~Exists("pending") /\ dir'.pending = dir.log /\ dir'.gz = dir.gz
      BY <1>0, <2>4, DirEffects
    <3>2. ~Exists("pending") => ~InFile(dir.pending, l)
      BY DEF InFile, Exists
    <3> QED
      BY <2>2, <3>1, <3>2 DEF Archives
  <2>5. CASE RemoveOldest
    <3>1. PICK i \in DOMAIN archives : /\ archives' = RemoveAt(archives, i)
                                       /\ deleted' = deleted \cup archives[i].lines
                                       /\ dir' = dir
      BY <2>5 DEF RemoveOldest
    <3>2. ~InFile(archives[i], l)
      BY <3>1 DEF InFile
    <3>3. \A k \in DOMAIN archives : k # i => \E j \in DOMAIN archives' : archives'[j] = archives[k]
      BY <1>0, <3>1, RemoveOne DEF FilesTypeInv
    <3>4. Archives => \E j \in DOMAIN archives' : InFile(archives'[j], l)
      BY <3>2, <3>3 DEF Archives
    <3> QED
      BY <2>2, <3>1, <3>4
  <2>6. CASE OpenLog
    <3>1. /\ archives' = archives /\ dir'.pending = dir.pending /\ dir'.gz = dir.gz
          /\ dir.log # NoFile => dir'.log = dir.log
      BY <1>0, <2>6, DirEffects DEF Exists
    <3> QED
      BY <2>2, <3>1 DEF Archives, InFile
  <2>7. CASE DeleteLog
    <3>1. /\ archives' = archives /\ dir'.pending = dir.pending /\ dir'.gz = dir.gz
          /\ deleted' = deleted \cup dir.log.lines
      BY <1>0, <2>7, DirEffects DEF DeleteLog
    <3>2. ~InFile(dir.log, l)
      BY <3>1 DEF InFile
    <3> QED
      BY <2>2, <3>1, <3>2 DEF Archives
  <2>8. ASSUME NEW m \in Life, GzipOpen(m) \/ GzipWrite(m) \/ GzipUnlink(m) \/ GzipFails(m)
        PROVE  \/ InFile(dir'.log, l) \/ InFile(dir'.pending, l) \/ InFile(dir'.gz, l)
               \/ \E i \in DOMAIN archives' : InFile(archives'[i], l)
    <3>0. m = crashes
      BY <1>a, <2>8, GzipLeaves DEF AloneInv
    <3>1. CASE GzipOpen(m)
      <4>1. dir'.log = dir.log /\ dir'.pending = dir.pending /\ archives' = archives /\ dir.gz = NoFile
        BY <1>0, <3>1, GzipEffects DEF GzipOpen, Exists
      <4> QED
        BY <2>2, <4>1 DEF Archives, InFile
    <3>2. CASE GzipWrite(m)
      <4>1. \A f \in FileType \cup {NoFile} : InFile(f, l) => InFile(Completed(f, m), l)
        BY <1>0, <3>2, CompletedFacts DEF GzipWrite, InFile
      <4>2. /\ dir.log \in FileType \cup {NoFile} /\ dir.pending \in FileType \cup {NoFile}
            /\ dir.gz \in FileType \cup {NoFile} /\ \A i \in DOMAIN archives : archives[i] \in FileType
        BY <1>0, DirFacts DEF FilesTypeInv
      <4>3. /\ dir'.log = Completed(dir.log, m) /\ dir'.pending = Completed(dir.pending, m)
            /\ dir'.gz = Completed(dir.gz, m) /\ DOMAIN archives' = DOMAIN archives
            /\ \A i \in DOMAIN archives : archives'[i] = Completed(archives[i], m)
        BY <1>0, <3>2, GzipEffects
      <4> QED
        BY <2>2, <4>1, <4>2, <4>3 DEF Archives
    <3>3. CASE GzipUnlink(m)
      <4>1. archives' = archives /\ dir'.log = dir.log /\ dir'.gz = dir.gz
        BY <1>0, <3>3, GzipEffects
      <4>2. InFile(dir.pending, l) => InFile(dir.gz, l)
        BY <1>a, <3>0, <3>3 DEF InFile, GzipUnlink, AloneInv, Exists
      <4> QED
        BY <2>2, <4>1, <4>2 DEF Archives
    <3>4. CASE GzipFails(m)
      <4>1. /\ archives' = archives /\ dir'.log = dir.log /\ dir'.pending = dir.pending
            /\ dir'.gz = dir.gz \/ gzip[m] = "writing"
        BY <1>0, <3>4, GzipEffects
      <4>2. gzip[m] = "writing" => ~InFile(dir.gz, l)
        BY <1>a, <3>0, NobodyFacts DEF InFile, AloneInv
      <4> QED
        BY <2>2, <4>1, <4>2 DEF Archives
    <3> QED
      BY <2>8, <3>1, <3>2, <3>3, <3>4
  <2> QED
    BY <1>3, <2>3, <2>4, <2>5, <2>6, <2>7, <2>8, RotateCases
<1> QED
  BY <1>1, <1>2, <1>3

\* The inductive invariant of the files.
RotateIInv == FilesInv /\ AloneInv /\ OwedInv /\ SizeTracked /\ LinesKept

\* It holds when there is no file yet.
LEMMA RotateStart == RotateInit => RotateIInv
<1> SUFFICES ASSUME RotateInit PROVE RotateIInv
  OBVIOUS
<1> USE RotateAssumption DEF RotateInit, Archived, Cleaning
<1>1. dir = [name \in Name |-> NoFile] /\ \A name \in Name : ~Exists(name)
  BY DEF Name, Exists
<1>2. FilesTypeInv
  <2>1. compress \in BOOLEAN /\ nocompress \in BOOLEAN /\ archives \in Seq(FileType)
    OBVIOUS
  <2>2. dir \in [Name -> FileType \cup {NoFile}]
    BY <1>1
  <2>3. 1 \in 1 .. MaxNow /\ 0 \in 0 .. 1 /\ 0 \in 0 .. MaxLines
    OBVIOUS
  <2> QED
    BY <2>1, <2>2, <2>3 DEF FilesTypeInv
<1>3. ZipTypeInv
  <2>1. 0 \in Life /\ 0 \in 0 .. MaxNow
    BY DEF Life
  <2> QED
    BY <2>1 DEF ZipTypeInv
<1>4. LinesInv
  <2>1. Written = 0
    BY DEF Written, LineInHand
  <2> QED
    BY <1>1, <2>1 DEF LinesInv
<1>5. OpenInv /\ GzipInv
  <2>1. 0 \in Life
    BY DEF Life
  <2> QED
    BY <1>1, <2>1 DEF OpenInv, GzipInv, Name
<1>6. AloneInv
  <2>1. 0 \in Life
    BY DEF Life
  <2> QED
    BY <2>1 DEF AloneInv, Running
<1>7. OwedInv
  <2>1. Len(archives) = 0 /\ 0 <= LogCount + 0
    OBVIOUS
  <2> QED
    BY <2>1 DEF OwedInv
<1> QED
  BY <1>2, <1>3, <1>4, <1>5, <1>6, <1>7 DEF RotateIInv, FilesInv, SizeTracked, LinesKept

\* Every step keeps it.
LEMMA RotateStep == RotateIInv /\ [RotateNext]_rotateVars => RotateIInv'
BY FilesTypeNext, ZipTypeNext, LinesNext, OpenNext, GzipNext, AloneNext, OwedNext, SizeNext, KeptNext
   DEF RotateIInv, FilesInv

\* The sizes and numbers the stream goes by are those of its files: RotateInv.
LEMMA RotateImplied == RotateIInv => RotateInv
<1> SUFFICES ASSUME RotateIInv PROVE RotateInv
  OBVIOUS
<1>0. FilesTypeInv /\ ZipTypeInv /\ LinesInv /\ OwedInv /\ SizeTracked
  BY DEF RotateIInv, FilesInv
<1>1. Written \in Nat /\ Written <= asked /\ asked <= MaxLines /\ MaxLines \in Nat /\ asked \in Nat
  BY <1>0, RotateAssumption DEF FilesTypeInv, LinesInv, Written
<1>2. filesize \in 0 .. MaxLines
  <2>1. filesize \in Nat
    BY <1>0 DEF FilesTypeInv
  <2>2. filesize <= Written
    BY <1>0 DEF LinesInv
  <2> QED
    BY <1>1, <2>1, <2>2
<1>3. lines \cup deleted \subseteq 1 .. asked
  <2>1. 1 .. Written \subseteq 1 .. asked
    BY <1>1
  <2> QED
    BY <1>0, <2>1 DEF LinesInv
<1>4. RotateTypeOK
  <2>1. \A i \in DOMAIN archives : archives[i] \in FileType
    BY <1>0 DEF FilesTypeInv
  <2> QED
    BY <1>0, <1>2, <1>3, <2>1
    DEF RotateTypeOK, FilesTypeInv, ZipTypeInv, OwedInv, Name, Archived, Cleaning
<1>5. KeepsLogCount
  BY <1>0 DEF KeepsLogCount, OwedInv
<1> QED
  BY <1>0, <1>4, <1>5 DEF RotateInv

\* RotateInv in every reachable state: the stream believes its file as long as
\* it is, and no archive beyond logcount is there but those named since the
\* last count and those it failed to remove, whatever the sizes and the bounds,
\* whichever renames, counts and removals fail and wherever a crash falls.
THEOREM RotateInvHolds == RotateSpec => []RotateInv
<1>1. RotateIInv /\ [RotateNext]_rotateVars => RotateIInv'
  BY RotateStep
<1> QED
  BY <1>1, RotateStart, RotateImplied, PTL DEF RotateSpec

\* NoLineLost in every reachable state: no rename, gzip, failure or crash
\* between two of them takes a line that was written out of every readable
\* file, unless a gzip went on after the crash.
THEOREM NoLineLostHolds == RotateSpec => []NoLineLost
<1>1. RotateIInv => NoLineLost
  <2> SUFFICES ASSUME RotateIInv, ~outlived, NEW l \in lines \ deleted
               PROVE  \E f \in Kept \ {NoFile} : f.writer = Nobody /\ l \in f.lines
    BY DEF NoLineLost
  <2>1. InSomeFile(l)
    BY DEF RotateIInv, LinesKept
  <2>2. {dir.log, dir.pending, dir.gz} \cup {archives[i] : i \in DOMAIN archives} \subseteq Kept
    BY DEF RotateIInv, FilesInv, FilesTypeInv, Kept, Name
  <2> QED
    BY <2>1, <2>2 DEF InSomeFile, InFile
<1>2. RotateIInv /\ [RotateNext]_rotateVars => RotateIInv'
  BY RotateStep
<1> QED
  BY <1>1, <1>2, RotateStart, PTL DEF RotateSpec

\* GzipUndisturbed for every behaviour, with any number of gzips left by crashes
\* beside it: the worker's test of zip_pid keeps the steps of a process from the
\* files its running gzip reads and writes.
THEOREM GzipUndisturbedHolds == RotateSpec => GzipUndisturbed
<1>1. RotateIInv /\ [RotateNext]_rotateVars =>
        [(gzip[crashes] \in {"writing", "whole"} /\ zip' = zip)
            => dir'.pending = dir.pending /\ dir'.gz = dir.gz]_rotateVars
  <2> SUFFICES ASSUME RotateIInv, RotateNext, gzip[crashes] \in {"writing", "whole"}, zip' = zip
               PROVE  dir'.pending = dir.pending /\ dir'.gz = dir.gz
    OBVIOUS
  <2>0. /\ FilesTypeInv /\ ZipTypeInv /\ FilesInv /\ crashes \in Life
        /\ zip_pid /\ at \in {"idle", "open", "append"} /\ gzip' = gzip
    BY DEF RotateIInv, FilesInv, ZipTypeInv, GzipInv, zip
  <2>1. CASE Quiet
    BY <2>1, QuietFacts
  <2>2. CASE RemoveOldest \/ SetAside \/ ArchivePending \/ ArchiveOldGz
    BY <2>0, <2>2 DEF RemoveOldest, SetAside, ArchivePending, ArchiveOldGz
  <2>3. ~WaitPid
    BY DEF WaitPid, Reaped
  <2>4. CASE OpenLog \/ AppendLine \/ DeleteLog
    BY <2>0, <2>4, DirEffects
  <2>5. ASSUME NEW l \in Life PROVE ~(GzipOpen(l) \/ GzipWrite(l) \/ GzipUnlink(l) \/ GzipFails(l))
    <3> SUFFICES ASSUME GzipOpen(l) \/ GzipWrite(l) \/ GzipUnlink(l) \/ GzipFails(l) PROVE FALSE
      OBVIOUS
    <3>1. gzip'[l] # gzip[l]
      BY <2>0 DEF GzipOpen, GzipWrite, GzipUnlink, GzipFails, ZipTypeInv, Running
    <3> QED
      BY <2>0, <3>1
  <2> QED
    BY <2>1, <2>2, <2>3, <2>4, <2>5, RotateCases DEF Naming
<1>2. RotateIInv /\ [RotateNext]_rotateVars => RotateIInv'
  BY RotateStep
<1> QED
  BY <1>1, <1>2, RotateStart, PTL DEF RotateSpec, GzipUndisturbed

=============================================================================
