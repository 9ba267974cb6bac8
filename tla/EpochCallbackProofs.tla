------------------------ MODULE EpochCallbackProofs ------------------------
(***************************************************************************)
(* Proofs about EpochCallback that hold whoever its users are: its calls   *)
(* keep the epoch words, the contexts and the counter consistent.  The     *)
(* proofs of its users, CallbackProofs and MapReclaimProofs, cite them.    *)
(***************************************************************************)
EXTENDS EpochCallback, FiniteSetTheorems, TLAPS

\* Every step of a call, and the two entries with what their callers assert:
\* epochs are normal ones.
CbOp(t) ==
    \/ CbStep(t)
    \/ RunCallback(t)
    \/ \E s \in 1 .. Int64Max - 2 : Drain(t, s)
    \/ \E c \in Ctx, e \in NormalEpoch, s \in Nat : RegisterCallback(t, c, e, s)

LockSteps == {"count", "store", "swapped", "popped"}
Holds(t, i) == ci[t] = i /\ cpc[t] \in LockSteps

\* The slots a drain has behind it.
Passed(t, i) == i < ci[t] \/ (i = ci[t] /\ cpc[t] \in {"run", "decrement"})

\* What a thread carries at each step of a call.
CallShape(t) ==
    /\ draining[t] => cpc[t] \in {"look", "pop", "popped", "run", "decrement"}
    /\ cpc[t] \in {"pop", "popped", "decrement"} => draining[t]
    /\ cpc[t] \notin {"none", "look"} => ci[t] \in CbSlot
    /\ csafe[t] < LOCKED
    /\ IF ~draining[t] /\ cpc[t] \in {"look", "push", "count", "store", "swap", "swapped"}
       THEN mine[t] \in Ctx /\ mineEpoch[t] \in NormalEpoch
       ELSE mine[t] = NoCtx
    /\ IF cpc[t] = "run" THEN took[t] \in Ctx ELSE took[t] = NoCtx
    /\ cpc[t] = "push" => expected[t] = FREE
    /\ cpc[t] \in {"swap", "pop"} => expected[t] \in NormalEpoch /\ expected[t] <= csafe[t]

CallShapes == \A t \in Caller : CallShape(t)

\* Who has LOCKED a slot, and what its content is while it is and is not.
SlotLocks ==
    /\ \A i \in CbSlot : trigger[i] = LOCKED <=> \E t \in Caller : Holds(t, i)
    /\ \A i \in CbSlot : \A t, u \in Caller : Holds(t, i) /\ Holds(u, i) => t = u
    /\ \A i \in CbSlot : trigger[i] = FREE => context[i] = NoCtx
    /\ \A i \in CbSlot : Published(i) => context[i] \in Ctx
    /\ \A t \in Caller :
          /\ cpc[t] = "count" => context[ci[t]] = NoCtx
          /\ cpc[t] = "store" => context[ci[t]] = mine[t]
          /\ cpc[t] \in {"swapped", "popped"} => context[ci[t]] \in Ctx

CbInductive == CbTypeOK /\ CallShapes /\ SlotLocks /\ CountExact

\* What the proofs need to know of slots, loop indices and epoch words.
LEMMA CbFacts ==
  /\ 0 \in CbIndex /\ CbSlotCount \in CbIndex
  /\ \A i \in CbSlot : i \in CbIndex /\ i + 1 \in CbIndex
  /\ \A i \in CbIndex : i < CbSlotCount => i \in CbSlot
  /\ FREE \in Nat /\ LOCKED \in Nat /\ FREE # LOCKED /\ LOCKED < FREE
  /\ \A e \in NormalEpoch : e \in Nat /\ e < LOCKED /\ e > 0
  /\ \A e \in Nat : e > 0 /\ e < LOCKED => e \in NormalEpoch
  /\ FREE \notin NormalEpoch /\ LOCKED \notin NormalEpoch
BY CbAssumption DEF CbSlot, CbIndex, FREE, LOCKED, NormalEpoch

\* What the counter counts is finite.
LEMMA CbFinite ==
  /\ IsFiniteSet(Full) /\ Cardinality(Full) \in Nat
  /\ IsFiniteSet(Undeducted) /\ Cardinality(Undeducted) \in Nat
<1>1. IsFiniteSet(CbSlot)
  BY CbAssumption, FS_Interval, 0 \in Int, CbSlotCount - 1 \in Int DEF CbSlot
<1>2. IsFiniteSet(Full)
  BY <1>1, FS_Subset, Full \in SUBSET CbSlot DEF Full
<1>3. IsFiniteSet(Undeducted)
  BY CbAssumption, FS_Subset, Undeducted \in SUBSET Caller DEF Undeducted
<1> QED
  BY <1>2, <1>3, FS_CardinalityType

\* A step of thread t leaves the local variables of every other thread alone.
LEMMA CbOthers ==
  ASSUME CbTypeOK,
         NEW t \in Caller, CbOp(t),
         NEW u \in Caller, u # t
  PROVE  /\ cpc'[u] = cpc[u] /\ draining'[u] = draining[u] /\ ci'[u] = ci[u]
         /\ expected'[u] = expected[u] /\ csafe'[u] = csafe[u] /\ mine'[u] = mine[u]
         /\ mineEpoch'[u] = mineEpoch[u] /\ took'[u] = took[u] /\ result'[u] = result[u]
<1> USE DEF CbTypeOK, cbCall, cbSlots, NextSlot, CbReturn
<1>1. CASE Look(t) \/ LookEnd(t)
  BY <1>1 DEF Look, LookEnd
<1>2. CASE PushLock(t) \/ SwapLock(t) \/ PopLock(t)
  BY <1>2 DEF PushLock, SwapLock, PopLock, Lock
<1>3. CASE PushCount(t) \/ PushStore(t) \/ SwapStore(t) \/ PopStore(t)
  BY <1>3 DEF PushCount, PushStore, SwapStore, PopStore
<1>4. CASE Decrement(t) \/ RunCallback(t)
  BY <1>4 DEF Decrement, RunCallback
<1>5. CASE \E s \in 1 .. Int64Max - 2 : Drain(t, s)
  BY <1>5 DEF Drain
<1>6. CASE \E c \in Ctx, e \in NormalEpoch, s \in Nat : RegisterCallback(t, c, e, s)
  BY <1>6 DEF RegisterCallback
<1> QED
  BY <1>1, <1>2, <1>3, <1>4, <1>5, <1>6 DEF CbOp, CbStep

\* A return leaves what the call used in its type.
LEMMA CbReturnTypes ==
  ASSUME CbTypeOK, NEW t \in Caller, NEW r \in BOOLEAN, CbReturn(t, r)
  PROVE  /\ cpc' \in [Caller -> CbPlace] /\ draining' \in [Caller -> BOOLEAN]
         /\ ci' \in [Caller -> CbIndex] /\ expected' \in [Caller -> NormalEpoch \cup {FREE}]
         /\ csafe' \in [Caller -> Nat] /\ mine' \in [Caller -> Ctx \cup {NoCtx}]
         /\ mineEpoch' \in [Caller -> NormalEpoch \cup {0}]
         /\ result' \in [Caller -> BOOLEAN]
<1>1. 0 \in CbIndex /\ FREE \in NormalEpoch \cup {FREE} /\ "none" \in CbPlace
  BY CbFacts DEF CbPlace
<1> QED
  BY <1>1 DEF CbTypeOK, CbReturn

\* Every step keeps every variable in its type: the counter is positive when
\* it is decremented, and only normal epochs are loaded for a swap or a pop.
LEMMA CbTypeStep ==
  ASSUME CbInductive, NEW t \in Caller, CbOp(t)
  PROVE  CbTypeOK'
<1> USE DEF CbInductive, CbTypeOK, cbCall, cbSlots, NextSlot, CbReturn
<1>0. /\ 0 \in CbIndex /\ CbSlot \subseteq CbIndex /\ FREE \in NormalEpoch \cup {FREE}
      /\ LOCKED \in NormalEpoch \cup {FREE, LOCKED}
      /\ \A i \in CbSlot : i + 1 \in CbIndex
      /\ {"none", "look", "push", "swap", "pop"} \subseteq CbPlace
      /\ {"count", "store", "swapped", "popped", "run", "decrement"} \subseteq CbPlace
  BY CbFacts DEF CbPlace
<1>1. CASE Look(t)
  <2> DEFINE e == trigger[ci[t]]
  <2>1. ci[t] \in CbSlot /\ e \in NormalEpoch \cup {FREE, LOCKED}
    BY <1>1, CbFacts DEF Look
  <2>2. csafe[t] \in Nat /\ csafe[t] < LOCKED
    BY DEF CallShapes, CallShape
  <2>3. e <= csafe[t] => e \in NormalEpoch
    BY <2>1, <2>2, CbFacts
  <2> QED
    BY <1>0, <1>1, <2>1, <2>3 DEF Look
<1>2. CASE LookEnd(t)
  BY <1>0, <1>2 DEF LookEnd
<1>3. CASE PushLock(t) \/ SwapLock(t) \/ PopLock(t)
  <2>1. ci[t] \in CbSlot
    BY <1>0, <1>3 DEF PushLock, SwapLock, PopLock, Lock, CallShapes, CallShape
  <2> QED
    BY <1>0, <1>3, <2>1 DEF PushLock, SwapLock, PopLock, Lock
<1>4. CASE PushCount(t)
  <2>1. context' \in [CbSlot -> Ctx \cup {NoCtx}]
    BY <1>4 DEF PushCount
  <2>2. drain_count' \in Nat /\ cpc' \in [Caller -> CbPlace]
    BY <1>0, <1>4 DEF PushCount
  <2> QED
    BY <1>4, <2>1, <2>2 DEF PushCount
<1>5. CASE PushStore(t)
  BY <1>0, <1>5 DEF PushStore, CallShapes, CallShape
<1>6. CASE SwapStore(t)
  BY <1>0, <1>6 DEF SwapStore, CallShapes, CallShape
<1>7. CASE PopStore(t)
  BY <1>0, <1>7 DEF PopStore, CallShapes, CallShape
<1>8. CASE Decrement(t)
  <2>1. ci[t] \in CbSlot /\ t \in Undeducted
    BY <1>0, <1>8 DEF Decrement, CallShapes, CallShape, Undeducted
  <2>2. IsFiniteSet(Full) /\ IsFiniteSet(Undeducted)
    BY CbFinite
  <2>3. Cardinality(Full) \in Nat /\ Cardinality(Undeducted) \in Nat /\ Cardinality(Undeducted) > 0
    BY <2>1, <2>2, FS_CardinalityType, FS_EmptySet
  <2>4. drain_count - 1 \in Nat
    BY <2>3 DEF CountExact
  <2>5. CASE drain_count = 1
    <3> HIDE DEF CbReturn
    <3> QED
      BY <1>8, <2>4, <2>5, CbReturnTypes DEF Decrement
  <2>6. CASE drain_count # 1
    BY <1>0, <1>8, <2>1, <2>4, <2>6 DEF Decrement
  <2> QED
    BY <2>5, <2>6
<1>9. CASE RunCallback(t)
  <2>1. cpc' \in [Caller -> CbPlace] /\ took' \in [Caller -> Ctx \cup {NoCtx}]
    BY <1>0, <1>9 DEF RunCallback
  <2>2. CASE draining[t]
    BY <1>9, <2>1, <2>2 DEF RunCallback
  <2>3. CASE ~draining[t]
    <3> HIDE DEF CbReturn
    <3> QED
      BY <1>9, <2>1, <2>3, CbReturnTypes DEF RunCallback
  <2> QED
    BY <2>2, <2>3
<1>10. CASE \E s \in 1 .. Int64Max - 2 : Drain(t, s)
  <2> PICK s \in 1 .. Int64Max - 2 : Drain(t, s)
    BY <1>10
  <2>1. s \in Nat
    BY CbAssumption
  <2>2. CASE drain_count > 0
    BY <1>0, <2>1, <2>2 DEF Drain
  <2>3. CASE ~(drain_count > 0)
    BY <2>3 DEF Drain
  <2> QED
    BY <2>2, <2>3
<1>11. CASE \E c \in Ctx, e \in NormalEpoch, s \in Nat : RegisterCallback(t, c, e, s)
  BY <1>0, <1>11 DEF RegisterCallback
<1> QED
  BY <1>1, <1>2, <1>3, <1>4, <1>5, <1>6, <1>7, <1>8, <1>9, <1>10, <1>11 DEF CbOp, CbStep

\* What each thread carries stays as it should be at its place.
LEMMA CallShapeStep ==
  ASSUME CbInductive, NEW t \in Caller, CbOp(t)
  PROVE  CallShapes'
<1> SUFFICES ASSUME NEW u \in Caller PROVE CallShape(u)'
  BY DEF CallShapes
<1>0. CbTypeOK /\ CallShape(u) /\ CallShape(t) /\ SlotLocks
  BY DEF CbInductive, CallShapes
<1>1. CASE u # t
  BY <1>0, <1>1, CbOthers DEF CallShape
<1>2. CASE u = t
  <2> USE <1>0 DEF CbTypeOK, CallShape, cbCall, cbSlots, NextSlot, CbReturn
  <2>0. 0 \in Nat /\ 0 < LOCKED
    BY CbAssumption DEF LOCKED
  <2>1. CASE Look(t)
    <3> DEFINE e == trigger[ci[t]]
    <3>1. ci[t] \in CbSlot /\ e \in NormalEpoch \cup {FREE, LOCKED}
      BY <2>1, CbFacts DEF Look
    <3>2. e <= csafe[t] => e \in NormalEpoch
      BY <3>1, CbFacts
    <3> QED
      BY <1>2, <2>1, <3>1, <3>2 DEF Look
  <2>2. CASE LookEnd(t)
    BY <1>2, <2>0, <2>2 DEF LookEnd
  <2>3. CASE PushLock(t) \/ SwapLock(t) \/ PopLock(t)
    BY <1>2, <2>3 DEF PushLock, SwapLock, PopLock, Lock
  <2>4. CASE PushCount(t)
    BY <1>2, <2>4 DEF PushCount
  <2>5. CASE PushStore(t)
    BY <1>2, <2>0, <2>5 DEF PushStore
  <2>6. CASE SwapStore(t)
    BY <1>2, <2>6 DEF SwapStore, SlotLocks
  <2>7. CASE PopStore(t)
    BY <1>2, <2>7 DEF PopStore, SlotLocks
  <2>8. CASE Decrement(t)
    BY <1>2, <2>0, <2>8 DEF Decrement
  <2>9. CASE RunCallback(t)
    BY <1>2, <2>0, <2>9 DEF RunCallback
  <2>10. CASE \E s \in 1 .. Int64Max - 2 : Drain(t, s)
    BY <1>2, <2>10, CbAssumption DEF Drain, LOCKED
  <2>11. CASE \E c \in Ctx, e \in NormalEpoch, s \in Nat : RegisterCallback(t, c, e, s)
    BY <1>2, <2>11, CbFacts DEF RegisterCallback
  <2> QED
    BY <2>1, <2>2, <2>3, <2>4, <2>5, <2>6, <2>7, <2>8, <2>9, <2>10, <2>11 DEF CbOp, CbStep
<1> QED
  BY <1>1, <1>2

\* The counter moves with the slots and with the contexts not yet deducted.
LEMMA CountStep ==
  ASSUME CbInductive, NEW t \in Caller, CbOp(t)
  PROVE  CountExact'
<1> USE DEF CbInductive, CbTypeOK, cbCall, cbSlots, NextSlot, CbReturn
<1>0. CallShape(t) /\ NoCtx \notin Ctx
  BY CbAssumption DEF CallShapes
<1>1. CASE \/ Look(t) \/ LookEnd(t) \/ PushLock(t) \/ SwapLock(t) \/ PopLock(t) \/ PushStore(t)
           \/ \E s \in 1 .. Int64Max - 2 : Drain(t, s)
           \/ \E c \in Ctx, e \in NormalEpoch, s \in Nat : RegisterCallback(t, c, e, s)
  <2>1. drain_count' = drain_count /\ context' = context
    BY <1>1 DEF Look, LookEnd, PushLock, SwapLock, PopLock, Lock, PushStore, Drain, RegisterCallback
  <2>2. Undeducted' = Undeducted
    BY <1>0, <1>1 DEF Look, LookEnd, PushLock, SwapLock, PopLock, Lock, PushStore, Drain,
                RegisterCallback, Undeducted, CallShape
  <2> QED
    BY <2>1, <2>2 DEF CountExact, Full
<1>2. CASE PushCount(t)
  <2>1. ci[t] \in CbSlot /\ ci[t] \notin Full /\ mine[t] \in Ctx
    BY <1>0, <1>2 DEF PushCount, CallShape, SlotLocks, Full
  <2>2. Full' = Full \cup {ci[t]}
    BY <1>0, <1>2, <2>1 DEF PushCount, Full
  <2>3. Undeducted' = Undeducted
    BY <1>0, <1>2 DEF PushCount, Undeducted
  <2>4. Cardinality(Full') = Cardinality(Full) + 1
    BY <2>1, <2>2, CbFinite, FS_AddElement
  <2> QED
    BY <1>2, <2>3, <2>4, CbFinite DEF PushCount, CountExact
<1>3. CASE SwapStore(t)
  <2>1. ci[t] \in CbSlot /\ context[ci[t]] \in Ctx /\ mine[t] \in Ctx
    BY <1>0, <1>3 DEF SwapStore, CallShape, SlotLocks
  <2>2. Full' = Full
    BY <1>0, <1>3, <2>1 DEF SwapStore, Full
  <2>3. Undeducted' = Undeducted
    BY <1>0, <1>3 DEF SwapStore, Undeducted, CallShape
  <2> QED
    BY <1>3, <2>2, <2>3 DEF SwapStore, CountExact
<1>4. CASE PopStore(t)
  <2>1. ci[t] \in Full /\ t \notin Undeducted /\ draining[t]
    BY <1>0, <1>4 DEF PopStore, CallShape, SlotLocks, Full, Undeducted
  <2>2. Full' = Full \ {ci[t]}
    BY <1>4 DEF PopStore, Full
  <2>3. Undeducted' = Undeducted \cup {t}
    BY <1>4, <2>1 DEF PopStore, Undeducted
  <2>4. Cardinality(Full') = Cardinality(Full) - 1
    BY <2>1, <2>2, CbFinite, FS_RemoveElement, ZenonT(30)
  <2>5. Cardinality(Undeducted') = Cardinality(Undeducted) + 1
    BY <2>1, <2>3, CbFinite, FS_AddElement
  <2> QED
    BY <1>4, <2>4, <2>5, CbFinite DEF PopStore, CountExact
<1>5. CASE RunCallback(t)
  <2>1. Undeducted' = Undeducted
    BY <1>0, <1>5 DEF RunCallback, Undeducted
  <2> QED
    BY <1>5, <2>1 DEF RunCallback, CountExact, Full
<1>6. CASE Decrement(t)
  <2>1. t \in Undeducted
    BY <1>0, <1>6 DEF Decrement, CallShape, Undeducted
  <2>2. Undeducted' = Undeducted \ {t}
    BY <1>6 DEF Decrement, Undeducted
  <2>3. Cardinality(Undeducted') = Cardinality(Undeducted) - 1
    BY <2>1, <2>2, CbFinite, FS_RemoveElement
  <2> QED
    BY <1>6, <2>3, CbFinite DEF Decrement, CountExact, Full
<1> QED
  BY <1>1, <1>2, <1>3, <1>4, <1>5, <1>6 DEF CbOp, CbStep

\* Steps that neither take nor release a lock leave slots and locks alone.
LEMMA LocksUntouched ==
  ASSUME CbInductive, NEW t \in Caller,
         UNCHANGED <<trigger, context>>,
         cpc[t] \notin LockSteps, cpc'[t] \notin LockSteps,
         \A u \in Caller : u # t => cpc'[u] = cpc[u] /\ ci'[u] = ci[u] /\ mine'[u] = mine[u]
  PROVE  SlotLocks'
<1>1. \A u \in Caller, i \in CbSlot : Holds(u, i)' <=> Holds(u, i)
  BY DEF Holds
<1> QED
  BY <1>1 DEF CbInductive, SlotLocks, Published, LockSteps

\* An epoch word is LOCKED while exactly one thread will store to it, and the
\* content of the slot agrees with its word or with what the holder is doing.
LEMMA SlotLocksStep ==
  ASSUME CbInductive, NEW t \in Caller, CbOp(t)
  PROVE  SlotLocks'
<1> USE DEF CbInductive, CbTypeOK, cbCall, cbSlots, NextSlot, CbReturn
<1>0. CallShape(t) /\ NoCtx \notin Ctx
  BY CbAssumption DEF CallShapes
<1>a. \A u \in Caller : u # t => cpc'[u] = cpc[u] /\ ci'[u] = ci[u] /\ mine'[u] = mine[u]
  BY CbOthers
<1>b. \A u \in Caller, i \in CbSlot : u # t => (Holds(u, i)' <=> Holds(u, i))
  BY <1>a DEF Holds
<1>1. CASE \/ Look(t) \/ LookEnd(t) \/ Decrement(t) \/ RunCallback(t)
           \/ \E s \in 1 .. Int64Max - 2 : Drain(t, s)
           \/ \E c \in Ctx, e \in NormalEpoch, s \in Nat : RegisterCallback(t, c, e, s)
  <2>1. UNCHANGED <<trigger, context>>
    BY <1>1 DEF Look, LookEnd, Drain, RegisterCallback, Decrement, RunCallback
  <2>2. cpc[t] \notin LockSteps /\ cpc'[t] \notin LockSteps
    BY <1>1 DEF Look, LookEnd, Drain, RegisterCallback, Decrement, RunCallback, LockSteps
  <2> QED
    BY <1>a, <2>1, <2>2, LocksUntouched
<1>2. CASE PushLock(t) \/ SwapLock(t) \/ PopLock(t)
  <2> DEFINE i == ci[t]
  <2>1. CASE trigger[i] # expected[t]
    <3>1. UNCHANGED <<trigger, context>>
      BY <1>2, <2>1 DEF PushLock, SwapLock, PopLock, Lock
    <3>2. cpc[t] \notin LockSteps /\ cpc'[t] \notin LockSteps
      BY <1>2, <2>1 DEF PushLock, SwapLock, PopLock, Lock, LockSteps
    <3> QED
      BY <1>a, <3>1, <3>2, LocksUntouched
  <2>2. CASE trigger[i] = expected[t]
    <3>1. /\ i \in CbSlot /\ cpc[t] \notin LockSteps /\ cpc[t] \in {"push", "swap", "pop"}
          /\ trigger' = [trigger EXCEPT ![i] = LOCKED] /\ context' = context
          /\ ci' = ci /\ mine' = mine
          /\ cpc' = [cpc EXCEPT ![t] = CASE cpc[t] = "push" -> "count"
                                       [] cpc[t] = "swap" -> "swapped"
                                       [] cpc[t] = "pop" -> "popped"]
      BY <1>0, <1>2, <2>2 DEF PushLock, SwapLock, PopLock, Lock, CallShape, LockSteps
    <3>2. trigger[i] # LOCKED
      BY <1>0, <2>2, <3>1, CbFacts DEF CallShape
    <3>3. /\ \A u \in Caller : ~Holds(u, i)
          /\ \A j \in CbSlot : ~Holds(t, j)
      BY <3>1, <3>2 DEF SlotLocks, Holds
    <3>4. \A u \in Caller, j \in CbSlot : Holds(u, j)' <=> Holds(u, j) \/ (u = t /\ j = i)
      BY <1>b, <3>1, <3>3 DEF Holds, LockSteps
    <3>5. /\ cpc'[t] = "count" => context[i] = NoCtx
          /\ cpc'[t] # "store"
          /\ cpc'[t] \in {"swapped", "popped"} => context[i] \in Ctx
      BY <1>0, <2>2, <3>1 DEF CallShape, SlotLocks, Published
    <3>6. /\ \A j \in CbSlot : trigger'[j] = LOCKED <=> \E u \in Caller : Holds(u, j)'
          /\ \A j \in CbSlot : \A u, v \in Caller : Holds(u, j)' /\ Holds(v, j)' => u = v
      BY <3>1, <3>3, <3>4 DEF SlotLocks
    <3>7. \A j \in CbSlot : /\ trigger'[j] = FREE => context'[j] = NoCtx
                            /\ trigger'[j] \in NormalEpoch => context'[j] \in Ctx
      BY <3>1, CbFacts DEF SlotLocks, Published
    <3>8. \A u \in Caller :
             /\ cpc'[u] = "count" => context'[ci'[u]] = NoCtx
             /\ cpc'[u] = "store" => context'[ci'[u]] = mine'[u]
             /\ cpc'[u] \in {"swapped", "popped"} => context'[ci'[u]] \in Ctx
      <4> SUFFICES ASSUME NEW u \in Caller
                   PROVE  /\ cpc'[u] = "count" => context'[ci'[u]] = NoCtx
                          /\ cpc'[u] = "store" => context'[ci'[u]] = mine'[u]
                          /\ cpc'[u] \in {"swapped", "popped"} => context'[ci'[u]] \in Ctx
        OBVIOUS
      <4>1. CASE u = t
        BY <3>1, <3>5, <4>1
      <4>2. CASE u # t
        BY <1>a, <3>1, <4>2 DEF SlotLocks
      <4> QED
        BY <4>1, <4>2
    <3> QED
      BY <3>6, <3>7, <3>8 DEF SlotLocks, Published
  <2> QED
    BY <2>1, <2>2
<1>3. CASE PushCount(t)
  <2>1. /\ ci[t] \in CbSlot /\ trigger' = trigger /\ ci' = ci /\ mine' = mine
        /\ context' = [context EXCEPT ![ci[t]] = mine[t]]
        /\ cpc[t] = "count" /\ cpc' = [cpc EXCEPT ![t] = "store"]
    BY <1>0, <1>3 DEF PushCount, CallShape
  <2>2. \A u \in Caller, j \in CbSlot : Holds(u, j)' <=> Holds(u, j)
    BY <2>1 DEF Holds, LockSteps
  <2>3. \A u \in Caller : u # t /\ cpc[u] \in LockSteps => ci[u] # ci[t]
    BY <2>1 DEF SlotLocks, Holds, LockSteps
  <2>4. trigger[ci[t]] = LOCKED
    BY <2>1 DEF SlotLocks, Holds, LockSteps
  <2>5. \A j \in CbSlot : /\ trigger'[j] = FREE => context'[j] = NoCtx
                          /\ trigger'[j] \in NormalEpoch => context'[j] \in Ctx
    BY <2>1, <2>4, CbFacts DEF SlotLocks, Published
  <2>6. \A u \in Caller :
             /\ cpc'[u] = "count" => context'[ci'[u]] = NoCtx
             /\ cpc'[u] = "store" => context'[ci'[u]] = mine'[u]
             /\ cpc'[u] \in {"swapped", "popped"} => context'[ci'[u]] \in Ctx
    BY <2>1, <2>3 DEF SlotLocks, LockSteps
  <2>7. /\ \A j \in CbSlot : trigger'[j] = LOCKED <=> \E u \in Caller : Holds(u, j)'
        /\ \A j \in CbSlot : \A u, v \in Caller : Holds(u, j)' /\ Holds(v, j)' => u = v
    BY <2>1, <2>2 DEF SlotLocks
  <2> QED
    BY <2>5, <2>6, <2>7 DEF SlotLocks, Published
<1>4. CASE PushStore(t) \/ SwapStore(t) \/ PopStore(t)
  <2> DEFINE i == ci[t]
  <2>1. /\ i \in CbSlot /\ cpc[t] \in LockSteps /\ cpc'[t] \notin LockSteps
        /\ trigger'[i] # LOCKED
        /\ \A j \in CbSlot : j # i => trigger'[j] = trigger[j] /\ context'[j] = context[j]
    BY <1>0, <1>4, CbFacts DEF PushStore, SwapStore, PopStore, CallShape, LockSteps
  <2>2. /\ trigger'[i] = FREE => context'[i] = NoCtx
        /\ trigger'[i] \in NormalEpoch => context'[i] \in Ctx
    BY <1>0, <1>4, <2>1, CbFacts DEF PushStore, SwapStore, PopStore, CallShape, SlotLocks
  <2>3. /\ Holds(t, i)
        /\ \A u \in Caller : u # t => ~Holds(u, i)
        /\ \A j \in CbSlot : ~Holds(t, j)' /\ (j # i => ~Holds(t, j))
    BY <2>1 DEF Holds, SlotLocks
  <2>4. \A u \in Caller, j \in CbSlot : Holds(u, j)' <=> Holds(u, j) /\ u # t
    BY <1>b, <2>1, <2>3
  <2>5. /\ \A j \in CbSlot : trigger'[j] = LOCKED <=> \E u \in Caller : Holds(u, j)'
        /\ \A j \in CbSlot : \A u, v \in Caller : Holds(u, j)' /\ Holds(v, j)' => u = v
    BY <2>1, <2>3, <2>4 DEF SlotLocks
  <2>6. \A u \in Caller : u # t /\ cpc[u] \in LockSteps => ci[u] \in CbSlot /\ ci[u] # i
    BY <2>3 DEF Holds, CallShapes, CallShape, LockSteps
  <2>7. \A u \in Caller :
           /\ cpc'[u] = "count" => context'[ci'[u]] = NoCtx
           /\ cpc'[u] = "store" => context'[ci'[u]] = mine'[u]
           /\ cpc'[u] \in {"swapped", "popped"} => context'[ci'[u]] \in Ctx
    BY <1>a, <2>1, <2>6 DEF SlotLocks, LockSteps
  <2> QED
    BY <2>1, <2>2, <2>5, <2>7 DEF SlotLocks, Published
<1> QED
  BY <1>1, <1>2, <1>3, <1>4 DEF CbOp, CbStep

\* An empty list satisfies the invariant.
LEMMA CbInitially == CbInit => CbInductive
<1> SUFFICES ASSUME CbInit PROVE CbInductive
  OBVIOUS
<1>1. CbTypeOK
  BY CbFacts DEF CbInit, CbTypeOK, CbPlace
<1>2. CallShapes
  BY CbAssumption DEF CbInit, CallShapes, CallShape, LOCKED
<1>3. SlotLocks
  BY CbFacts DEF CbInit, SlotLocks, Holds, LockSteps, Published
<1>4. Full = {} /\ Undeducted = {}
  BY DEF CbInit, Full, Undeducted
<1>5. CountExact
  BY <1>4, FS_EmptySet DEF CbInit, CountExact
<1> QED
  BY <1>1, <1>2, <1>3, <1>5 DEF CbInductive

\* Every step of every call keeps the invariant.
LEMMA CbInductiveStep ==
  ASSUME CbInductive, NEW t \in Caller, CbOp(t)
  PROVE  CbInductive'
BY CbTypeStep, CallShapeStep, SlotLocksStep, CountStep DEF CbInductive

\* So does a step that leaves the list alone.
LEMMA CbInductiveStutter ==
  ASSUME CbInductive, UNCHANGED cbVars
  PROVE  CbInductive'
BY DEF CbInductive, cbVars, CbTypeOK, CallShapes, CallShape, SlotLocks, Holds, Published,
       CountExact, Full, Undeducted

\* A zero counter means that nothing is kept, on which drain's early exits and
\* the destructor rely; and nothing is counted but what is kept or being run.
LEMMA CountZero ==
  ASSUME CbInductive
  PROVE  /\ drain_count = 0 => \A i \in CbSlot : context[i] = NoCtx
         /\ (\A i \in CbSlot : context[i] = NoCtx) /\ (\A t \in Caller : cpc[t] = "none") =>
               drain_count = 0
<1>0. CountExact /\ Cardinality(Full) \in Nat /\ Cardinality(Undeducted) \in Nat /\ IsFiniteSet(Full)
  BY CbFinite DEF CbInductive
<1>1. ASSUME drain_count = 0, NEW i \in CbSlot PROVE context[i] = NoCtx
  <2>1. Cardinality(Full) = 0
    BY <1>0, <1>1 DEF CountExact
  <2>2. Full = {}
    BY <1>0, <2>1, FS_EmptySet
  <2> QED
    BY <2>2 DEF Full
<1>2. ASSUME \A i \in CbSlot : context[i] = NoCtx, \A t \in Caller : cpc[t] = "none"
      PROVE  drain_count = 0
  <2>1. Full = {} /\ Undeducted = {}
    BY <1>2 DEF Full, Undeducted
  <2> QED
    BY <1>0, <2>1, FS_EmptySet DEF CountExact
<1> QED
  BY <1>1, <1>2

\* Within a call its arguments stay, and a context it no longer has is gone.
LEMMA CallLocals ==
  ASSUME CbTypeOK, NEW t \in Caller, CbStep(t) \/ RunCallback(t)
  PROVE  /\ cpc[t] # "none"
         /\ csafe'[t] = csafe[t] \/ csafe'[t] = 0
         /\ cpc'[t] # "none" => /\ draining'[t] = draining[t] /\ result'[t] = result[t]
                                /\ csafe'[t] = csafe[t]
         /\ mine'[t] # NoCtx => mine'[t] = mine[t] /\ mineEpoch'[t] = mineEpoch[t]
<1> USE DEF CbTypeOK, cbCall, cbSlots, NextSlot, CbReturn
<1>1. CASE Look(t) \/ LookEnd(t)
  BY <1>1 DEF Look, LookEnd
<1>2. CASE PushLock(t) \/ SwapLock(t) \/ PopLock(t)
  BY <1>2 DEF PushLock, SwapLock, PopLock, Lock
<1>3. CASE PushCount(t) \/ PushStore(t) \/ SwapStore(t) \/ PopStore(t)
  BY <1>3 DEF PushCount, PushStore, SwapStore, PopStore
<1>4. CASE Decrement(t)
  BY <1>4 DEF Decrement
<1>5. CASE RunCallback(t)
  BY <1>5 DEF RunCallback
<1> QED
  BY <1>1, <1>2, <1>3, <1>4, <1>5 DEF CbStep

(***************************************************************************)
(* What a user of the list may rely on, step by step.                      *)
(***************************************************************************)
\* A slot shows what it showed before, or what the step's own call brought.
LEMMA SlotShows ==
  ASSUME CbInductive, NEW t \in Caller, CbOp(t), NEW i \in CbSlot, Published(i)'
  PROVE  \/ Published(i) /\ trigger'[i] = trigger[i] /\ context'[i] = context[i]
         \/ mine[t] \in Ctx /\ trigger'[i] = mineEpoch[t] /\ context'[i] = mine[t]
<1> USE DEF CbInductive, CbTypeOK, cbCall, cbSlots, NextSlot, CbReturn, Published
<1>0. /\ CallShape(t) /\ FREE \notin NormalEpoch /\ LOCKED \notin NormalEpoch
      /\ cpc[t] = "store" => context[ci[t]] = mine[t]
      /\ cpc[t] = "count" => trigger[ci[t]] = LOCKED
  BY CbFacts DEF CallShapes, SlotLocks, Holds, LockSteps, CallShape
<1>1. CASE PushLock(t) \/ SwapLock(t) \/ PopLock(t)
  BY <1>0, <1>1 DEF PushLock, SwapLock, PopLock, Lock, CallShape
<1>2. CASE PushCount(t)
  BY <1>0, <1>2 DEF PushCount, CallShape
<1>3. CASE PushStore(t)
  BY <1>0, <1>3 DEF PushStore, CallShape
<1>4. CASE SwapStore(t)
  BY <1>0, <1>4 DEF SwapStore, CallShape
<1>5. CASE PopStore(t)
  BY <1>0, <1>5 DEF PopStore, CallShape
<1>6. CASE Look(t) \/ LookEnd(t) \/ Decrement(t) \/ RunCallback(t)
  BY <1>6 DEF Look, LookEnd, Decrement, RunCallback
<1>7. CASE \/ \E s \in 1 .. Int64Max - 2 : Drain(t, s)
           \/ \E c \in Ctx, e \in NormalEpoch, s \in Nat : RegisterCallback(t, c, e, s)
  BY <1>7 DEF Drain, RegisterCallback
<1> QED
  BY <1>1, <1>2, <1>3, <1>4, <1>5, <1>6, <1>7 DEF CbOp, CbStep

\* What is in a locked slot is its holder's affair.
LEMMA LockedKept ==
  ASSUME CbInductive, NEW t \in Caller, CbOp(t),
         NEW u \in Caller, u # t, cpc[u] \in LockSteps
  PROVE  context'[ci[u]] = context[ci[u]]
<1> USE DEF CbInductive, CbTypeOK
<1>1. cpc[t] \in LockSteps => ci[t] # ci[u]
  <2>1. ci[u] \in CbSlot
    BY DEF CallShapes, CallShape, LockSteps
  <2> QED
    BY <2>1 DEF SlotLocks, Holds
<1>2. \/ UNCHANGED context
      \/ cpc[t] \in LockSteps /\ \A i \in CbSlot : i # ci[t] => context'[i] = context[i]
  BY DEF CbOp, CbStep, Look, LookEnd, PushLock, SwapLock, PopLock, Lock, PushCount, PushStore,
         SwapStore, PopStore, Decrement, RunCallback, Drain, RegisterCallback, cbSlots, LockSteps
<1>3. ci[u] \in CbSlot
  BY DEF CallShapes, CallShape, LockSteps
<1> QED
  BY <1>1, <1>2, <1>3

\* A slot is locked to be emptied only if it shows an epoch that is safe.
LEMMA LockedWhenSafe ==
  ASSUME CbInductive, NEW t \in Caller, CbOp(t), cpc'[t] \in {"swapped", "popped"}
  PROVE  /\ UNCHANGED context /\ ci'[t] = ci[t] /\ ci[t] \in CbSlot
         /\ Published(ci[t]) /\ trigger[ci[t]] <= csafe[t]
<1> USE DEF CbInductive, CbTypeOK
<1>1. SwapLock(t) \/ PopLock(t)
  BY DEF CbOp, CbStep, Look, LookEnd, PushLock, Lock, PushCount, PushStore, CbReturn, NextSlot,
         SwapStore, PopStore, Decrement, RunCallback, Drain, RegisterCallback, cbSlots
<1>2. CallShape(t) /\ cpc[t] \in {"swap", "pop"}
  BY <1>1 DEF CallShapes, SwapLock, PopLock, Lock
<1>3. trigger[ci[t]] = expected[t] /\ UNCHANGED <<context, ci>>
  BY <1>1, <1>2 DEF SwapLock, PopLock, Lock, NextSlot
<1> QED
  BY <1>2, <1>3 DEF CallShape, Published

\* What a thread is about to run it has taken from a slot it locked for that.
LEMMA TookFrom ==
  ASSUME CbInductive, NEW t \in Caller, CbOp(t)
  PROVE  \/ took'[t] \in {took[t], NoCtx}
         \/ cpc[t] \in {"swapped", "popped"} /\ took'[t] = context[ci[t]]
BY DEF CbInductive, CbTypeOK, CbOp, CbStep, Look, LookEnd, PushLock, SwapLock, PopLock, Lock,
       PushCount, PushStore, SwapStore, PopStore, Decrement, RunCallback, Drain, RegisterCallback

\* The same of the state a step leads to.
LEMMA CountZeroNext ==
  ASSUME CbInductive'
  PROVE  /\ drain_count' = 0 => \A i \in CbSlot : context'[i] = NoCtx
         /\ (\A i \in CbSlot : context'[i] = NoCtx) /\ (\A t \in Caller : cpc'[t] = "none") =>
               drain_count' = 0
<1>0. /\ drain_count' = Cardinality(Full') + Cardinality(Undeducted')
      /\ IsFiniteSet(Full') /\ Cardinality(Full') \in Nat /\ Cardinality(Undeducted') \in Nat
  <2>1. Full' \in SUBSET CbSlot /\ Undeducted' \in SUBSET Caller
    BY DEF Full, Undeducted
  <2>2. IsFiniteSet(CbSlot) /\ IsFiniteSet(Caller)
    BY CbAssumption, FS_Interval, 0 \in Int, CbSlotCount - 1 \in Int DEF CbSlot
  <2>3. CountExact'
    BY DEF CbInductive
  <2>4. drain_count' = Cardinality(Full') + Cardinality(Undeducted')
    BY <2>3 DEF CountExact
  <2> QED
    BY <2>1, <2>2, <2>4, FS_Subset, FS_CardinalityType
<1>1. ASSUME drain_count' = 0, NEW i \in CbSlot PROVE context'[i] = NoCtx
  <2>1. Cardinality(Full') = 0
    BY <1>0, <1>1
  <2>2. Full' = {}
    BY <1>0, <2>1, FS_EmptySet
  <2> QED
    BY <2>2 DEF Full
<1>2. ASSUME \A i \in CbSlot : context'[i] = NoCtx, \A t \in Caller : cpc'[t] = "none"
      PROVE  drain_count' = 0
  <2>1. Full' = {} /\ Undeducted' = {}
    BY <1>2 DEF Full, Undeducted
  <2>2. Cardinality(Full') = 0 /\ Cardinality(Undeducted') = 0
    BY <2>1, FS_EmptySet
  <2> QED
    BY <1>0, <2>2
<1> QED
  BY <1>1, <1>2

\* A drain that is alone in the list, and for which every kept epoch is safe,
\* empties every slot it passes, and has emptied all when it returns.
LEMMA LoneDrain ==
  ASSUME CbInductive, CbInductive', NEW t \in Caller, CbStep(t) \/ RunCallback(t), draining[t],
         \A u \in Caller : u # t => cpc[u] = "none" /\ cpc'[u] = "none",
         \A i \in CbSlot : Published(i) => trigger[i] <= csafe[t],
         \A i \in CbSlot : Passed(t, i) => context[i] = NoCtx,
         cpc[t] = "pop" => trigger[ci[t]] = expected[t]
  PROVE  /\ cpc'[t] # "none" =>
               /\ \A i \in CbSlot : Passed(t, i)' => context'[i] = NoCtx
               /\ cpc'[t] = "pop" => trigger'[ci'[t]] = expected'[t]
         /\ cpc'[t] = "none" => drain_count' = 0 /\ \A i \in CbSlot : context'[i] = NoCtx
<1>0. /\ CbTypeOK /\ CallShape(t) /\ SlotLocks
      /\ \A i \in CbSlot : i \in Int /\ 0 <= i /\ i < CbSlotCount
      /\ ci[t] \in Int
  BY CbAssumption DEF CbInductive, CallShapes, CbSlot, CbTypeOK, CbIndex
<1>1. ASSUME drain_count' = 0 PROVE \A i \in CbSlot : context'[i] = NoCtx
  BY <1>1, CountZeroNext
<1>2. CASE Look(t)
  <2>1. ci[t] \in CbSlot /\ cpc[t] = "look" /\ UNCHANGED <<trigger, context>>
    BY <1>0, <1>2, CbFacts DEF Look, CbTypeOK, cbSlots
  <2>2. trigger[ci[t]] # LOCKED
    BY <1>0, <2>1 DEF SlotLocks, Holds, LockSteps
  <2>3. CASE Published(ci[t])
    <3>1. trigger[ci[t]] <= csafe[t] /\ trigger[ci[t]] # FREE /\ ~(trigger[ci[t]] > csafe[t])
      <4>1. trigger[ci[t]] <= csafe[t] /\ trigger[ci[t]] \in Nat /\ csafe[t] \in Nat
        BY <1>0, <2>1, <2>3, CbFacts DEF Published, CbTypeOK
      <4> QED
        BY <4>1, <2>3, CbFacts DEF Published
    <3>2. cpc'[t] = "pop" /\ expected'[t] = trigger[ci[t]] /\ ci' = ci
      BY <1>0, <1>2, <3>1 DEF Look, CbTypeOK, Published
    <3> QED
      BY <1>0, <2>1, <3>2 DEF Passed
  <2>4. CASE trigger[ci[t]] = FREE
    <3>1. ~(trigger[ci[t]] <= csafe[t]) /\ context[ci[t]] = NoCtx
      BY <1>0, <2>1, <2>4, CbFacts DEF CallShape, CbTypeOK, SlotLocks
    <3>2. cpc'[t] = "look" /\ ci'[t] = ci[t] + 1
      BY <1>0, <1>2, <3>1, <2>4 DEF Look, CbTypeOK, NextSlot
    <3> QED
      BY <1>0, <2>1, <3>1, <3>2 DEF Passed
  <2> QED
    BY <1>0, <2>1, <2>2, <2>3, <2>4 DEF CbTypeOK, Published
<1>3. CASE LookEnd(t)
  <2>1. ci[t] = CbSlotCount /\ UNCHANGED context /\ cpc'[t] = "none"
    BY <1>0, <1>3 DEF LookEnd, CbReturn, CbTypeOK, cbSlots
  <2>2. \A i \in CbSlot : context'[i] = NoCtx
    BY <1>0, <2>1 DEF Passed
  <2>3. \A u \in Caller : cpc'[u] = "none"
    BY <2>1
  <2> QED
    BY <2>1, <2>2, <2>3, CountZeroNext
<1>4. CASE PopLock(t)
  <2>1. cpc'[t] = "popped" /\ ci' = ci /\ UNCHANGED context /\ cpc[t] = "pop"
    BY <1>0, <1>4 DEF PopLock, Lock, CbTypeOK
  <2> QED
    BY <2>1 DEF Passed
<1>5. CASE PopStore(t)
  <2>1. /\ cpc'[t] = "run" /\ ci' = ci /\ cpc[t] = "popped"
        /\ context' = [context EXCEPT ![ci[t]] = NoCtx] /\ ci[t] \in CbSlot
    BY <1>0, <1>5 DEF PopStore, CbTypeOK, CallShape
  <2> QED
    BY <1>0, <2>1 DEF Passed, CbTypeOK
<1>6. CASE RunCallback(t)
  <2>1. cpc'[t] = "decrement" /\ ci' = ci /\ UNCHANGED context /\ cpc[t] = "run"
    BY <1>0, <1>6 DEF RunCallback, CbTypeOK, cbSlots
  <2> QED
    BY <2>1 DEF Passed
<1>7. CASE Decrement(t)
  <2>1. cpc[t] = "decrement" /\ drain_count' = drain_count - 1 /\ UNCHANGED context /\ drain_count \in Nat
    BY <1>0, <1>7 DEF Decrement, CbTypeOK
  <2>2. CASE drain_count = 1
    <3>1. drain_count' = 0 /\ cpc'[t] = "none"
      BY <1>0, <1>7, <2>1, <2>2 DEF Decrement, CbReturn, CbTypeOK
    <3> QED
      BY <1>1, <3>1
  <2>3. CASE drain_count # 1
    <3>1. cpc'[t] = "look" /\ ci'[t] = ci[t] + 1
      BY <1>0, <1>7, <2>3 DEF Decrement, NextSlot, CbTypeOK
    <3> QED
      BY <1>0, <2>1, <3>1 DEF Passed
  <2> QED
    BY <2>2, <2>3
<1>8. ~PushLock(t) /\ ~SwapLock(t) /\ ~PushCount(t) /\ ~PushStore(t) /\ ~SwapStore(t)
  BY <1>0 DEF PushLock, SwapLock, Lock, PushCount, PushStore, SwapStore, CallShape
<1> QED
  BY <1>2, <1>3, <1>4, <1>5, <1>6, <1>7, <1>8 DEF CbStep
=============================================================================
