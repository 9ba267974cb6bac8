--------------------------- MODULE CallbackProofs ---------------------------
(***************************************************************************)
(* Proofs about CallbackClients, for any number of threads, slots and      *)
(* contexts: CallbackInv, the refinement of CallbackPromise and the action *)
(* property DrainClears.                                                   *)
(***************************************************************************)
EXTENDS CallbackClients, EpochCallbackProofs

HistoryOK ==
    /\ newest \in 1 .. MaxSafe
    /\ due \in [Ctx -> {0} \cup 2 .. MaxSafe]
    /\ ran \in SUBSET Ctx
    /\ promised \in [Caller -> SUBSET Ctx]

\* A context handed in carries its reclaim epoch wherever it is, and has left
\* its slot only when that epoch was safe.
DueInv ==
    /\ \A i \in CbSlot : context[i] # NoCtx => due[context[i]] > 0
    /\ \A i \in CbSlot : Published(i) => due[context[i]] = trigger[i]
    /\ \A c \in ran : due[c] > 0
    /\ \A t \in Caller :
          /\ csafe[t] <= newest
          /\ mine[t] # NoCtx => due[mine[t]] = mineEpoch[t]
          /\ cpc[t] \in {"swapped", "popped"} => due[context[ci[t]]] <= newest
          /\ took[t] # NoCtx => 0 < due[took[t]] /\ due[took[t]] <= newest

\* No context is in two places.  Between the two stores of a push the caller
\* and the slot show the same one.
OnceInv ==
    /\ \A i, j \in CbSlot : context[i] # NoCtx /\ context[i] = context[j] => i = j
    /\ \A t \in Caller, i \in CbSlot :
          mine[t] # NoCtx /\ context[i] = mine[t] => cpc[t] = "store" /\ ci[t] = i
    /\ \A t \in Caller, i \in CbSlot : took[t] # NoCtx => context[i] # took[t]
    /\ \A t, u \in Caller : mine[t] # NoCtx /\ mine[t] = mine[u] => t = u
    /\ \A t, u \in Caller : took[t] # NoCtx /\ took[t] = took[u] => t = u
    /\ \A t, u \in Caller : mine[t] # NoCtx => mine[t] # took[u]
    /\ \A i \in CbSlot : context[i] \notin ran
    /\ \A t \in Caller : mine[t] \notin ran /\ took[t] \notin ran

\* No context is lost.
SomewhereInv ==
    \A c \in Ctx : due[c] > 0 =>
        \/ c \in ran
        \/ \E i \in CbSlot : context[i] = c
        \/ \E t \in Caller : mine[t] = c \/ took[t] = c

\* What a drain has promised to clear never comes back to a slot once it is
\* out, and where the drain has passed it, another thread is taking it out.
PromisedInv ==
    \A t \in Caller : draining[t] => \A c \in promised[t] :
        /\ due[c] > 0
        /\ \A u \in Caller : mine[u] # c
        /\ \A i \in CbSlot : context[i] = c =>
              /\ due[c] <= csafe[t]
              /\ Passed(t, i) => trigger[i] = LOCKED
              /\ i = ci[t] /\ cpc[t] = "pop" => expected[t] = due[c]

ClientInductive ==
    CbInductive /\ HistoryOK /\ DueInv /\ OnceInv /\ SomewhereInv /\ PromisedInv

\* The safe epoch is an epoch, and so is every epoch at which a context is due.
LEMMA SafeFacts ==
  ASSUME HistoryOK
  PROVE  /\ newest \in Nat /\ newest \in NormalEpoch /\ newest < LOCKED
         /\ \A s \in 1 .. newest : s \in Nat /\ s \in 1 .. Int64Max - 2 /\ s <= newest
         /\ \A e \in 2 .. MaxSafe : e \in NormalEpoch /\ e > 0
         /\ \A c \in Ctx : due[c] \in Nat
BY CbAssumption, MaxSafeAssumption DEF HistoryOK, NormalEpoch, LOCKED

\* Whatever a client does is an operation of the callback list.
LEMMA ClientOps ==
  ASSUME HistoryOK, NEW t \in Caller,
         ClientRegister(t) \/ ClientDrain(t) \/ ClientRun(t) \/ ClientStep(t)
  PROVE  CbOp(t)
<1>1. CASE ClientRegister(t)
  BY <1>1, SafeFacts DEF ClientRegister, CbOp
<1>2. CASE ClientDrain(t)
  BY <1>2, SafeFacts DEF ClientDrain, CbOp
<1> QED
  BY <1>1, <1>2 DEF ClientRun, ClientStep, CbOp

\* The histories keep their types, and promises are made of contexts only.
LEMMA HistoryStep ==
  ASSUME CbInductive, HistoryOK, [ClientNext]_clientVars
  PROVE  HistoryOK'
<1> USE DEF HistoryOK
<1>0. CASE UNCHANGED clientVars
  BY <1>0 DEF clientVars, history
<1>1. CASE AdvanceSafe
  BY <1>1, MaxSafeAssumption DEF AdvanceSafe
<1>2. ASSUME NEW t \in Caller, ClientRegister(t) PROVE HistoryOK'
  BY <1>2 DEF ClientRegister
<1>3. ASSUME NEW t \in Caller, ClientDrain(t) PROVE HistoryOK'
  <2> PICK s \in 1 .. newest :
        /\ promised' = [promised EXCEPT ![t] = {context[i] : i \in {j \in CbSlot : trigger[j] <= s}}]
        /\ UNCHANGED <<newest, due, ran>>
    BY <1>3 DEF ClientDrain
  <2>1. ASSUME NEW i \in CbSlot, trigger[i] <= s PROVE context[i] \in Ctx
    <3>1. trigger[i] \in NormalEpoch
      BY <2>1, CbFacts, SafeFacts DEF CbInductive, CbTypeOK
    <3> QED
      BY <3>1 DEF CbInductive, SlotLocks, Published
  <2> QED
    BY <2>1
<1>4. ASSUME NEW t \in Caller, ClientRun(t) PROVE HistoryOK'
  <2>1. took[t] \in Ctx
    BY <1>4 DEF ClientRun, RunCallback, CbInductive, CallShapes, CallShape
  <2> QED
    BY <1>4, <2>1 DEF ClientRun
<1>5. ASSUME NEW t \in Caller, ClientStep(t) PROVE HistoryOK'
  BY <1>5 DEF ClientStep
<1> QED
  BY <1>0, <1>1, <1>2, <1>3, <1>4, <1>5 DEF ClientNext

\* Steps after which every context is where it was.
Still(t) ==
    Look(t) \/ PushLock(t) \/ SwapLock(t) \/ PopLock(t) \/ Decrement(t)

\* A step that only reads or locks moves no context.
LEMMA StillFacts ==
  ASSUME CbInductive, NEW t \in Caller, Still(t)
  PROVE  /\ UNCHANGED <<context, took, mine>>
         /\ \A u \in Caller : /\ csafe'[u] <= csafe[u]
                              /\ mine[u] # NoCtx => mineEpoch'[u] = mineEpoch[u]
         /\ cpc[t] \notin LockSteps /\ cpc'[t] # "store"
         /\ ~LookEnd(t)
<1>0. CallShape(t) /\ CbTypeOK
  BY DEF CallShapes, CbInductive
<1>1. ~LookEnd(t)
  <2>1. Look(t) => ci[t] < CbSlotCount /\ ci[t] \in Int /\ CbSlotCount \in Int
    BY <1>0, CbAssumption DEF CbTypeOK, Look, CbIndex
  <2>2. ~Look(t) => cpc[t] # "look"
    BY DEF Still, PushLock, SwapLock, PopLock, Lock, Decrement
  <2>3. LookEnd(t) => cpc[t] = "look" /\ ci[t] = CbSlotCount
    BY DEF LookEnd
  <2> QED
    BY <2>1, <2>2, <2>3
<1>2. cpc[t] \notin LockSteps /\ cpc'[t] # "store"
  <2>1. CASE Look(t)
    BY <1>0, <2>1 DEF Look, LockSteps, NextSlot, CbTypeOK
  <2>2. CASE PushLock(t) \/ SwapLock(t) \/ PopLock(t)
    BY <1>0, <2>2 DEF PushLock, SwapLock, PopLock, Lock, LockSteps, NextSlot, CbTypeOK
  <2>3. CASE Decrement(t)
    BY <1>0, <2>3 DEF Decrement, LockSteps, CbReturn, NextSlot, CbTypeOK
  <2> QED
    BY <2>1, <2>2, <2>3 DEF Still
<1>3. UNCHANGED <<context, took>>
  BY DEF Still, Look, PushLock, SwapLock, PopLock, Lock, Decrement, cbSlots
<1>4. CASE Decrement(t) /\ CbReturn(t, FALSE)
  <2>1. mine[t] = NoCtx
    BY <1>0, <1>4 DEF Decrement, CallShape
  <2>2. mine' = mine
    BY <1>0, <1>4, <2>1 DEF CbReturn, CbTypeOK
  <2>3. \A u \in Caller : csafe'[u] <= csafe[u] /\ (u # t => mineEpoch'[u] = mineEpoch[u])
    BY <1>0, <1>4 DEF CbReturn, CbTypeOK
  <2> QED
    BY <1>1, <1>2, <1>3, <2>1, <2>2, <2>3
<1>5. CASE UNCHANGED cbCall
  BY <1>0, <1>1, <1>2, <1>3, <1>5 DEF cbCall, CbTypeOK
<1> QED
  BY <1>4, <1>5 DEF Still, Look, PushLock, SwapLock, PopLock, Lock, Decrement

\* Reclaim epochs: what a slot shows is what the context asked for, and a
\* context is taken out by whoever saw that epoch become safe.
LEMMA DueStep ==
  ASSUME CbInductive, HistoryOK, DueInv, OnceInv, CbInductive', HistoryOK', [ClientNext]_clientVars
  PROVE  DueInv'
<1> USE DEF CbInductive, CbTypeOK, HistoryOK
<1>0. CASE UNCHANGED clientVars
  BY <1>0 DEF clientVars, history, cbVars, DueInv, Published
<1>1. CASE AdvanceSafe
  <2>1. newest' = newest + 1 /\ UNCHANGED <<cbVars, due, ran>> /\ \A c \in Ctx : due[c] \in Nat
    BY <1>1, SafeFacts DEF AdvanceSafe
  <2>2. \A t \in Caller : /\ cpc[t] \in {"swapped", "popped"} => context[ci[t]] \in Ctx
                          /\ took[t] # NoCtx => took[t] \in Ctx
    BY DEF SlotLocks
  <2>3. ASSUME NEW t \in Caller
        PROVE  /\ csafe[t] <= newest'
               /\ cpc[t] \in {"swapped", "popped"} => due[context[ci[t]]] <= newest'
               /\ took[t] # NoCtx => 0 < due[took[t]] /\ due[took[t]] <= newest'
    <3>1. csafe[t] <= newest'
      BY <2>1, SafeFacts DEF DueInv
    <3>2. ASSUME NEW c \in Ctx, due[c] <= newest PROVE due[c] <= newest'
      BY <2>1, <3>2, SafeFacts
    <3> QED
      BY <2>2, <3>1, <3>2 DEF DueInv
  <2> QED
    BY <2>1, <2>3 DEF DueInv, cbVars, Published
<1>2. ASSUME NEW t \in Caller, ClientRegister(t) PROVE DueInv'
  <2> PICK c \in Ctx, s \in 1 .. newest, e \in 2 .. MaxSafe :
        /\ due[c] = 0
        /\ RegisterCallback(t, c, e, s)
        /\ due' = [due EXCEPT ![c] = e]
        /\ UNCHANGED <<newest, ran, promised>>
    BY <1>2 DEF ClientRegister
  <2>1. /\ UNCHANGED <<trigger, context, took, ran, newest>>
        /\ mine' = [mine EXCEPT ![t] = c] /\ mineEpoch' = [mineEpoch EXCEPT ![t] = e]
        /\ csafe' = [csafe EXCEPT ![t] = s]
        /\ ci' = [ci EXCEPT ![t] = 0] /\ cpc' = [cpc EXCEPT ![t] = "look"]
    BY DEF RegisterCallback, cbSlots
  <2>2. /\ \A i \in CbSlot : context[i] # c
        /\ c \notin ran
        /\ \A u \in Caller : mine[u] # c /\ took[u] # c
    BY CbAssumption, CbFacts DEF DueInv, CallShapes, CallShape
  <2>3. \A d \in Ctx : d # c => due'[d] = due[d]
    OBVIOUS
  <2>4. \A u \in Caller : cpc[u] \in {"swapped", "popped"} => context[ci[u]] \in Ctx /\ ci[u] \in CbSlot
    BY DEF SlotLocks, CallShapes, CallShape
  <2>5. \A i \in CbSlot : /\ context'[i] # NoCtx => due'[context'[i]] > 0
                          /\ Published(i)' => due'[context'[i]] = trigger'[i]
    BY <2>1, <2>2, <2>3 DEF DueInv, SlotLocks, Published
  <2>6. s <= newest /\ e > 0
    BY SafeFacts
  <2>7. \A u \in Caller :
          /\ csafe'[u] <= newest
          /\ mine'[u] # NoCtx => due'[mine'[u]] = mineEpoch'[u]
    BY <2>1, <2>2, <2>6 DEF DueInv
  <2>8. \A u \in Caller :
          /\ cpc'[u] \in {"swapped", "popped"} => due'[context[ci'[u]]] <= newest
          /\ took[u] # NoCtx => 0 < due'[took[u]] /\ due'[took[u]] <= newest
    BY <2>1, <2>2, <2>3, <2>4 DEF DueInv
  <2>9. \A d \in ran : due'[d] > 0
    BY <2>2, <2>3 DEF DueInv
  <2> QED
    BY <2>1, <2>5, <2>7, <2>8, <2>9 DEF DueInv
<1>3. ASSUME NEW t \in Caller, ClientDrain(t) PROVE DueInv'
  <2> PICK s \in 1 .. newest : Drain(t, s)
    BY <1>3 DEF ClientDrain
  <2>1. /\ UNCHANGED <<trigger, context, took, mine, mineEpoch, newest, due, ran>>
        /\ \A u \in Caller : csafe'[u] = csafe[u] \/ csafe'[u] = s
        /\ \A u \in Caller : cpc'[u] \in {"swapped", "popped"} => cpc'[u] = cpc[u] /\ ci'[u] = ci[u]
    BY <1>3 DEF ClientDrain, Drain, cbSlots
  <2> QED
    BY <2>1, SafeFacts DEF DueInv, Published
<1>4. ASSUME NEW t \in Caller, ClientRun(t) PROVE DueInv'
  <2>1. /\ UNCHANGED <<trigger, context, newest, due>> /\ ran' = ran \cup {took[t]}
        /\ cpc[t] = "run" /\ took[t] \in Ctx /\ took' = [took EXCEPT ![t] = NoCtx]
    BY <1>4 DEF ClientRun, RunCallback, cbSlots, CallShapes, CallShape
  <2>2. \A u \in Caller : u # t => /\ cpc'[u] = cpc[u] /\ ci'[u] = ci[u] /\ csafe'[u] = csafe[u]
                                   /\ mine'[u] = mine[u] /\ mineEpoch'[u] = mineEpoch[u]
    BY <1>4, ClientOps, CbOthers
  <2>3. /\ cpc'[t] \notin {"swapped", "popped"} /\ csafe'[t] \in {0, csafe[t]}
        /\ mine'[t] = NoCtx
    BY <1>4 DEF ClientRun, RunCallback, CbReturn, CallShapes, CallShape
  <2> QED
    BY <2>1, <2>2, <2>3, CbAssumption, SafeFacts DEF DueInv, Published
<1>5. ASSUME NEW t \in Caller, ClientStep(t) PROVE DueInv'
  <2>1. CASE Still(t)
    <3>1. /\ UNCHANGED <<context, took, mine, due, newest, ran>>
          /\ \A u \in Caller : /\ csafe'[u] <= csafe[u]
                               /\ mine[u] # NoCtx => mineEpoch'[u] = mineEpoch[u]
      BY <1>5, <2>1, StillFacts DEF ClientStep
    <3>2. \A i \in CbSlot : Published(i)' => due[context[i]] = trigger'[i]
      BY <2>1, CbFacts, ZenonT(30) DEF DueInv, Published, Still, Look, PushLock, SwapLock, PopLock, Lock,
                           Decrement, cbSlots
    <3>3. ASSUME NEW u \in Caller, cpc'[u] \in {"swapped", "popped"}
          PROVE  due[context[ci'[u]]] <= newest
      <4>1. CASE u # t
        BY <1>5, <3>3, <4>1, ClientOps, CbOthers DEF DueInv
      <4>2. CASE u = t
        <5>1. /\ SwapLock(t) \/ PopLock(t)
              /\ trigger[ci[t]] = expected[t] /\ ci' = ci
          BY <2>1, <3>3, <4>2 DEF Still, Look, PushLock, SwapLock, PopLock, Lock, Decrement,
                                  NextSlot, CbReturn
        <5>2. expected[t] \in NormalEpoch /\ expected[t] <= csafe[t] /\ ci[t] \in CbSlot
          BY <5>1 DEF CallShapes, CallShape, SwapLock, PopLock, Lock
        <5>3. due[context[ci[t]]] = expected[t]
          BY <5>1, <5>2 DEF DueInv, Published
        <5> QED
          BY <4>2, <5>1, <5>2, <5>3, SafeFacts, CbFacts DEF DueInv
      <4> QED
        BY <4>1, <4>2
    <3>4. ASSUME NEW u \in Caller PROVE csafe'[u] <= newest
      <4>1. csafe[u] \in Nat /\ csafe'[u] \in Nat /\ csafe[u] <= newest
        BY DEF DueInv
      <4> QED
        BY <3>1, <4>1, SafeFacts
    <3>5. \A u \in Caller : mine'[u] # NoCtx => due'[mine'[u]] = mineEpoch'[u]
      BY <3>1 DEF DueInv
    <3> QED
      BY <3>1, <3>2, <3>3, <3>4, <3>5 DEF DueInv
  <2>2. CASE LookEnd(t)
    <3>1. /\ UNCHANGED <<trigger, context, took, newest, ran>>
          /\ cpc' = [cpc EXCEPT ![t] = "none"] /\ ci' = [ci EXCEPT ![t] = 0]
          /\ csafe' = [csafe EXCEPT ![t] = 0] /\ mine' = [mine EXCEPT ![t] = NoCtx]
          /\ mineEpoch' = [mineEpoch EXCEPT ![t] = 0]
          /\ due' = due \/ (mine[t] \in Ctx /\ due' = [due EXCEPT ![mine[t]] = 0])
          /\ cpc[t] = "look"
      BY <1>5, <2>2 DEF ClientStep, LookEnd, CbReturn, cbSlots, CallShapes, CallShape
    <3>2. CASE due' = due
      BY <3>1, <3>2, SafeFacts DEF DueInv, Published
    <3>3. CASE mine[t] \in Ctx /\ due' = [due EXCEPT ![mine[t]] = 0]
      <4> DEFINE c == mine[t]
      <4>1. /\ \A i \in CbSlot : context[i] # c
            /\ \A u \in Caller : took[u] # c /\ (u # t => mine[u] # c)
            /\ c \notin ran
        BY <3>1, <3>3, CbAssumption DEF OnceInv
      <4>2. \A d \in Ctx : d # c => due'[d] = due[d]
        BY <3>3
      <4>3. \A u \in Caller : cpc[u] \in {"swapped", "popped"} =>
                                  context[ci[u]] \in Ctx /\ ci[u] \in CbSlot
        BY DEF SlotLocks, CallShapes, CallShape
      <4>4. \A i \in CbSlot : /\ context'[i] # NoCtx => due'[context'[i]] > 0
                              /\ Published(i)' => due'[context'[i]] = trigger'[i]
        BY <3>1, <4>1, <4>2 DEF DueInv, SlotLocks, Published
      <4>5. \A u \in Caller :
              /\ csafe'[u] <= newest
              /\ mine'[u] # NoCtx => due'[mine'[u]] = mineEpoch'[u]
        BY <3>1, <4>1, <4>2, SafeFacts DEF DueInv
      <4>6. \A u \in Caller :
              /\ cpc'[u] \in {"swapped", "popped"} => due'[context[ci'[u]]] <= newest
              /\ took[u] # NoCtx => 0 < due'[took[u]] /\ due'[took[u]] <= newest
        BY <3>1, <4>1, <4>2, <4>3 DEF DueInv
      <4>7. \A d \in ran : due'[d] > 0
        BY <4>1, <4>2 DEF DueInv
      <4>8. UNCHANGED <<newest, ran, took>>
        BY <3>1
      <4> HIDE DEF CbInductive, CbTypeOK, HistoryOK
      <4> QED
        BY <3>1, <4>4, <4>5, <4>6, <4>7, <4>8 DEF DueInv
    <3> QED
      BY <3>1, <3>2, <3>3
  <2>3. CASE PushCount(t)
    <3>1. /\ ci[t] \in CbSlot /\ mine[t] \in Ctx /\ cpc[t] = "count"
          /\ context' = [context EXCEPT ![ci[t]] = mine[t]]
          /\ cpc' = [cpc EXCEPT ![t] = "store"]
          /\ UNCHANGED <<trigger, ci, csafe, mine, mineEpoch, took, newest, ran, due>>
      BY <1>5, <2>3 DEF ClientStep, PushCount, cbCall, CallShapes, CallShape, LookEnd
    <3>2. /\ trigger[ci[t]] = LOCKED
          /\ \A u \in Caller : cpc[u] \in {"swapped", "popped"} => ci[u] # ci[t]
      BY <3>1 DEF SlotLocks, Holds, LockSteps
    <3>3. due[mine[t]] > 0
      BY <3>1, CbAssumption, CbFacts DEF DueInv, CallShapes, CallShape
    <3> QED
      BY <3>1, <3>2, <3>3, CbFacts DEF DueInv, Published
  <2>4. CASE PushStore(t)
    <3>1. /\ ci[t] \in CbSlot /\ mine[t] \in Ctx /\ cpc[t] = "store"
          /\ trigger' = [trigger EXCEPT ![ci[t]] = mineEpoch[t]]
          /\ UNCHANGED <<context, took, newest, ran, due>>
          /\ cpc' = [cpc EXCEPT ![t] = "none"] /\ ci' = [ci EXCEPT ![t] = 0]
          /\ csafe' = [csafe EXCEPT ![t] = 0] /\ mine' = [mine EXCEPT ![t] = NoCtx]
          /\ mineEpoch' = [mineEpoch EXCEPT ![t] = 0]
      BY <1>5, <2>4 DEF ClientStep, PushStore, CbReturn, CallShapes, CallShape, LookEnd
    <3>2. context[ci[t]] = mine[t] /\ due[mine[t]] = mineEpoch[t]
      BY <3>1, CbAssumption DEF SlotLocks, DueInv
    <3> QED
      BY <3>1, <3>2, SafeFacts DEF DueInv, Published
  <2>5. CASE SwapStore(t)
    <3>1. /\ ci[t] \in CbSlot /\ mine[t] \in Ctx /\ cpc[t] = "swapped"
          /\ took' = [took EXCEPT ![t] = context[ci[t]]]
          /\ context' = [context EXCEPT ![ci[t]] = mine[t]]
          /\ trigger' = [trigger EXCEPT ![ci[t]] = mineEpoch[t]]
          /\ mine' = [mine EXCEPT ![t] = NoCtx] /\ cpc' = [cpc EXCEPT ![t] = "run"]
          /\ UNCHANGED <<ci, csafe, mineEpoch, newest, ran, due>>
          /\ mineEpoch[t] \in NormalEpoch
      BY <1>5, <2>5 DEF ClientStep, SwapStore, CallShapes, CallShape, LookEnd
    <3>2. /\ due[mine[t]] = mineEpoch[t] /\ mineEpoch[t] > 0
          /\ context[ci[t]] \in Ctx /\ 0 < due[context[ci[t]]] /\ due[context[ci[t]]] <= newest
      BY <3>1, CbAssumption, CbFacts DEF SlotLocks, DueInv
    <3>3. \A u \in Caller : u # t /\ cpc[u] \in {"swapped", "popped"} => ci[u] # ci[t]
      BY <3>1 DEF SlotLocks, Holds, LockSteps
    <3> QED
      BY <3>1, <3>2, <3>3, SafeFacts DEF DueInv, Published
  <2>6. CASE PopStore(t)
    <3>1. /\ ci[t] \in CbSlot /\ cpc[t] = "popped"
          /\ took' = [took EXCEPT ![t] = context[ci[t]]]
          /\ context' = [context EXCEPT ![ci[t]] = NoCtx]
          /\ trigger' = [trigger EXCEPT ![ci[t]] = FREE]
          /\ cpc' = [cpc EXCEPT ![t] = "run"]
          /\ UNCHANGED <<ci, csafe, mine, mineEpoch, newest, ran, due>>
      BY <1>5, <2>6 DEF ClientStep, PopStore, cbCall, CallShapes, CallShape, LookEnd
    <3>2. /\ context[ci[t]] \in Ctx /\ 0 < due[context[ci[t]]] /\ due[context[ci[t]]] <= newest
      BY <3>1, CbAssumption DEF SlotLocks, DueInv
    <3>3. \A u \in Caller : u # t /\ cpc[u] \in {"swapped", "popped"} => ci[u] # ci[t]
      BY <3>1 DEF SlotLocks, Holds, LockSteps
    <3> QED
      BY <3>1, <3>2, <3>3, CbFacts DEF DueInv, Published
  <2> QED
    BY <1>5, <2>1, <2>2, <2>3, <2>4, <2>5, <2>6 DEF ClientStep, CbStep, Still
<1> QED
  BY <1>0, <1>1, <1>2, <1>3, <1>4, <1>5 DEF ClientNext

(***************************************************************************)
(* The five steps that move a context, each with what it does to the       *)
(* places a context can be in; the proofs below need no more of them.      *)
(***************************************************************************)
\* A context from a caller to t's call, and back when it is refused.
Offered(t, c) ==
    /\ cpc[t] = "none"
    /\ due[c] = 0 /\ due'[c] > 0
    /\ mine' = [mine EXCEPT ![t] = c]
    /\ \A d \in Ctx : d # c => due'[d] = due[d]
    /\ UNCHANGED <<trigger, context, took, ran>>

HandedBack(t) ==
    /\ cpc[t] = "look"
    /\ mine' = [mine EXCEPT ![t] = NoCtx]
    /\ IF mine[t] = NoCtx
       THEN due' = due
       ELSE due' = [due EXCEPT ![mine[t]] = 0]
    /\ UNCHANGED <<trigger, context, took, ran>>

\* From t's call into the slot that t holds: first shown by both, then only
\* by the slot.
Shown(t) ==
    /\ cpc[t] = "count"
    /\ context' = [context EXCEPT ![ci[t]] = mine[t]]
    /\ cpc' = [cpc EXCEPT ![t] = "store"]
    /\ UNCHANGED <<trigger, ci, took, mine, due, ran>>

Pushed(t) ==
    /\ cpc[t] = "store"
    /\ mine' = [mine EXCEPT ![t] = NoCtx]
    /\ trigger' = [trigger EXCEPT ![ci[t]] = mineEpoch[t]]
    /\ UNCHANGED <<context, took, due, ran>>

\* Out of the slot that t holds, which gets t's own context or none.
TakenOut(t) ==
    /\ cpc[t] \in {"swapped", "popped"}
    /\ took' = [took EXCEPT ![t] = context[ci[t]]]
    /\ context' = [context EXCEPT ![ci[t]] = mine[t]]
    /\ mine' = [mine EXCEPT ![t] = NoCtx]
    /\ cpc' = [cpc EXCEPT ![t] = "run"]
    /\ UNCHANGED <<ci, due, ran>>

\* Run, at last.
WasRun(t) ==
    /\ cpc[t] = "run"
    /\ took' = [took EXCEPT ![t] = NoCtx]
    /\ ran' = ran \cup {took[t]}
    /\ UNCHANGED <<trigger, context, mine, due>>

Unmoved == UNCHANGED <<context, took, mine, due, ran>>

\* Every step of a client moves at most one context, from one place to the next.
LEMMA Moves ==
  ASSUME CbInductive, HistoryOK, NEW t \in Caller,
         ClientRegister(t) \/ ClientDrain(t) \/ ClientRun(t) \/ ClientStep(t)
  PROVE  \/ \E c \in Ctx : Offered(t, c)
         \/ HandedBack(t)
         \/ Shown(t)
         \/ Pushed(t)
         \/ TakenOut(t)
         \/ WasRun(t)
         \/ Unmoved /\ cpc[t] \notin LockSteps
<1> USE DEF CbInductive, HistoryOK
<1>0. CallShape(t) /\ CbTypeOK
  BY DEF CallShapes
<1>1. CASE ClientRegister(t)
  <2> PICK c \in Ctx, s \in 1 .. newest, e \in 2 .. MaxSafe :
        /\ due[c] = 0
        /\ RegisterCallback(t, c, e, s)
        /\ due' = [due EXCEPT ![c] = e]
        /\ UNCHANGED <<newest, ran, promised>>
    BY <1>1 DEF ClientRegister
  <2>1. due'[c] > 0
    BY SafeFacts
  <2>2. Offered(t, c)
    BY <2>1 DEF Offered, RegisterCallback, cbSlots
  <2> QED
    BY <2>2
<1>2. CASE ClientDrain(t)
  BY <1>2 DEF ClientDrain, Drain, cbSlots, Unmoved, LockSteps
<1>3. CASE ClientRun(t)
  <2>1. mine[t] = NoCtx
    BY <1>0, <1>3 DEF ClientRun, RunCallback, CallShape
  <2>2. mine' = mine
    BY <1>0, <1>3, <2>1 DEF ClientRun, RunCallback, CbReturn, CbTypeOK
  <2>3. WasRun(t)
    BY <1>3, <2>2 DEF WasRun, ClientRun, RunCallback, cbSlots
  <2> QED
    BY <2>3
<1>4. CASE ClientStep(t)
  <2>0. ran' = ran /\ (~LookEnd(t) => due' = due)
    BY <1>4 DEF ClientStep
  <2>1. CASE Still(t)
    BY <2>0, <2>1, StillFacts DEF Unmoved
  <2>2. CASE LookEnd(t)
    <3>1. IF mine[t] = NoCtx THEN due' = due ELSE due' = [due EXCEPT ![mine[t]] = 0]
      BY <1>0, <1>4, <2>2, CbAssumption DEF ClientStep, LookEnd, CallShape
    <3>2. HandedBack(t)
      BY <2>0, <2>2, <3>1 DEF HandedBack, LookEnd, CbReturn, cbSlots
    <3> QED
      BY <3>2
  <2>3. CASE PushCount(t)
    <3>1. Shown(t)
      BY <2>0, <2>3 DEF Shown, PushCount, cbCall, LookEnd
    <3> QED
      BY <3>1
  <2>4. CASE PushStore(t)
    <3>1. Pushed(t)
      BY <2>0, <2>4 DEF Pushed, PushStore, CbReturn, LookEnd
    <3> QED
      BY <3>1
  <2>5. CASE SwapStore(t)
    <3>1. TakenOut(t)
      BY <2>0, <2>5 DEF TakenOut, SwapStore, LookEnd
    <3> QED
      BY <3>1
  <2>6. CASE PopStore(t)
    <3>1. mine[t] = NoCtx
      BY <1>0, <2>6 DEF PopStore, CallShape
    <3>2. mine' = [mine EXCEPT ![t] = NoCtx]
      BY <1>0, <2>6, <3>1 DEF PopStore, cbCall, CbTypeOK
    <3>3. TakenOut(t)
      BY <2>0, <2>6, <3>1, <3>2 DEF TakenOut, PopStore, LookEnd
    <3> QED
      BY <3>3
  <2> QED
    BY <1>4, <2>1, <2>2, <2>3, <2>4, <2>5, <2>6 DEF ClientStep, CbStep, Still
<1> QED
  BY <1>1, <1>2, <1>3, <1>4

\* No move duplicates a context: what is offered is nowhere yet, and what goes
\* from one place to another leaves the first in the same step, but for the
\* push, whose two stores are told apart by the place of the call.
LEMMA OnceStep ==
  ASSUME CbInductive, HistoryOK, DueInv, OnceInv, [ClientNext]_clientVars
  PROVE  OnceInv'
<1>0. CASE UNCHANGED <<context, took, mine, ran, cpc, ci>>
  BY <1>0 DEF OnceInv
<1>1. ASSUME NEW t \in Caller,
             ClientRegister(t) \/ ClientDrain(t) \/ ClientRun(t) \/ ClientStep(t)
      PROVE  OnceInv'
  <2>0. /\ CallShape(t) /\ NoCtx \notin Ctx
        /\ \A u \in Caller : mine[u] \in Ctx \cup {NoCtx} /\ took[u] \in Ctx \cup {NoCtx}
        /\ \A i \in CbSlot : context[i] \in Ctx \cup {NoCtx}
        /\ ran \subseteq Ctx
        /\ context \in [CbSlot -> Ctx \cup {NoCtx}]
        /\ took \in [Caller -> Ctx \cup {NoCtx}] /\ mine \in [Caller -> Ctx \cup {NoCtx}]
        /\ cpc \in [Caller -> CbPlace]
    BY CbAssumption DEF CbInductive, CallShapes, CbTypeOK, HistoryOK
  <2>a. \A u \in Caller : u # t => cpc'[u] = cpc[u] /\ ci'[u] = ci[u]
    BY <1>1, ClientOps, CbOthers DEF CbInductive
  <2>1. ASSUME NEW c \in Ctx, Offered(t, c) PROVE OnceInv'
    <3>1. /\ \A i \in CbSlot : context[i] # c
          /\ c \notin ran
          /\ \A u \in Caller : took[u] # c
      BY <2>0, <2>1 DEF Offered, DueInv
    <3>2. \A u \in Caller : mine[u] # c
      BY <2>0, <2>1, CbFacts DEF Offered, DueInv, CbInductive, CallShapes, CallShape
    <3> QED
      BY <2>0, <2>1, <2>a, <3>1, <3>2 DEF OnceInv, Offered
  <2>2. CASE HandedBack(t)
    BY <2>0, <2>2, <2>a DEF OnceInv, HandedBack
  <2>3. CASE Shown(t)
    <3>1. ci[t] \in CbSlot /\ mine[t] \in Ctx
      BY <2>0, <2>3 DEF Shown, CallShape
    <3>2. \A i \in CbSlot : context[i] # mine[t]
      BY <2>0, <2>3, <3>1 DEF Shown, OnceInv
    <3>3. \A u \in Caller : cpc[u] = "store" => u # t /\ ci[u] # ci[t]
      BY <2>3, <3>1 DEF Shown, CbInductive, SlotLocks, Holds, LockSteps
    <3> QED
      BY <2>0, <2>3, <2>a, <3>1, <3>2, <3>3 DEF OnceInv, Shown
  <2>4. CASE Pushed(t)
    BY <2>0, <2>4, <2>a DEF OnceInv, Pushed
  <2>5. CASE TakenOut(t)
    <3>1. /\ ci[t] \in CbSlot /\ mine[t] \in Ctx \cup {NoCtx} /\ context[ci[t]] \in Ctx
          /\ took[t] = NoCtx /\ cpc[t] # "store"
      BY <2>0, <2>5 DEF TakenOut, CallShape, CbInductive, SlotLocks
    <3>2. \A i \in CbSlot : mine[t] # NoCtx => context[i] # mine[t]
      BY <2>0, <2>5, <3>1 DEF OnceInv
    <3>3. \A u \in Caller : mine[u] # context[ci[t]]
      <4>1. \A u \in Caller : mine[u] = context[ci[t]] => cpc[u] = "store" /\ ci[u] = ci[t]
        BY <2>0, <3>1 DEF OnceInv
      <4>2. \A u \in Caller : cpc[u] = "store" => ci[u] # ci[t]
        BY <2>5, <3>1 DEF TakenOut, CbInductive, SlotLocks, Holds, LockSteps
      <4> QED
        BY <4>1, <4>2
    <3>4. /\ \A i, j \in CbSlot : context'[i] # NoCtx /\ context'[i] = context'[j] => i = j
          /\ \A i \in CbSlot : context'[i] \notin ran
      BY <2>0, <2>5, <3>1, <3>2 DEF OnceInv, TakenOut
    <3>5. \A u \in Caller, i \in CbSlot : took'[u] # NoCtx => context'[i] # took'[u]
      BY <2>0, <2>5, <3>1, <3>3 DEF OnceInv, TakenOut
    <3>6. /\ \A u, v \in Caller : mine'[u] # NoCtx /\ mine'[u] = mine'[v] => u = v
          /\ \A u, v \in Caller : took'[u] # NoCtx /\ took'[u] = took'[v] => u = v
          /\ \A u, v \in Caller : mine'[u] # NoCtx => mine'[u] # took'[v]
          /\ \A u \in Caller : mine'[u] \notin ran /\ took'[u] \notin ran
      BY <2>0, <2>5, <3>1, <3>3 DEF OnceInv, TakenOut
    <3>7. \A u \in Caller, i \in CbSlot :
            mine'[u] # NoCtx /\ context'[i] = mine'[u] => cpc'[u] = "store" /\ ci'[u] = i
      BY <2>0, <2>5, <2>a, <3>1, <3>3 DEF OnceInv, TakenOut
    <3>8. ran' = ran
      BY <2>5 DEF TakenOut
    <3> QED
      BY <3>4, <3>5, <3>6, <3>7, <3>8 DEF OnceInv
  <2>6. CASE WasRun(t)
    <3>1. took[t] \in Ctx
      BY <2>0, <2>6 DEF WasRun, CallShape
    <3>2. /\ \A i \in CbSlot : context[i] # took[t]
          /\ \A u \in Caller : mine[u] # took[t] /\ (u # t => took[u] # took[t])
      BY <2>0, <3>1 DEF OnceInv
    <3>3. cpc[t] # "store"
      BY <2>6 DEF WasRun
    <3> QED
      BY <2>0, <2>6, <2>a, <3>1, <3>2, <3>3 DEF OnceInv, WasRun
  <2>7. CASE Unmoved /\ cpc[t] \notin LockSteps
    BY <2>0, <2>7, <2>a DEF OnceInv, Unmoved, LockSteps
  <2> QED
    BY <1>1, <2>1, <2>2, <2>3, <2>4, <2>5, <2>6, <2>7, Moves
<1> QED
  BY <1>0, <1>1 DEF ClientNext, AdvanceSafe, clientVars, cbVars, history

\* No move loses a context.
LEMMA SomewhereStep ==
  ASSUME CbInductive, HistoryOK, DueInv, SomewhereInv, [ClientNext]_clientVars
  PROVE  SomewhereInv'
<1>0. CASE UNCHANGED <<context, took, mine, ran, due>>
  BY <1>0 DEF SomewhereInv
<1>1. ASSUME NEW t \in Caller,
             ClientRegister(t) \/ ClientDrain(t) \/ ClientRun(t) \/ ClientStep(t)
      PROVE  SomewhereInv'
  <2> SUFFICES ASSUME NEW c \in Ctx, due'[c] > 0
               PROVE  \/ c \in ran'
                      \/ \E i \in CbSlot : context'[i] = c
                      \/ \E u \in Caller : mine'[u] = c \/ took'[u] = c
    BY DEF SomewhereInv
  <2> DEFINE Before == \/ c \in ran
                       \/ \E i \in CbSlot : context[i] = c
                       \/ \E u \in Caller : mine[u] = c \/ took[u] = c
  <2>0. /\ CallShape(t) /\ NoCtx \notin Ctx
        /\ context \in [CbSlot -> Ctx \cup {NoCtx}]
        /\ took \in [Caller -> Ctx \cup {NoCtx}] /\ mine \in [Caller -> Ctx \cup {NoCtx}]
        /\ due \in [Ctx -> {0} \cup 2 .. MaxSafe]
    BY CbAssumption DEF CbInductive, CallShapes, CbTypeOK, HistoryOK
  <2>b. due[c] > 0 => Before
    BY DEF SomewhereInv
  <2>1. ASSUME NEW d \in Ctx, Offered(t, d) PROVE Before \/ mine'[t] = c
    BY <2>0, <2>1, <2>b DEF Offered
  <2>2. CASE \E d \in Ctx : Offered(t, d)
    <3> PICK d \in Ctx : Offered(t, d)
      BY <2>2
    <3>1. mine[t] = NoCtx
      BY <2>0 DEF Offered, CallShape
    <3> QED
      BY <2>0, <2>1, <3>1 DEF Offered
  <2>3. CASE HandedBack(t)
    <3>1. c # mine[t] /\ Before
      BY <2>0, <2>3, <2>b DEF HandedBack
    <3> QED
      BY <2>0, <2>3, <3>1 DEF HandedBack
  <2>4. CASE Shown(t)
    <3>1. Before /\ ci[t] \in CbSlot /\ context[ci[t]] = NoCtx
      BY <2>0, <2>4, <2>b DEF Shown, CallShape, CbInductive, SlotLocks
    <3> QED
      BY <2>0, <2>4, <3>1 DEF Shown
  <2>5. CASE Pushed(t)
    <3>1. Before /\ ci[t] \in CbSlot /\ context[ci[t]] = mine[t]
      BY <2>0, <2>5, <2>b DEF Pushed, CallShape, CbInductive, SlotLocks
    <3> QED
      BY <2>0, <2>5, <3>1 DEF Pushed
  <2>6. CASE TakenOut(t)
    <3>1. Before /\ ci[t] \in CbSlot /\ took[t] = NoCtx
      BY <2>0, <2>6, <2>b DEF TakenOut, CallShape
    <3>2. context'[ci[t]] = mine[t] /\ took'[t] = context[ci[t]]
      BY <2>0, <2>6, <3>1 DEF TakenOut
    <3> QED
      BY <2>0, <2>6, <3>1, <3>2 DEF TakenOut
  <2>7. CASE WasRun(t)
    <3>1. Before
      BY <2>7, <2>b DEF WasRun
    <3> QED
      BY <2>0, <2>7, <3>1 DEF WasRun
  <2>8. CASE Unmoved
    BY <2>8, <2>b DEF Unmoved
  <2> QED
    BY <1>1, <2>2, <2>3, <2>4, <2>5, <2>6, <2>7, <2>8, Moves
<1> QED
  BY <1>0, <1>1 DEF ClientNext, AdvanceSafe, clientVars, cbVars, history

\* A slot with a context in it is locked or shows the context's epoch.
LEMMA ShownEpoch ==
  ASSUME CbInductive, DueInv, NEW i \in CbSlot, context[i] \in Ctx
  PROVE  trigger[i] = LOCKED \/ (trigger[i] = due[context[i]] /\ trigger[i] \in NormalEpoch)
BY CbAssumption DEF CbInductive, CbTypeOK, SlotLocks, DueInv, Published

\* A promised context c never enters a slot again, and the words of the slots
\* it may be in are not unlocked as long as it is there.
LEMMA PromisedStays ==
  ASSUME CbInductive, HistoryOK, DueInv, NEW t \in Caller,
         ClientRegister(t) \/ ClientDrain(t) \/ ClientRun(t) \/ ClientStep(t),
         NEW c \in Ctx, due[c] > 0, \A u \in Caller : mine[u] # c
  PROVE  /\ due'[c] = due[c]
         /\ \A u \in Caller : mine'[u] # c
         /\ \A i \in CbSlot : context'[i] = c =>
               context[i] = c /\ (trigger[i] = LOCKED => trigger'[i] = LOCKED)
<1>0. /\ CallShape(t) /\ NoCtx \notin Ctx
      /\ context \in [CbSlot -> Ctx \cup {NoCtx}] /\ mine \in [Caller -> Ctx \cup {NoCtx}]
      /\ trigger \in [CbSlot -> NormalEpoch \cup {FREE, LOCKED}]
      /\ due \in [Ctx -> {0} \cup 2 .. MaxSafe]
  BY CbAssumption DEF CbInductive, CallShapes, CbTypeOK, HistoryOK
<1>1. CASE \E d \in Ctx : Offered(t, d)
  BY <1>0, <1>1 DEF Offered
<1>2. CASE HandedBack(t)
  BY <1>0, <1>2 DEF HandedBack
<1>3. CASE Shown(t)
  BY <1>0, <1>3 DEF Shown
<1>4. CASE Pushed(t)
  <2>1. ci[t] \in CbSlot /\ context[ci[t]] = mine[t]
    BY <1>0, <1>4 DEF Pushed, CbInductive, SlotLocks, CallShape
  <2> QED
    BY <1>0, <1>4, <2>1 DEF Pushed
<1>5. CASE TakenOut(t)
  <2>1. ci[t] \in CbSlot /\ context'[ci[t]] = mine[t]
    BY <1>0, <1>5 DEF TakenOut, CallShape
  <2>2. SwapStore(t) \/ PopStore(t)
    <3>1. cpc[t] \in {"swapped", "popped"} /\ cpc' # cpc
      BY <1>5, <1>0 DEF TakenOut, CbInductive, CbTypeOK
    <3> QED
      BY <3>1 DEF ClientRegister, RegisterCallback, ClientDrain, Drain, ClientRun, RunCallback,
                  ClientStep, CbStep, Look, LookEnd, PushLock, SwapLock, PopLock, Lock,
                  PushCount, PushStore, Decrement
  <2>3. \A i \in CbSlot : i # ci[t] => trigger'[i] = trigger[i]
    BY <1>0, <2>1, <2>2 DEF SwapStore, PopStore
  <2> QED
    BY <1>0, <1>5, <2>1, <2>3 DEF TakenOut
<1>6. CASE WasRun(t)
  BY <1>6 DEF WasRun
<1>7. CASE Unmoved /\ cpc[t] \notin LockSteps
  <2>1. \A i \in CbSlot : trigger[i] = LOCKED => trigger'[i] = LOCKED
    <3>1. CASE ClientRegister(t) \/ ClientDrain(t) \/ ClientRun(t)
      BY <3>1 DEF ClientRegister, RegisterCallback, ClientDrain, Drain, ClientRun, RunCallback, cbSlots
    <3>2. CASE ClientStep(t)
      BY <1>0, <1>7, <3>2 DEF ClientStep, CbStep, Look, LookEnd, PushLock, SwapLock, PopLock, Lock,
                  PushCount, PushStore, SwapStore, PopStore, Decrement, LockSteps, cbSlots
    <3> QED
      BY <3>1, <3>2
  <2> QED
    BY <1>7, <2>1 DEF Unmoved
<1> QED
  BY <1>1, <1>2, <1>3, <1>4, <1>5, <1>6, <1>7, Moves

\* What a drain has yet to clear or has seen being cleared.
LEMMA PromisedStep ==
  ASSUME CbInductive, HistoryOK, DueInv, OnceInv, PromisedInv, CbInductive', [ClientNext]_clientVars
  PROVE  PromisedInv'
<1>0. CASE UNCHANGED <<cbVars, due, promised>>
  BY <1>0 DEF PromisedInv, cbVars, Passed
<1>1. ASSUME NEW t \in Caller,
             ClientRegister(t) \/ ClientDrain(t) \/ ClientRun(t) \/ ClientStep(t)
      PROVE  PromisedInv'
  <2> SUFFICES ASSUME NEW w \in Caller, draining'[w], NEW c \in promised'[w]
               PROVE  /\ due'[c] > 0
                      /\ \A u \in Caller : mine'[u] # c
                      /\ \A i \in CbSlot : context'[i] = c =>
                            /\ due'[c] <= csafe'[w]
                            /\ Passed(w, i)' => trigger'[i] = LOCKED
                            /\ i = ci'[w] /\ cpc'[w] = "pop" => expected'[w] = due'[c]
    BY DEF PromisedInv
  <2>0. /\ CallShape(t) /\ CallShape(w) /\ NoCtx \notin Ctx /\ CbTypeOK /\ CbTypeOK'
        /\ \A d \in Ctx : due[d] \in Nat
    BY CbAssumption, SafeFacts DEF CbInductive, CallShapes
  <2>1. CASE ClientDrain(t) /\ w = t
    <3> PICK s \in 1 .. newest :
          /\ Drain(t, s)
          /\ promised' = [promised EXCEPT ![t] = {context[i] : i \in {j \in CbSlot : trigger[j] <= s}}]
          /\ UNCHANGED <<newest, due, ran>>
      BY <2>1 DEF ClientDrain
    <3>1. PICK j \in CbSlot : trigger[j] <= s /\ c = context[j]
      BY <2>1 DEF HistoryOK
    <3>2. Published(j) /\ c \in Ctx /\ due[c] = trigger[j] /\ due[c] > 0
      <4>1. trigger[j] \in NormalEpoch
        BY <2>0, <3>1, CbFacts, SafeFacts DEF CbTypeOK
      <4> QED
        BY <3>1, <4>1, CbFacts DEF Published, CbInductive, SlotLocks, DueInv
    <3>3. ASSUME NEW u \in Caller, mine[u] = c PROVE FALSE
      <4>1. cpc[u] = "store" /\ ci[u] = j
        BY <2>0, <3>1, <3>2, <3>3 DEF OnceInv
      <4>2. trigger[j] = LOCKED
        BY <4>1 DEF CbInductive, SlotLocks, Holds, LockSteps
      <4> QED
        BY <3>2, <4>2, CbFacts DEF Published
    <3>4. cpc[t] = "none" /\ ~draining[t]
      BY <2>0 DEF Drain, CallShape
    <3>5. /\ ci'[t] = 0 /\ cpc'[t] = "look" /\ csafe'[t] = s
          /\ mine' = mine
      BY <2>0, <2>1, <3>4 DEF Drain, CbTypeOK
    <3>6. \A i \in CbSlot : ~Passed(w, i)'
      BY <2>1, <3>5, CbAssumption DEF Passed, CbSlot
    <3> QED
      BY <2>1, <3>1, <3>2, <3>3, <3>5, <3>6
  <2>2. CASE ~(ClientDrain(t) /\ w = t)
    <3>1. draining[w] /\ c \in promised[w] /\ csafe'[w] = csafe[w] /\ c \in Ctx
      <4>1. promised'[w] = promised[w]
        BY <1>1, <2>2 DEF HistoryOK, ClientRegister, ClientDrain, ClientRun, ClientStep
      <4>2. CASE w # t
        BY <1>1, <4>1, <4>2, ClientOps, CbOthers DEF CbInductive, HistoryOK
      <4>3. CASE w = t /\ ClientRegister(t)
        BY <2>0, <4>3 DEF ClientRegister, RegisterCallback, CallShape
      <4>4. CASE w = t /\ ClientRun(t)
        BY <2>0, <4>1, <4>4 DEF ClientRun, RunCallback, CbReturn, CbTypeOK, HistoryOK
      <4>5. CASE w = t /\ ClientStep(t)
        <5>1. (draining' = draining /\ csafe' = csafe) \/ CbReturn(t, TRUE) \/ CbReturn(t, FALSE)
          BY <4>5 DEF ClientStep, CbStep, Look, LookEnd, PushLock, SwapLock, PopLock, Lock,
                      PushCount, PushStore, SwapStore, PopStore, Decrement, cbCall
        <5>2. ~CbReturn(t, TRUE) /\ ~CbReturn(t, FALSE)
          BY <2>0, <4>5 DEF CbReturn, CbTypeOK
        <5> QED
          BY <4>1, <5>1, <5>2 DEF HistoryOK
      <4> QED
        BY <1>1, <2>2, <4>2, <4>3, <4>4, <4>5
    <3>2. /\ due[c] > 0
          /\ \A u \in Caller : mine[u] # c
          /\ \A i \in CbSlot : context[i] = c =>
                /\ due[c] <= csafe[w]
                /\ Passed(w, i) => trigger[i] = LOCKED
                /\ i = ci[w] /\ cpc[w] = "pop" => expected[w] = due[c]
      BY <3>1 DEF PromisedInv
    <3>3. /\ due'[c] = due[c]
          /\ \A u \in Caller : mine'[u] # c
          /\ \A i \in CbSlot : context'[i] = c =>
                context[i] = c /\ (trigger[i] = LOCKED => trigger'[i] = LOCKED)
      BY <1>1, <3>1, <3>2, PromisedStays
    <3>4. ASSUME NEW i \in CbSlot, context'[i] = c
          PROVE  /\ Passed(w, i)' => trigger'[i] = LOCKED
                 /\ i = ci'[w] /\ cpc'[w] = "pop" => expected'[w] = due[c]
      <4>0. /\ context[i] = c /\ (trigger[i] = LOCKED => trigger'[i] = LOCKED)
            /\ due[c] <= csafe[w]
            /\ Passed(w, i) => trigger[i] = LOCKED
            /\ i = ci[w] /\ cpc[w] = "pop" => expected[w] = due[c]
            /\ trigger[i] = LOCKED \/ (trigger[i] = due[c] /\ trigger[i] \in NormalEpoch)
            /\ i \in Int /\ ci[w] \in Int
        BY <2>0, <3>1, <3>2, <3>3, <3>4, ShownEpoch, CbAssumption DEF CbSlot, CbIndex, CbTypeOK
      <4>1. CASE w # t
        <5>1. ci'[w] = ci[w] /\ cpc'[w] = cpc[w] /\ expected'[w] = expected[w]
          BY <1>1, <4>1, ClientOps, CbOthers DEF CbInductive
        <5> QED
          BY <4>0, <5>1 DEF Passed
      <4>2. CASE w = t /\ Look(t)
        <5>1. CASE trigger[ci[t]] <= csafe[t]
          <6>1. /\ cpc'[t] = "pop" /\ expected'[t] = trigger[ci[t]] /\ ci' = ci
            BY <2>0, <3>1, <4>2, <5>1, CbFacts DEF Look, CbTypeOK, NextSlot
          <6>2. trigger[ci[t]] # LOCKED
            BY <2>0, <5>1, CbFacts DEF CallShape, CbTypeOK
          <6> QED
            BY <4>0, <4>2, <6>1, <6>2 DEF Passed, Look
        <5>2. CASE ~(trigger[ci[t]] <= csafe[t])
          <6>1. /\ cpc'[t] = "look" /\ ci'[t] = ci[t] + 1 /\ cpc[t] = "look"
            BY <2>0, <3>1, <4>2, <5>2 DEF Look, CbTypeOK, NextSlot
          <6>2. i = ci[t] => trigger[i] = LOCKED
            BY <4>0, <4>2, <5>2
          <6> QED
            BY <4>0, <4>2, <6>1, <6>2 DEF Passed
        <5> QED
          BY <5>1, <5>2
      <4>3. CASE w = t /\ PopLock(t)
        <5>1. CASE trigger[ci[t]] = expected[t]
          <6>1. cpc'[t] = "popped" /\ ci' = ci /\ cpc[t] = "pop"
            BY <2>0, <4>3, <5>1 DEF PopLock, Lock, CbTypeOK
          <6> QED
            BY <4>0, <4>3, <6>1 DEF Passed
        <5>2. CASE trigger[ci[t]] # expected[t]
          <6>1. cpc'[t] = "look" /\ ci'[t] = ci[t] + 1 /\ cpc[t] = "pop"
            BY <2>0, <4>3, <5>2 DEF PopLock, Lock, CbTypeOK, NextSlot
          <6>2. i = ci[t] => trigger[i] = LOCKED
            BY <4>0, <4>3, <5>2, <6>1
          <6> QED
            BY <4>0, <4>3, <6>1, <6>2 DEF Passed
        <5> QED
          BY <5>1, <5>2
      <4>4. CASE w = t /\ PopStore(t)
        <5>1. cpc'[t] = "run" /\ ci' = ci /\ (i = ci[t] => context'[i] = NoCtx)
          BY <2>0, <4>4 DEF PopStore, CbTypeOK
        <5> QED
          BY <2>0, <3>1, <3>4, <4>0, <4>4, <5>1 DEF Passed
      <4>5. CASE w = t /\ ClientRun(t)
        <5>1. cpc'[t] = "decrement" /\ ci' = ci /\ cpc[t] = "run"
          BY <2>0, <3>1, <4>5 DEF ClientRun, RunCallback, CbTypeOK
        <5> QED
          BY <4>0, <4>5, <5>1 DEF Passed
      <4>6. CASE w = t /\ Decrement(t)
        <5>1. ~CbReturn(t, FALSE)
          BY <2>0, <4>6 DEF CbReturn, CbTypeOK
        <5>2. cpc'[t] = "look" /\ ci'[t] = ci[t] + 1 /\ cpc[t] = "decrement"
          BY <2>0, <4>6, <5>1 DEF Decrement, CbTypeOK, NextSlot
        <5> QED
          BY <4>0, <4>6, <5>2 DEF Passed
      <4>7. CASE w = t /\ (LookEnd(t) \/ PushLock(t) \/ SwapLock(t) \/ PushCount(t) \/ PushStore(t)
                           \/ SwapStore(t) \/ ClientRegister(t))
        <5>1. CASE LookEnd(t)
          BY <2>0, <4>7, <5>1 DEF LookEnd, CbReturn, CbTypeOK
        <5>2. CASE ~LookEnd(t)
          BY <2>0, <3>1, <4>7, <5>2 DEF PushLock, SwapLock, Lock, PushCount, PushStore, SwapStore,
                ClientRegister, RegisterCallback, CallShape
        <5> QED
          BY <5>1, <5>2
      <4> QED
        BY <1>1, <2>2, <4>1, <4>2, <4>3, <4>4, <4>5, <4>6, <4>7 DEF ClientStep, CbStep
    <3> QED
      BY <3>1, <3>2, <3>3, <3>4
  <2> QED
    BY <2>1, <2>2
<1> QED
  BY <1>0, <1>1 DEF ClientNext, AdvanceSafe, clientVars, history

\* At first nothing is kept, due, run or promised.
LEMMA ClientInitially == ClientInit => ClientInductive
<1> SUFFICES ASSUME ClientInit PROVE ClientInductive
  OBVIOUS
<1>1. CbInductive
  BY CbInitially DEF ClientInit
<1>2. HistoryOK
  BY MaxSafeAssumption DEF ClientInit, HistoryOK
<1>3. DueInv
  BY CbFacts, CbAssumption DEF ClientInit, CbInit, DueInv, Published
<1>4. OnceInv
  BY DEF ClientInit, CbInit, OnceInv
<1>5. SomewhereInv /\ PromisedInv
  BY DEF ClientInit, CbInit, SomewhereInv, PromisedInv
<1> QED
  BY <1>1, <1>2, <1>3, <1>4, <1>5 DEF ClientInductive

\* Every step of every client keeps the invariant.
LEMMA ClientInductiveStep ==
  ASSUME ClientInductive, [ClientNext]_clientVars
  PROVE  ClientInductive'
<1>1. CbInductive /\ HistoryOK /\ DueInv /\ OnceInv /\ SomewhereInv /\ PromisedInv
  BY DEF ClientInductive
<1>2. CbInductive'
  <2>1. CASE UNCHANGED cbVars
    BY <1>1, <2>1, CbInductiveStutter
  <2>2. ASSUME NEW t \in Caller,
               ClientRegister(t) \/ ClientDrain(t) \/ ClientRun(t) \/ ClientStep(t)
        PROVE  CbInductive'
    BY <1>1, <2>2, ClientOps, CbInductiveStep
  <2> QED
    BY <2>1, <2>2 DEF ClientNext, AdvanceSafe, clientVars
<1>3. HistoryOK'
  BY <1>1, HistoryStep
<1>4. DueInv' /\ OnceInv' /\ SomewhereInv' /\ PromisedInv'
  BY <1>1, <1>2, <1>3, DueStep, OnceStep, SomewhereStep, PromisedStep
<1> QED
  BY <1>2, <1>3, <1>4 DEF ClientInductive

\* What is true of every state: the words, the histories and the promises.
THEOREM ClientAlways == ClientSpec => []ClientInductive
BY ClientInitially, ClientInductiveStep, PTL DEF ClientSpec

(***************************************************************************)
(* CallbackInv.                                                            *)
(***************************************************************************)
LEMMA AtMostOne ==
  ASSUME NEW S, \A x, y \in S : x = y
  PROVE  Cardinality(S) <= 1 /\ (S # {} => Cardinality(S) = 1) /\ (S = {} => Cardinality(S) = 0)
<1>1. CASE S = {}
  BY <1>1, FS_EmptySet
<1>2. CASE S # {}
  <2> PICK x \in S : S = {x}
    BY <1>2
  <2> QED
    BY <1>2, FS_Singleton
<1> QED
  BY <1>1, <1>2

\* A context that is due is in one place, any other in none.
LEMMA InOnePlace ==
  ASSUME ClientInductive
  PROVE  ContextInOnePlace
<1> SUFFICES ASSUME NEW c \in Ctx
             PROVE  Cardinality(Places(c)) = IF due[c] > 0 THEN 1 ELSE 0
  BY DEF ContextInOnePlace
<1>0. /\ NoCtx \notin Ctx /\ CbTypeOK /\ CallShapes /\ SlotLocks /\ DueInv /\ OnceInv
      /\ c # NoCtx
  BY CbAssumption DEF ClientInductive, CbInductive
<1>1. \A x \in Places(c) :
         \/ \E i \in CbSlot : x = <<"slot", i>> /\ context[i] = c
         \/ \E t \in Caller : x = <<"caller", t>> /\ mine[t] = c /\ cpc[t] # "store"
         \/ \E t \in Caller : x = <<"taken", t>> /\ took[t] = c
         \/ x = <<"run", c>> /\ c \in ran
  BY DEF Places
<1>2. \A x, y \in Places(c) : x = y
  <2> SUFFICES ASSUME NEW x \in Places(c), NEW y \in Places(c) PROVE x = y
    OBVIOUS
  <2>1. CASE \E i \in CbSlot : x = <<"slot", i>> /\ context[i] = c
    BY <1>0, <1>1, <2>1 DEF OnceInv
  <2>2. CASE \E t \in Caller : x = <<"caller", t>> /\ mine[t] = c /\ cpc[t] # "store"
    BY <1>0, <1>1, <2>2 DEF OnceInv
  <2>3. CASE \E t \in Caller : x = <<"taken", t>> /\ took[t] = c
    BY <1>0, <1>1, <2>3 DEF OnceInv
  <2>4. CASE x = <<"run", c>> /\ c \in ran
    BY <1>0, <1>1, <2>4 DEF OnceInv
  <2> QED
    BY <1>1, <2>1, <2>2, <2>3, <2>4
<1>3. due[c] > 0 => Places(c) # {}
  <2> SUFFICES ASSUME due[c] > 0 PROVE \E x : x \in Places(c)
    OBVIOUS
  <2>1. ASSUME NEW i \in CbSlot, context[i] = c PROVE <<"slot", i>> \in Places(c)
    BY <2>1 DEF Places
  <2>2. ASSUME NEW t \in Caller, mine[t] = c PROVE \E x : x \in Places(c)
    <3>1. CASE cpc[t] = "store"
      <4>1. ci[t] \in CbSlot /\ context[ci[t]] = c
        BY <1>0, <2>2, <3>1 DEF CallShapes, CallShape, SlotLocks
      <4> QED
        BY <2>1, <4>1
    <3>2. CASE cpc[t] # "store"
      <4>1. <<"caller", t>> \in Places(c)
        BY <2>2, <3>2 DEF Places
      <4> QED
        BY <4>1
    <3> QED
      BY <3>1, <3>2
  <2>3. ASSUME NEW t \in Caller, took[t] = c PROVE <<"taken", t>> \in Places(c)
    BY <2>3 DEF Places
  <2>4. ASSUME c \in ran PROVE <<"run", c>> \in Places(c)
    BY <2>4 DEF Places
  <2> QED
    BY <2>1, <2>2, <2>3, <2>4 DEF ClientInductive, SomewhereInv
<1>4. due[c] = 0 => Places(c) = {}
  <2> SUFFICES ASSUME due[c] = 0, NEW x \in Places(c) PROVE FALSE
    OBVIOUS
  <2>1. \A t \in Caller : mine[t] # NoCtx => mineEpoch[t] > 0
    BY CbFacts, <1>0 DEF CallShapes, CallShape
  <2> QED
    BY <1>0, <1>1, <2>1 DEF DueInv
<1>5. due[c] \in Nat
  BY SafeFacts DEF ClientInductive
<1> QED
  BY <1>2, <1>3, <1>4, <1>5, AtMostOne

\* A locked slot has one holder, a free one nothing, and a shown one what is due.
LEMMA Disciplined ==
  ASSUME ClientInductive
  PROVE  LockDiscipline
<1> SUFFICES ASSUME NEW i \in CbSlot
             PROVE  LET holders == {t \in Caller : ci[t] = i /\ cpc[t] \in {"count", "store", "swapped", "popped"}}
                    IN  /\ trigger[i] = LOCKED <=> holders # {}
                        /\ Cardinality(holders) <= 1
                        /\ trigger[i] = FREE => context[i] = NoCtx
                        /\ Published(i) => context[i] \in Ctx /\ due[context[i]] = trigger[i]
  BY DEF LockDiscipline
<1> DEFINE holders == {t \in Caller : ci[t] = i /\ cpc[t] \in {"count", "store", "swapped", "popped"}}
<1>0. SlotLocks /\ DueInv
  BY DEF ClientInductive, CbInductive
<1>1. holders = {t \in Caller : Holds(t, i)}
  BY DEF Holds, LockSteps
<1>2. \A t, u \in holders : t = u
  BY <1>0, <1>1 DEF SlotLocks
<1>3. trigger[i] = LOCKED <=> holders # {}
  BY <1>0, <1>1 DEF SlotLocks
<1>4. Cardinality(holders) <= 1
  BY <1>2, AtMostOne
<1> QED
  BY <1>0, <1>3, <1>4 DEF SlotLocks, DueInv

\* Racing pushes, swaps, pops and drains keep the slots, their epoch words and
\* the counter consistent, and every context in exactly one place, however
\* many threads call and however many slots there are.
THEOREM CallbackInvHolds == ClientSpec => []CallbackInv
<1>1. ClientInductive => CallbackInv
  BY InOnePlace, Disciplined DEF CallbackInv, ClientInductive, CbInductive
<1> QED
  BY <1>1, ClientAlways, PTL

(***************************************************************************)
(* The promise: a context is pending from the step in which a slot shows   *)
(* it to the step in which it is run.                                      *)
(***************************************************************************)
Held == Kept \cup ({took[t] : t \in Caller} \ {NoCtx})
Pending(S) == {<<c, due[c]>> : c \in S}

\* What is held is due, and has not been run.
LEMMA HeldFacts ==
  ASSUME ClientInductive
  PROVE  /\ \A c : c \in Held <=> /\ c # NoCtx
                                  /\ \/ \E i \in CbSlot : context[i] = c
                                     \/ \E t \in Caller : took[t] = c
         /\ \A c \in Held : c \in Ctx /\ due[c] > 0 /\ c \notin ran
BY DEF Held, Kept, ClientInductive, CbInductive, CbTypeOK, DueInv, OnceInv

\* What each move does to the contexts that are held.
LEMMA HeldMoves ==
  ASSUME ClientInductive, ClientInductive', NEW t \in Caller,
         ClientRegister(t) \/ ClientDrain(t) \/ ClientRun(t) \/ ClientStep(t)
  PROVE  \/ Held' = Held /\ ran' = ran /\ \A c \in Held : due'[c] = due[c]
         \/ /\ mine[t] \in Ctx /\ mine[t] \notin Held /\ mine[t] \notin ran
            /\ Held' = Held \cup {mine[t]} /\ due' = due /\ ran' = ran
            /\ due[mine[t]] \in 2 .. MaxSafe
         \/ /\ took[t] \in Held /\ due[took[t]] <= newest
            /\ Held' = Held \ {took[t]} /\ due' = due /\ ran' = ran \cup {took[t]}
<1>0. /\ CallShape(t) /\ NoCtx \notin Ctx /\ OnceInv /\ DueInv
      /\ context \in [CbSlot -> Ctx \cup {NoCtx}]
      /\ took \in [Caller -> Ctx \cup {NoCtx}] /\ mine \in [Caller -> Ctx \cup {NoCtx}]
      /\ due \in [Ctx -> {0} \cup 2 .. MaxSafe]
      /\ \A e \in NormalEpoch : e > 0
  BY CbAssumption, CbFacts DEF ClientInductive, CbInductive, CallShapes, CbTypeOK, HistoryOK
<1>a. \A c : c \in Held <=> /\ c # NoCtx
                            /\ \/ \E i \in CbSlot : context[i] = c
                               \/ \E u \in Caller : took[u] = c
  BY HeldFacts
<1>b. \A c : c \in Held' <=> /\ c # NoCtx
                             /\ \/ \E i \in CbSlot : context'[i] = c
                                \/ \E u \in Caller : took'[u] = c
  BY DEF Held, Kept
<1>c. \A c \in Held : c \in Ctx /\ due[c] > 0 /\ c \notin ran
  BY HeldFacts
<1>1. CASE \E c \in Ctx : Offered(t, c)
  <2> PICK c \in Ctx : Offered(t, c)
    BY <1>1
  <2>1. Held' = Held
    BY <1>a, <1>b DEF Offered
  <2> QED
    BY <1>c, <2>1 DEF Offered
<1>2. CASE HandedBack(t)
  <2>1. Held' = Held
    BY <1>2, <1>a, <1>b DEF HandedBack
  <2>2. mine[t] # NoCtx => mine[t] \notin Held
    BY <1>0, <1>2, <1>a DEF HandedBack, OnceInv
  <2> QED
    BY <1>0, <1>2, <1>c, <2>1, <2>2 DEF HandedBack
<1>3. CASE Shown(t)
  <2>1. /\ ci[t] \in CbSlot /\ mine[t] \in Ctx /\ context[ci[t]] = NoCtx
        /\ due[mine[t]] > 0
    BY <1>0, <1>3 DEF Shown, CallShape, ClientInductive, CbInductive, SlotLocks, DueInv
  <2>2. mine[t] \notin Held /\ mine[t] \notin ran
    BY <1>0, <1>3, <1>a, <2>1 DEF Shown, OnceInv
  <2>3. Held' = Held \cup {mine[t]}
    BY <1>0, <1>3, <1>a, <1>b, <2>1 DEF Shown
  <2> QED
    BY <1>0, <1>3, <2>1, <2>2, <2>3 DEF Shown
<1>4. CASE Pushed(t)
  BY <1>4, <1>a, <1>b DEF Pushed
<1>5. CASE TakenOut(t)
  <2>1. /\ ci[t] \in CbSlot /\ context[ci[t]] \in Ctx /\ took[t] = NoCtx
        /\ took'[t] = context[ci[t]] /\ context'[ci[t]] = mine[t]
    BY <1>0, <1>5 DEF TakenOut, CallShape, ClientInductive, CbInductive, SlotLocks
  <2>2. \A c : c \in Held' <=> c \in Held \/ (c = mine[t] /\ c # NoCtx)
    <3>1. \A c : (\E i \in CbSlot : context'[i] = c) <=>
                 c = mine[t] \/ \E i \in CbSlot : i # ci[t] /\ context[i] = c
      BY <1>0, <1>5, <2>1 DEF TakenOut
    <3>2. \A c : (\E u \in Caller : took'[u] = c) <=>
                 c = context[ci[t]] \/ \E u \in Caller : u # t /\ took[u] = c
      BY <1>0, <1>5, <2>1 DEF TakenOut
    <3> QED
      BY <1>0, <1>a, <1>b, <2>1, <3>1, <3>2
  <2>3. CASE mine[t] = NoCtx
    BY <1>5, <2>2, <2>3 DEF TakenOut
  <2>4. CASE mine[t] # NoCtx
    <3>1. mine[t] \in Ctx /\ due[mine[t]] > 0
      BY <1>0, <2>4 DEF DueInv, CallShape
    <3>2. mine[t] \notin Held /\ mine[t] \notin ran
      BY <1>0, <1>5, <1>a, <2>4 DEF TakenOut, OnceInv
    <3>3. Held' = Held \cup {mine[t]}
      BY <2>2, <2>4
    <3> QED
      BY <1>0, <1>5, <3>1, <3>2, <3>3 DEF TakenOut
  <2> QED
    BY <2>3, <2>4
<1>6. CASE WasRun(t)
  <2>1. took[t] \in Ctx /\ due[took[t]] <= newest /\ took[t] \in Held
    BY <1>0, <1>6, <1>a DEF WasRun, CallShape, DueInv
  <2>2. Held' = Held \ {took[t]}
    BY <1>0, <1>6, <1>a, <1>b, <2>1 DEF WasRun, OnceInv
  <2> QED
    BY <1>6, <2>1, <2>2 DEF WasRun
<1>7. CASE Unmoved
  BY <1>7, <1>a, <1>b DEF Unmoved
<1> QED
  BY <1>1, <1>2, <1>3, <1>4, <1>5, <1>6, <1>7, Moves DEF ClientInductive

\* Every step is a step of the promise or is not seen by it.
LEMMA PromiseStep ==
  ASSUME ClientInductive, ClientInductive', [ClientNext]_clientVars
  PROVE  [Promise!Next]_(Promise!vars)
<1> DEFINE pending == {<<c, due[c]>> : c \in Kept \cup ({took[t] : t \in Caller} \ {NoCtx})}
<1>1. CASE UNCHANGED clientVars
  BY <1>1 DEF clientVars, cbVars, history, Promise!vars, Kept
<1>2. CASE AdvanceSafe
  <2>1. newest' >= newest /\ UNCHANGED ran
    BY <1>2, SafeFacts DEF AdvanceSafe, ClientInductive
  <2>2. pending' = pending
    BY <1>2 DEF AdvanceSafe, cbVars, Kept
  <2> QED
    BY <2>1, <2>2 DEF Promise!Next, Promise!AdvanceSafe
<1>3. ASSUME NEW t \in Caller,
             ClientRegister(t) \/ ClientDrain(t) \/ ClientRun(t) \/ ClientStep(t)
      PROVE  [Promise!Next]_(Promise!vars)
  <2>0. pending = Pending(Held) /\ pending' = {<<c, due'[c]>> : c \in Held'}
    BY DEF Pending, Held
  <2>1. newest' = newest
    BY <1>3 DEF ClientRegister, ClientDrain, ClientRun, ClientStep
  <2>2. CASE Held' = Held /\ ran' = ran /\ \A c \in Held : due'[c] = due[c]
    <3>1. pending' = pending
      BY <2>0, <2>2 DEF Pending
    <3> QED
      BY <2>1, <2>2, <3>1 DEF Promise!vars
  <2>3. CASE /\ mine[t] \in Ctx /\ mine[t] \notin Held /\ mine[t] \notin ran
             /\ Held' = Held \cup {mine[t]} /\ due' = due /\ ran' = ran
             /\ due[mine[t]] \in 2 .. MaxSafe
    <3>1. pending' = pending \cup {<<mine[t], due[mine[t]]>>}
      BY <2>0, <2>3 DEF Pending
    <3>2. \A p \in pending : p[1] # mine[t]
      BY <2>0, <2>3 DEF Pending
    <3> QED
      BY <2>1, <2>3, <3>1, <3>2 DEF Promise!Next, Promise!Register
  <2>4. CASE /\ took[t] \in Held /\ due[took[t]] <= newest
             /\ Held' = Held \ {took[t]} /\ due' = due /\ ran' = ran \cup {took[t]}
    <3>1. pending' = pending \ {<<took[t], due[took[t]]>>}
      BY <2>0, <2>4 DEF Pending
    <3>2. <<took[t], due[took[t]]>> \in pending
      BY <2>0, <2>4 DEF Pending
    <3> DEFINE p == <<took[t], due[took[t]]>>
    <3>3. p[1] = took[t] /\ p[2] = due[took[t]] /\ p \in pending
      BY <3>2
    <3>4. pending' = pending \ {<<p[1], p[2]>>}
      BY <3>1
    <3> QED
      BY <2>1, <2>4, <3>3, <3>4 DEF Promise!Next, Promise!Run
  <2> QED
    BY <1>3, <2>2, <2>3, <2>4, HeldMoves
<1> QED
  BY <1>1, <1>2, <1>3 DEF ClientNext

\* The array of slots implements the promise: whatever the callers do, each
\* context is kept until its epoch is safe, then run, and run at most once.
THEOREM PromiseKept == ClientSpec => KeepsPromise
<1>1. ClientInit => Promise!Init
  BY DEF ClientInit, CbInit, Promise!Init, Kept
<1> QED
  BY <1>1, PromiseStep, ClientAlways, PTL DEF ClientSpec, KeepsPromise, Promise!Spec

(***************************************************************************)
(* What a drain clears.                                                    *)
(***************************************************************************)
\* A drain that comes to its end, at the last slot or because the counter got
\* zero, leaves no promised context in an unlocked slot.
LEMMA DrainEnds ==
  ASSUME ClientInductive, ClientInductive', [ClientNext]_clientVars,
         NEW t \in Caller, draining[t] /\ ~draining'[t],
         NEW c \in promised[t], NEW i \in CbSlot, context'[i] = c
  PROVE  trigger'[i] = LOCKED /\ drain_count' > 0
<1>0. /\ CbTypeOK /\ CallShape(t) /\ CbInductive /\ CbInductive' /\ HistoryOK
      /\ c \in Ctx /\ NoCtx \notin Ctx
  BY CbAssumption DEF ClientInductive, CbInductive, CallShapes, HistoryOK
<1>1. context'[i] # NoCtx
  BY <1>0
<1>2. drain_count' > 0
  <2>1. Full' # {} /\ CountExact'
    BY <1>0, <1>1 DEF Full, CbInductive
  <2>2. /\ IsFiniteSet(Full') /\ Cardinality(Full') \in Nat /\ Cardinality(Undeducted') \in Nat
    <3>1. Full' \in SUBSET CbSlot /\ Undeducted' \in SUBSET Caller
      BY DEF Full, Undeducted
    <3>2. IsFiniteSet(CbSlot) /\ IsFiniteSet(Caller)
      BY CbAssumption, FS_Interval, 0 \in Int, CbSlotCount - 1 \in Int DEF CbSlot
    <3> QED
      BY <3>1, <3>2, FS_Subset, FS_CardinalityType
  <2>3. Cardinality(Full') # 0
    BY <2>1, <2>2, FS_EmptySet
  <2> QED
    BY <2>1, <2>2, <2>3 DEF CountExact
<1>3. PICK u \in Caller : ClientRegister(u) \/ ClientDrain(u) \/ ClientRun(u) \/ ClientStep(u)
  BY <1>0 DEF ClientNext, AdvanceSafe, clientVars, cbVars
<1>4. u = t
  BY <1>0, <1>3, ClientOps, CbOthers
<1>5. CASE LookEnd(t)
  <2>1. context' = context /\ trigger' = trigger /\ ci[t] = CbSlotCount
    BY <1>5 DEF LookEnd, cbSlots
  <2>2. Passed(t, i)
    BY <2>1, CbAssumption DEF Passed, CbSlot
  <2>3. trigger[i] = LOCKED
    BY <2>1, <2>2 DEF ClientInductive, PromisedInv
  <2> QED
    BY <1>2, <2>1, <2>3
<1>6. CASE Decrement(t)
  <2>1. drain_count = 1 /\ drain_count' = 0
    <3>1. drain_count \in Int /\ drain_count' = drain_count - 1
      BY <1>0, <1>6 DEF Decrement, CbTypeOK
    <3>2. drain_count # 1 => UNCHANGED draining
      BY <1>6 DEF Decrement, cbCall
    <3> QED
      BY <3>1, <3>2
  <2> QED
    BY <1>2, <2>1
<1>7. ~ClientRegister(t) /\ ~ClientDrain(t)
  BY <1>0 DEF ClientRegister, RegisterCallback, ClientDrain, Drain, CallShape
<1>8. ~ClientRun(t)
  BY <1>0 DEF ClientRun, RunCallback
<1>9. CASE ClientStep(t) /\ ~LookEnd(t) /\ ~Decrement(t)
  BY <1>0, <1>9 DEF ClientStep, CbStep, Look, PushLock, SwapLock, PopLock, Lock, PushCount,
                    PushStore, SwapStore, PopStore, CallShape, cbCall
<1> QED
  BY <1>3, <1>4, <1>5, <1>6, <1>7, <1>8, <1>9

\* When a drain returns, what was due when it began is out of its slot or in
\* the hands of the thread that holds the slot's lock, although other threads
\* push and swap meanwhile; when it returns on a zero counter, nothing is kept.
THEOREM DrainsClear == ClientSpec => DrainClears
<1>1. ClientInductive /\ ClientInductive' /\ [ClientNext]_clientVars =>
        [\A t \in Caller : draining[t] /\ ~draining'[t] =>
            \A c \in promised[t], i \in CbSlot :
                context'[i] = c => trigger'[i] = LOCKED /\ drain_count' > 0]_clientVars
  BY DrainEnds
<1> QED
  BY <1>1, ClientAlways, PTL DEF ClientSpec, DrainClears
=============================================================================
