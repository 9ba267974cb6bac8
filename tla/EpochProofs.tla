----------------------------- MODULE EpochProofs -----------------------------
(***************************************************************************)
(* Proofs about Epoch, for any number of threads and slots.                *)
(***************************************************************************)
EXTENDS Epoch, TLAPS

\* What the proofs need to know of slots and loop indices.
LEMMA SlotFacts ==
  /\ 0 \in Index
  /\ SlotCount \in Index
  /\ \A i \in Index : i \in Nat /\ (i < SlotCount <=> i # SlotCount)
  /\ \A i \in Index : i < SlotCount => i \in Slot /\ i + 1 \in Index
  /\ \A s \in Slot : s \in Nat /\ s < SlotCount /\ s # Unregistered
BY SlotCountAssumption DEF Slot, Index, Unregistered

\* Every step keeps every variable in its type.  The two subtractions of the
\* code stay in Nat: a scan's minimum is positive, and a protected slot has
\* been entered.
LEMMA TypeStep ==
  ASSUME TypeOK, SlotOwnedOnce, EnteringInv, ScanInv, [Next]_vars
  PROVE  TypeOK'
<1> USE SlotFacts DEF TypeOK, Registered, IsProtected, Protected, EPOCH_UNPROTECTED
<1>0. CASE UNCHANGED vars
  BY <1>0 DEF vars
<1>1. ASSUME NEW t \in Thread, RegisterBegin(t) PROVE TypeOK'
  BY <1>1 DEF RegisterBegin, shared, slots
<1>2. ASSUME NEW t \in Thread, RegisterTry(t) PROVE TypeOK'
  <2>1. CASE used[idx[t]]
    BY <1>2, <2>1 DEF RegisterTry, shared
  <2>2. CASE ~used[idx[t]]
    <3>1. idx[t] \in Slot
      BY <1>2 DEF RegisterTry
    <3>2. /\ local' \in [Slot -> Nat]
          /\ reentrant' \in [Slot -> Nat]
      BY <1>2, <2>2, <3>1 DEF RegisterTry
    <3>3. used' \in [Slot -> BOOLEAN]
      BY <1>2, <2>2, <3>1 DEF RegisterTry
    <3>4. /\ tcs' \in [Thread -> Slot \cup {Unregistered}]
          /\ idx' \in [Thread -> Index]
          /\ pc' \in [Thread -> {"idle", "register", "lazy", "scan", "raise", "publish"}]
      BY <1>2, <2>2, <3>1 DEF RegisterTry
    <3> QED
      BY <1>2, <2>2, <3>2, <3>3, <3>4 DEF RegisterTry, shared
  <2> QED
    BY <2>1, <2>2
<1>3. ASSUME NEW t \in Thread, RegisterFull(t) PROVE TypeOK'
  BY <1>3 DEF RegisterFull, shared, slots
<1>4. ASSUME NEW t \in Thread, Unregister(t) PROVE TypeOK'
  BY <1>4 DEF Unregister, shared, scanned
<1>5. ASSUME NEW t \in Thread, EnterPlain(t) PROVE TypeOK'
  BY <1>5 DEF EnterPlain, BeginEnter, shared, slots
<1>6. ASSUME NEW t \in Thread, EnterLazy(t) PROVE TypeOK'
  BY <1>6 DEF EnterLazy, BeginEnter, shared, slots
<1>7. ASSUME NEW t \in Thread, EnterRefresh(t) PROVE TypeOK'
  BY <1>7 DEF EnterRefresh, BeginEnter, shared, slots
<1>8. ASSUME NEW t \in Thread, LazySafe(t) PROVE TypeOK'
  BY <1>8 DEF LazySafe, shared, slots, scanned
<1>9. ASSUME NEW t \in Thread, Publish(t) PROVE TypeOK'
  <2>1. tcs[t] \in Slot
    BY <1>9 DEF Publish, EnteringInv
  <2>2. reentrant' \in [Slot -> Nat]
    BY <1>9, <2>1 DEF Publish
  <2>3. local' \in [Slot -> Nat] /\ entered' \in [Slot -> Nat]
    BY <1>9, <2>1 DEF Publish
  <2> QED
    BY <1>9, <2>2, <2>3 DEF Publish, shared
<1>10. ASSUME NEW t \in Thread, Leave(t) PROVE TypeOK'
  <2>1. tcs[t] \in Slot /\ reentrant[tcs[t]] - 1 \in Nat
    BY <1>10 DEF Leave, SlotOwnedOnce
  <2>2. local' \in [Slot -> Nat] /\ reentrant' \in [Slot -> Nat]
    BY <1>10, <2>1 DEF Leave
  <2> QED
    BY <1>10, <2>2 DEF Leave, shared, scanned
<1>11. ASSUME NEW t \in Thread, QueryLazy(t) PROVE TypeOK'
  BY <1>11 DEF QueryLazy, shared, slots, scanned
<1>12. ASSUME NEW t \in Thread, QuerySafe(t) PROVE TypeOK'
  BY <1>12 DEF QuerySafe, shared, slots
<1>13. ASSUME NEW t \in Thread, ScanSlot(t) PROVE TypeOK'
  <2>1. idx[t] \in Slot /\ local[idx[t]] \in Nat
    BY <1>13 DEF ScanSlot
  <2>2. low' \in [Thread -> Nat] /\ idx' \in [Thread -> 0 .. SlotCount]
    BY <1>13, <2>1 DEF ScanSlot
  <2> QED
    BY <1>13, <2>2 DEF ScanSlot, shared, slots
<1>14. ASSUME NEW t \in Thread, ScanDone(t) PROVE TypeOK'
  <2>1. low[t] - 1 \in Nat
    BY <1>14 DEF ScanDone, ScanInv
  <2> QED
    BY <1>14, <2>1 DEF ScanDone, shared, slots
<1>15. ASSUME NEW t \in Thread, Raise(t) PROVE TypeOK'
  BY <1>15 DEF Raise, Return, slots
<1>16. ASSUME NEW t \in Thread, RaiseRetry(t) PROVE TypeOK'
  BY <1>16 DEF RaiseRetry, shared, slots
<1>17. ASSUME NEW t \in Thread, RaiseStale(t) PROVE TypeOK'
  BY <1>17 DEF RaiseStale, Return, slots
<1>18. ASSUME NEW t \in Thread, Bump(t) PROVE TypeOK'
  BY <1>18 DEF Bump, slots, scanned
<1> QED
  BY <1>0, <1>1, <1>2, <1>3, <1>4, <1>5, <1>6, <1>7, <1>8, <1>9, <1>10, <1>11,
     <1>12, <1>13, <1>14, <1>15, <1>16, <1>17, <1>18 DEF Next, Call, Continue

(***************************************************************************)
(* Which steps touch what.                                                 *)
(***************************************************************************)
\* Only these operations write a slot.
LEMMA SlotWriters ==
  ASSUME NEW t \in Thread, Call(t) \/ Continue(t)
  PROVE  RegisterTry(t) \/ Unregister(t) \/ Publish(t) \/ Leave(t) \/ UNCHANGED slots
BY DEF Call, Continue, RegisterBegin, RegisterFull, EnterPlain, EnterLazy, EnterRefresh,
       BeginEnter, LazySafe, QueryLazy, QuerySafe, ScanSlot, ScanDone, Raise,
       RaiseRetry, RaiseStale, Return, Bump

\* Only Bump moves the counter and only Raise the cached bound.
LEMMA SharedWriters ==
  ASSUME NEW t \in Thread, Call(t) \/ Continue(t)
  PROVE  /\ Bump(t) \/ epoch' = epoch
         /\ Raise(t) \/ safe' = safe
BY DEF Call, Continue, RegisterBegin, RegisterTry, RegisterFull, Unregister, EnterPlain,
       EnterLazy, EnterRefresh, BeginEnter, LazySafe, Publish, Leave, QueryLazy,
       QuerySafe, ScanSlot, ScanDone, RaiseRetry, RaiseStale, Raise, Return, Bump, shared

\* A thread's step leaves the local variables of every other thread alone.
LEMMA OthersUntouched ==
  ASSUME TypeOK,
         NEW t \in Thread, Call(t) \/ Continue(t),
         NEW u \in Thread, u # t
  PROVE  /\ pc'[u] = pc[u] /\ publishes'[u] = publishes[u] /\ tcs'[u] = tcs[u]
         /\ now'[u] = now[u] /\ idx'[u] = idx[u] /\ low'[u] = low[u]
         /\ last'[u] = last[u] /\ got'[u] = got[u]
<1> USE DEF TypeOK, shared, slots, scanned
<1>1. CASE RegisterBegin(t) \/ RegisterTry(t) \/ RegisterFull(t) \/ Unregister(t)
  BY <1>1 DEF RegisterBegin, RegisterTry, RegisterFull, Unregister
<1>2. CASE EnterPlain(t) \/ EnterLazy(t) \/ EnterRefresh(t) \/ LazySafe(t)
  BY <1>2 DEF EnterPlain, EnterLazy, EnterRefresh, BeginEnter, LazySafe
<1>3. CASE Publish(t) \/ Leave(t) \/ QueryLazy(t) \/ QuerySafe(t) \/ Bump(t)
  BY <1>3 DEF Publish, Leave, QueryLazy, QuerySafe, Bump
<1>4. CASE ScanSlot(t) \/ ScanDone(t) \/ Raise(t) \/ RaiseRetry(t) \/ RaiseStale(t)
  BY <1>4 DEF ScanSlot, ScanDone, Raise, RaiseRetry, RaiseStale, Return
<1> QED
  BY <1>1, <1>2, <1>3, <1>4 DEF Call, Continue

(***************************************************************************)
(* One lemma for each part of the inductive invariant.                     *)
(***************************************************************************)
\* Registration hands out a slot only after winning its used flag, and a slot
\* is given back unprotected: no step gives a slot a second owner.
LEMMA OwnershipStep ==
  ASSUME TypeOK, SlotOwnedOnce, EnteringInv, [Next]_vars
  PROVE  SlotOwnedOnce'
<1> USE SlotFacts DEF TypeOK, Registered, IsProtected, Protected, EPOCH_UNPROTECTED
<1>0. CASE UNCHANGED slots
  BY <1>0 DEF slots, SlotOwnedOnce
<1>1. ASSUME NEW t \in Thread, RegisterTry(t) PROVE SlotOwnedOnce'
  <2>1. CASE used[idx[t]]
    BY <1>1, <2>1 DEF RegisterTry, SlotOwnedOnce
  <2>2. CASE ~used[idx[t]]
    <3> DEFINE i == idx[t]
    <3>1. /\ i \in Slot /\ ~Registered(t)
          /\ local[i] = 0 /\ reentrant[i] = 0
          /\ \A u \in Thread : tcs[u] # i
      BY <1>1, <2>2 DEF RegisterTry, SlotOwnedOnce, EnteringInv
    <3>2. /\ used' = [used EXCEPT ![i] = TRUE]
          /\ local' = [local EXCEPT ![i] = 0]
          /\ reentrant' = [reentrant EXCEPT ![i] = 0]
          /\ tcs' = [tcs EXCEPT ![t] = i]
      BY <1>1, <2>2, <3>1 DEF RegisterTry
    <3> QED
      BY <3>1, <3>2 DEF SlotOwnedOnce
  <2> QED
    BY <2>1, <2>2
<1>2. ASSUME NEW t \in Thread, Unregister(t) PROVE SlotOwnedOnce'
  BY <1>2 DEF Unregister, SlotOwnedOnce
<1>3. ASSUME NEW t \in Thread, Publish(t) PROVE SlotOwnedOnce'
  BY <1>3 DEF Publish, SlotOwnedOnce, EnteringInv
<1>4. ASSUME NEW t \in Thread, Leave(t) PROVE SlotOwnedOnce'
  BY <1>4 DEF Leave, SlotOwnedOnce
<1> QED
  BY <1>0, <1>1, <1>2, <1>3, <1>4, SlotWriters DEF Next, vars, slots

\* A thread on its way into the region keeps its slot, and the epoch it will
\* publish lies between 1 and the counter.
LEMMA EnteringStep ==
  ASSUME TypeOK, AnswerStaysSafe, EnteringInv, [Next]_vars
  PROVE  EnteringInv'
<1> USE DEF TypeOK, Registered, IsProtected, Protected
<1>0. CASE UNCHANGED vars
  BY <1>0 DEF vars, EnteringInv
<1>1. ASSUME NEW t \in Thread, Call(t) \/ Continue(t) PROVE EnteringInv'
  <2>0. epoch' \in Nat /\ epoch <= epoch'
    BY <1>1, SharedWriters DEF Bump
  <2> SUFFICES ASSUME NEW u \in Thread
               PROVE  (/\ pc[u] = "register" => ~Registered(u)
                       /\ pc[u] \in {"lazy", "publish"} =>
                             Registered(u) /\ 0 < now[u] /\ now[u] <= epoch
                       /\ publishes[u] => /\ pc[u] \in {"scan", "raise"}
                                         /\ Registered(u) /\ 0 < now[u] /\ now[u] <= epoch)'
    BY DEF EnteringInv
  <2>1. CASE u # t
    BY <1>1, <2>0, <2>1, OthersUntouched DEF EnteringInv
  <2>2. CASE u = t
    <3> USE <2>0, <2>2 DEF EnteringInv, shared, slots, scanned
    <3>1. CASE RegisterBegin(t) \/ RegisterFull(t) \/ Unregister(t)
      BY <3>1 DEF RegisterBegin, RegisterFull, Unregister
    <3>2. CASE RegisterTry(t)
      BY <3>2, SlotFacts DEF RegisterTry
    <3>3. CASE EnterPlain(t) \/ EnterLazy(t) \/ EnterRefresh(t)
      <4>1. 0 < epoch
        BY DEF AnswerStaysSafe
      <4> QED
        BY <3>3, <4>1 DEF EnterPlain, EnterLazy, EnterRefresh, BeginEnter
    <3>4. CASE LazySafe(t) \/ Publish(t) \/ Leave(t) \/ QueryLazy(t) \/ QuerySafe(t) \/ Bump(t)
      BY <3>4 DEF LazySafe, Publish, Leave, QueryLazy, QuerySafe, Bump
    <3>5. CASE ScanSlot(t) \/ ScanDone(t) \/ RaiseRetry(t)
      BY <3>5 DEF ScanSlot, ScanDone, RaiseRetry
    <3>6. CASE Raise(t) \/ RaiseStale(t)
      BY <3>6 DEF Raise, RaiseStale, Return
    <3> QED
      BY <1>1, <3>1, <3>2, <3>3, <3>4, <3>5, <3>6 DEF Call, Continue
  <2> QED
    BY <2>1, <2>2
<1> QED
  BY <1>0, <1>1 DEF Next

\* Lazy publication writes an epoch at most the counter of that moment: what a
\* protected slot shows to scans stays at most its entry epoch.
LEMMA PublishedStep ==
  ASSUME TypeOK, AnswerStaysSafe, SlotOwnedOnce, EnteringInv, PublishedInv, [Next]_vars
  PROVE  PublishedInv'
<1> USE SlotFacts DEF TypeOK, Registered, IsProtected, Protected, PublishedInv, EPOCH_UNPROTECTED
<1>0. CASE UNCHANGED vars
  BY <1>0 DEF vars
<1>1. ASSUME NEW t \in Thread, Call(t) \/ Continue(t) PROVE PublishedInv'
  <2>0. epoch' \in Nat /\ epoch <= epoch'
    BY <1>1, SharedWriters DEF Bump
  <2>1. CASE RegisterTry(t)
    BY <2>1 DEF RegisterTry, shared
  <2>2. CASE Publish(t)
    BY <2>2 DEF Publish, EnteringInv, shared
  <2>3. CASE Leave(t)
    BY <2>3 DEF Leave, shared
  <2>4. CASE Unregister(t)
    BY <2>4 DEF Unregister, shared
  <2>5. CASE UNCHANGED slots
    BY <2>0, <2>5 DEF slots
  <2> QED
    BY <1>1, <2>1, <2>2, <2>3, <2>4, <2>5, SlotWriters
<1> QED
  BY <1>0, <1>1 DEF Next

\* A slot protected after a step was protected before it with the same entry
\* epoch, or was published by the step with the counter's current value.
LEMMA EntryKept ==
  ASSUME TypeOK, SlotOwnedOnce, EnteringInv,
         NEW t \in Thread, Call(t) \/ Continue(t),
         NEW s \in Slot, Protected(s)'
  PROVE  \/ Protected(s) /\ entered'[s] = entered[s]
         \/ Publish(t) /\ entered'[s] = epoch /\ epoch' = epoch
<1> USE SlotFacts DEF TypeOK, Protected, EPOCH_UNPROTECTED, shared
<1>1. CASE RegisterTry(t)
  BY <1>1 DEF RegisterTry
<1>2. CASE Publish(t)
  BY <1>2 DEF Publish, EnteringInv, Registered
<1>3. CASE Leave(t)
  BY <1>3 DEF Leave, IsProtected, Registered
<1>4. CASE Unregister(t)
  BY <1>4 DEF Unregister
<1>5. CASE UNCHANGED slots
  BY <1>5 DEF slots
<1> QED
  BY <1>1, <1>2, <1>3, <1>4, <1>5, SlotWriters

\* The heart of the argument: a scan's minimum stays at most the entry epoch of
\* every protected slot it has passed, also of those published after it passed
\* them, because they were entered at a counter value no smaller.
LEMMA ScanStep ==
  ASSUME TypeOK, 0 < safe, AnswerStaysSafe, SlotOwnedOnce, EnteringInv, PublishedInv,
         ScanInv, [Next]_vars, TypeOK'
  PROVE  ScanInv'
<1> USE SlotFacts DEF TypeOK
<1>0. CASE UNCHANGED vars
  BY <1>0 DEF vars, ScanInv, Protected
<1>1. ASSUME NEW t \in Thread, Call(t) \/ Continue(t) PROVE ScanInv'
  <2>0. /\ epoch <= epoch'
        /\ safe <= safe'
    BY <1>1, SharedWriters DEF Bump, Raise, ScanInv
  <2> SUFFICES ASSUME NEW u \in Thread
               PROVE  (/\ pc[u] = "scan" =>
                             /\ 0 < low[u] /\ low[u] <= epoch
                             /\ \A s \in Slot : s < idx[u] /\ Protected(s) => low[u] <= entered[s]
                       /\ pc[u] = "raise" =>
                             /\ low[u] < epoch
                             /\ last[u] <= safe
                             /\ \A s \in Slot : Protected(s) => low[u] < entered[s])'
    BY DEF ScanInv
  <2>1. CASE pc'[u] = pc[u] /\ low'[u] = low[u] /\ last'[u] = last[u] /\ idx'[u] = idx[u]
    <3>1. \A s \in Slot : Protected(s)' =>
             \/ Protected(s) /\ entered'[s] = entered[s]
             \/ entered'[s] = epoch
      BY <1>1, EntryKept
    <3>2. ASSUME pc[u] = "scan", NEW s \in Slot, s < idx[u], Protected(s)'
          PROVE  low[u] <= entered'[s]
      BY <3>1, <3>2 DEF ScanInv
    <3>3. ASSUME pc[u] = "raise", NEW s \in Slot, Protected(s)'
          PROVE  low[u] < entered'[s]
      BY <3>1, <3>3 DEF ScanInv
    <3>4. /\ pc[u] = "scan" => 0 < low[u] /\ low[u] <= epoch'
          /\ pc[u] = "raise" => low[u] < epoch' /\ last[u] <= safe'
      BY <2>0 DEF ScanInv
    <3> QED
      BY <2>1, <3>2, <3>3, <3>4
  <2>2. CASE u = t /\ (EnterRefresh(t) \/ QuerySafe(t))
    <3>1. 0 < epoch
      BY DEF AnswerStaysSafe
    <3> QED
      BY <2>2, <3>1 DEF EnterRefresh, BeginEnter, QuerySafe, shared, slots
  <2>3. CASE u = t /\ ScanSlot(t)
    <3> DEFINE i == idx[t]
    <3>1. /\ i \in Slot /\ idx'[t] = i + 1 /\ pc'[t] = "scan"
          /\ UNCHANGED <<epoch, local, entered>>
      BY <2>3 DEF ScanSlot, shared, slots
    <3>2. low'[t] = IF Protected(i) /\ local[i] < low[t] THEN local[i] ELSE low[t]
      BY <2>3 DEF ScanSlot, Protected
    <3>3. 0 < low'[t] /\ low'[t] <= low[t] /\ (Protected(i) => low'[t] <= local[i])
      BY <2>3, <3>1, <3>2 DEF ScanSlot, ScanInv, Protected, EPOCH_UNPROTECTED
    <3>4. low[t] <= epoch /\ \A s \in Slot : s < i /\ Protected(s) => low[t] <= entered[s]
      BY <2>3 DEF ScanSlot, ScanInv
    <3>5. ASSUME NEW s \in Slot, s < i + 1, Protected(s)
          PROVE  low'[t] <= entered[s]
      <4>1. CASE s = i
        BY <3>1, <3>3, <3>5, <4>1 DEF PublishedInv
      <4>2. CASE s < i
        <5>1. low[t] <= entered[s]
          BY <3>4, <3>5, <4>2
        <5> QED
          BY <3>1, <3>3, <5>1
      <4>3. i \in Nat /\ s \in Nat
        BY <3>1
      <4> QED
        BY <3>5, <4>1, <4>2, <4>3
    <3> QED
      BY <2>3, <3>1, <3>3, <3>4, <3>5 DEF Protected
  <2>4. CASE u = t /\ ScanDone(t)
    BY <2>4 DEF ScanDone, ScanInv, Protected, shared, slots
  <2>5. CASE u = t /\ RaiseRetry(t)
    BY <2>5 DEF RaiseRetry, ScanInv, Protected, shared, slots
  <2>6. CASE u = t /\ (RegisterBegin(t) \/ RegisterTry(t) \/ RegisterFull(t) \/ Raise(t) \/ RaiseStale(t)
                       \/ EnterPlain(t) \/ EnterLazy(t) \/ LazySafe(t) \/ Publish(t))
    <3>1. pc'[t] \notin {"scan", "raise"}
      BY <2>6 DEF RegisterBegin, RegisterTry, RegisterFull, Raise, RaiseStale, Return,
                  EnterPlain, EnterLazy, BeginEnter, LazySafe, Publish
    <3> QED
      BY <2>6, <3>1
  <2>7. CASE u = t /\ (Unregister(t) \/ Leave(t) \/ QueryLazy(t) \/ Bump(t))
    BY <2>1, <2>7 DEF Unregister, Leave, QueryLazy, Bump, scanned
  <2> QED
    BY <1>1, <2>1, <2>2, <2>3, <2>4, <2>5, <2>6, <2>7, OthersUntouched DEF Call, Continue
<1> QED
  BY <1>0, <1>1 DEF Next

\* The two facts clients rely on: a raise takes the bound to a value below
\* every entry epoch, and a new entry is above the bound.
LEMMA BoundStep ==
  ASSUME TypeOK, 0 < safe, SafeBelowEntry, AnswerStaysSafe, SlotOwnedOnce, EnteringInv,
         ScanInv, [Next]_vars
  PROVE  (0 < safe)' /\ SafeBelowEntry' /\ AnswerStaysSafe'
<1> USE DEF TypeOK, SafeBelowEntry, AnswerStaysSafe
<1>0. CASE UNCHANGED vars
  BY <1>0 DEF vars, Protected
<1>1. ASSUME NEW t \in Thread, Call(t) \/ Continue(t)
      PROVE  (0 < safe)' /\ SafeBelowEntry' /\ AnswerStaysSafe'
  <2>1. /\ epoch' \in Nat /\ epoch' >= epoch
        /\ safe' \in Nat /\ safe' >= safe
        /\ safe' # safe => Raise(t) /\ safe' = low[t]
    BY <1>1, SharedWriters DEF Bump, Raise, ScanInv
  <2>2. safe' < epoch'
    BY <1>1, <2>1, SharedWriters DEF Raise, Return, ScanInv
  <2>3. ASSUME NEW s \in Slot, Protected(s)'
        PROVE  safe' < entered'[s]
    <3>1. CASE Protected(s) /\ entered'[s] = entered[s]
      BY <2>1, <3>1 DEF Raise, ScanInv
    <3>2. CASE Publish(t) /\ entered'[s] = epoch /\ epoch' = epoch
      BY <2>2, <3>2
    <3> QED
      BY <1>1, <2>3, <3>1, <3>2, EntryKept
  <2>4. ASSUME NEW u \in Thread PROVE got'[u] <= safe'
    <3>1. CASE u # t
      BY <1>1, <2>1, <3>1, OthersUntouched
    <3>2. CASE u = t
      <4>1. CASE Call(t)
        BY <2>1, <3>2, <4>1 DEF Call, RegisterBegin, Unregister, EnterPlain, EnterLazy,
              EnterRefresh, BeginEnter, Leave, QueryLazy, QuerySafe, Bump
      <4>2. CASE Raise(t) \/ RaiseStale(t)
        BY <2>1, <3>2, <4>2 DEF Raise, RaiseStale, Return, ScanInv
      <4>3. CASE RegisterTry(t) \/ RegisterFull(t) \/ LazySafe(t) \/ Publish(t)
                 \/ ScanSlot(t) \/ ScanDone(t) \/ RaiseRetry(t)
        BY <2>1, <3>2, <4>3 DEF RegisterTry, RegisterFull, LazySafe, Publish, ScanSlot,
              ScanDone, RaiseRetry
      <4> QED
        BY <1>1, <4>1, <4>2, <4>3 DEF Continue
    <3> QED
      BY <3>1, <3>2
  <2> QED
    BY <2>1, <2>2, <2>3, <2>4
<1> QED
  BY <1>0, <1>1 DEF Next

(***************************************************************************)
(* The theorems.                                                           *)
(***************************************************************************)
\* The constructor establishes every part of the invariant.
LEMMA Initially == Init => InductiveInv
<1> SUFFICES ASSUME Init PROVE InductiveInv
  OBVIOUS
<1> USE SlotFacts DEF Init, EPOCH_UNPROTECTED
<1>1. TypeOK
  BY DEF TypeOK
<1>2. \A s \in Slot : ~Protected(s)
  BY DEF Protected
<1>3. 0 < safe /\ AnswerStaysSafe
  BY DEF AnswerStaysSafe
<1>4. SlotOwnedOnce
  BY <1>2 DEF SlotOwnedOnce, Registered
<1>5. EnteringInv /\ ScanInv
  BY DEF EnteringInv, ScanInv
<1> QED
  BY <1>1, <1>2, <1>3, <1>4, <1>5 DEF InductiveInv, SafeBelowEntry, PublishedInv

\* Every step of every operation preserves the invariant.
LEMMA Inductive == InductiveInv /\ [Next]_vars => InductiveInv'
BY TypeStep, OwnershipStep, EnteringStep, PublishedStep, ScanStep, BoundStep DEF InductiveInv

\* InductiveInv holds in every state of every execution.
THEOREM InductiveInvariant == Spec => []InductiveInv
BY Initially, Inductive, PTL DEF Spec

\* Every variable keeps its type: no subtraction of the code leaves Nat.
THEOREM TypeCorrect == Spec => []TypeOK
BY InductiveInvariant, PTL DEF InductiveInv

\* No value that get_safe_reclaim_epoch can return covers a thread that is
\* inside its region.
THEOREM SafeBelowEntryHolds == Spec => []SafeBelowEntry
BY InductiveInvariant, PTL DEF InductiveInv

\* Answers stay at most the bound, and the bound below the counter.
THEOREM AnswerStaysSafeHolds == Spec => []AnswerStaysSafe
BY InductiveInvariant, PTL DEF InductiveInv

\* The registration races never share a slot.
THEOREM SlotOwnedOnceHolds == Spec => []SlotOwnedOnce
BY InductiveInvariant, PTL DEF InductiveInv

\* The cached bound never goes back.
THEOREM SafeOnlyGrowsHolds == Spec => SafeOnlyGrows
<1>1. InductiveInv /\ [Next]_vars => [safe' >= safe]_safe
  <2> SUFFICES ASSUME InductiveInv, [Next]_vars PROVE safe' >= safe
    OBVIOUS
  <2>1. ASSUME NEW t \in Thread, Call(t) \/ Continue(t) PROVE safe' >= safe
    BY <2>1, SharedWriters DEF InductiveInv, TypeOK, ScanInv, Raise
  <2> QED
    BY <2>1 DEF Next, vars, InductiveInv, TypeOK
<1> QED
  BY <1>1, InductiveInvariant, PTL DEF Spec, SafeOnlyGrows
=============================================================================
