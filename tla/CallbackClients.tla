-------------------------- MODULE CallbackClients --------------------------
(***************************************************************************)
(* EpochCallback with callers that know nothing of each other: any thread  *)
(* registers a context or drains, with any safe epoch that was current at  *)
(* some time.  This is all that ebr/epoch_callback.h may assume of its     *)
(* user; MapReclaim composes the same actions with their real user.        *)
(***************************************************************************)
EXTENDS EpochCallback

CONSTANT MaxSafe      \* bound on the safe epoch and on reclaim epochs

ASSUME MaxSafeAssumption == MaxSafe \in Nat \ {0} /\ MaxSafe <= Int64Max - 2

VARIABLES
    newest,     \* the newest safe epoch of the epoch framework
    due,        \* history: due[c] is c's reclaim epoch once it is handed in
    ran,        \* history: the contexts whose callback was run
    promised    \* history: what t's drain must clear: in a slot, due and unlocked at its start

history == <<newest, due, ran, promised>>
clientVars == <<cbVars, history>>

Kept == {context[i] : i \in CbSlot} \ {NoCtx}

ClientInit ==
    /\ CbInit
    /\ newest = 1
    /\ due = [c \in Ctx |-> 0]
    /\ ran = {}
    /\ promised = [t \in Caller |-> {}]

AdvanceSafe ==
    /\ newest < MaxSafe
    /\ newest' = newest + 1
    /\ UNCHANGED <<cbVars, due, ran, promised>>

ClientRegister(t) ==
    \E c \in Ctx, s \in 1 .. newest, e \in 2 .. MaxSafe :
        /\ due[c] = 0
        /\ RegisterCallback(t, c, e, s)
        /\ due' = [due EXCEPT ![c] = e]
        /\ UNCHANGED <<newest, ran, promised>>

ClientDrain(t) ==
    \E s \in 1 .. newest :
        /\ Drain(t, s)
        /\ promised' = [promised EXCEPT ![t] = {context[i] : i \in {j \in CbSlot : trigger[j] <= s}}]
        /\ UNCHANGED <<newest, due, ran>>

ClientRun(t) ==
    /\ RunCallback(t)
    /\ ran' = ran \cup {took[t]}
    /\ UNCHANGED <<newest, due, promised>>

\* a refused context stays with its caller, who may hand it in again
ClientStep(t) ==
    /\ CbStep(t)
    /\ due' = IF LookEnd(t) /\ ~draining[t] THEN [due EXCEPT ![mine[t]] = 0] ELSE due
    /\ UNCHANGED <<newest, ran, promised>>

ClientNext ==
    \/ AdvanceSafe
    \/ \E t \in Caller :
          ClientRegister(t) \/ ClientDrain(t) \/ ClientRun(t) \/ ClientStep(t)

ClientSpec == ClientInit /\ [][ClientNext]_clientVars

(***************************************************************************)
(* Safety.                                                                 *)
(***************************************************************************)
\* Each context handed in is in exactly one place: with its caller, in one
\* slot, taken out to be run by one thread, or run.  Racing pushes, swaps and
\* pops on a slot lose none (a leak) and run none twice (a double free).
Places(c) ==
    {<<"slot", i>> : i \in {j \in CbSlot : context[j] = c}}
    \cup {<<"caller", t>> : t \in {u \in Caller : mine[u] = c /\ cpc[u] # "store"}}
    \cup {<<"taken", t>> : t \in {u \in Caller : took[u] = c}}
    \cup {<<"run", c>> : d \in ran \cap {c}}

ContextInOnePlace == \A c \in Ctx : Cardinality(Places(c)) = IF due[c] > 0 THEN 1 ELSE 0

\* A slot's epoch word and its content agree whenever the slot is not locked,
\* and a locked slot has exactly one thread that will unlock it.
LockDiscipline ==
    \A i \in CbSlot :
        LET holders == {t \in Caller : ci[t] = i /\ cpc[t] \in {"count", "store", "swapped", "popped"}}
        IN  /\ trigger[i] = LOCKED <=> holders # {}
            /\ Cardinality(holders) <= 1
            /\ trigger[i] = FREE => context[i] = NoCtx
            /\ Published(i) => context[i] \in Ctx /\ due[context[i]] = trigger[i]

\* The slots, their words and the counter belong together: what racing pushes,
\* swaps, pops and drains may never tear apart.
CallbackInv == CbTypeOK /\ ContextInOnePlace /\ CountExact /\ LockDiscipline

\* When a drain returns, no context that was due in an unlocked slot when it
\* began is left there, although other threads push and swap meanwhile: at
\* worst another thread holds the slot's lock to take it out.  When it returns
\* because the counter "got 0" (epoch_callback.h:123), none is kept at all.
DrainClears ==
    [][\A t \in Caller : draining[t] /\ ~draining'[t] =>
          \A c \in promised[t], i \in CbSlot :
              context'[i] = c => trigger'[i] = LOCKED /\ drain_count' > 0]_clientVars

(***************************************************************************)
(* Refinement: the slots implement the promise.                            *)
(***************************************************************************)
Promise == INSTANCE CallbackPromise WITH
    safe <- newest,
    ReclaimEpoch <- 2 .. MaxSafe,
    pending <- {<<c, due[c]>> : c \in Kept \cup ({took[t] : t \in Caller} \ {NoCtx})}

KeepsPromise == Promise!Spec
=============================================================================
