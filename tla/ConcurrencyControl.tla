------------------------ MODULE ConcurrencyControl ------------------------
(***************************************************************************)
(* ConcurrencyControl of concurrency_control.h: readers that only count    *)
(* themselves in active_ until the first writer comes; from then on, so    *)
(* says the comment on enable(), everybody uses the shared mutex.          *)
(* std::shared_mutex is external: a writer excludes everyone.              *)
(***************************************************************************)
EXTENDS Integers, FiniteSets

CONSTANTS
    Thread,
    REQUIRED_BIT,   \* larger than any number of readers (1 << 31 in the code)
    MaxCalls        \* bound on the calls of one thread

ASSUME RequiredBitAssumption == REQUIRED_BIT \in Nat /\ REQUIRED_BIT > 0
ASSUME MaxCallsAssumption == MaxCalls \in Nat
\* the readers that can be counted leave the bit alone
ASSUME ThreadAssumption == IsFiniteSet(Thread) /\ Cardinality(Thread) < REQUIRED_BIT

VARIABLES
    active,        \* active_
    upgrade_done,  \* upgrade_done_
    pc,            \* pc[t]: where t is in read() or write(), or the guard it holds
    calls,         \* calls[t]: how many calls t has made
    early          \* history: the threads holding a counting guard got before the bit was set

vars == <<active, upgrade_done, pc, calls, early>>

\* what a thread holds is its Protector's variant
HoldsCount(t) == pc[t] = "NoneType"
HoldsShared(t) == pc[t] = "ReadGuard"
HoldsUnique(t) == pc[t] = "WriteGuard"
BitSet == active >= REQUIRED_BIT

TypeOK ==
    /\ active \in Nat
    /\ upgrade_done \in BOOLEAN
    /\ pc \in [Thread -> {"idle", "backoff", "lockShared", "enable", "drain", "done", "spin",
                          "lock", "NoneType", "ReadGuard", "WriteGuard"}]
    /\ calls \in [Thread -> 0 .. MaxCalls]
    /\ early \in SUBSET Thread

Init ==
    /\ active = 0
    /\ upgrade_done = FALSE
    /\ pc = [t \in Thread |-> "idle"]
    /\ calls = [t \in Thread |-> 0]
    /\ early = {}

Goto(t, l) == pc' = [pc EXCEPT ![t] = l]

StartCall(t) ==
    /\ pc[t] = "idle"
    /\ calls[t] < MaxCalls
    /\ calls' = [calls EXCEPT ![t] = @ + 1]

(***************************************************************************)
(* read()                                                                  *)
(***************************************************************************)

\* the fetch_add; shard is the value before it
Read(t) ==
    /\ StartCall(t)
    /\ active' = active + 1
    /\ Goto(t, IF active > REQUIRED_BIT THEN "backoff" ELSE "NoneType")
    /\ early' = IF BitSet THEN early ELSE early \cup {t}
    /\ UNCHANGED upgrade_done

\* a plausible bug: a reader that takes the mutex stays counted
BackoffForgets(t) ==
    /\ pc[t] = "backoff"
    /\ Goto(t, "lockShared")
    /\ UNCHANGED <<active, upgrade_done, calls, early>>

Backoff(t) ==
    /\ pc[t] = "backoff"
    /\ active' = active - 1
    /\ Goto(t, "lockShared")
    /\ UNCHANGED <<upgrade_done, calls, early>>

LockShared(t) ==
    /\ pc[t] = "lockShared"
    /\ \A u \in Thread : ~HoldsUnique(u)
    /\ Goto(t, "ReadGuard")
    /\ UNCHANGED <<active, upgrade_done, calls, early>>

(***************************************************************************)
(* write() and enable()                                                    *)
(***************************************************************************)
\* the fetch_or; only the thread that sets the bit drains the readers
Write(t) ==
    /\ StartCall(t)
    /\ active' = IF BitSet THEN active ELSE active + REQUIRED_BIT
    /\ Goto(t, IF BitSet THEN "spin" ELSE "drain")
    /\ UNCHANGED <<upgrade_done, early>>

\* a plausible bug: the first writer waits only for its own bit
DrainedAtOnce(t) ==
    /\ pc[t] = "drain"
    /\ BitSet
    /\ Goto(t, "done")
    /\ UNCHANGED <<active, upgrade_done, calls, early>>

Drained(t) ==
    /\ pc[t] = "drain"
    /\ active = REQUIRED_BIT
    /\ Goto(t, "done")
    /\ UNCHANGED <<active, upgrade_done, calls, early>>

\* a plausible bug: the end of the upgrade is not stored
UpgradeUntold(t) ==
    /\ pc[t] = "done"
    /\ Goto(t, "spin")
    /\ UNCHANGED <<active, upgrade_done, calls, early>>

UpgradeDone(t) ==
    /\ pc[t] = "done"
    /\ upgrade_done' = TRUE
    /\ Goto(t, "spin")
    /\ UNCHANGED <<active, calls, early>>

SeesUpgrade(t) ==
    /\ pc[t] = "spin"
    /\ upgrade_done
    /\ Goto(t, "lock")
    /\ UNCHANGED <<active, upgrade_done, calls, early>>

Lock(t) ==
    /\ pc[t] = "lock"
    /\ \A u \in Thread : ~HoldsUnique(u) /\ ~HoldsShared(u)
    /\ Goto(t, "WriteGuard")
    /\ UNCHANGED <<active, upgrade_done, calls, early>>

(***************************************************************************)
(* ~Protector: a counting guard gives its count back.                      *)
(***************************************************************************)
Release(t) ==
    /\ HoldsCount(t) \/ HoldsShared(t) \/ HoldsUnique(t)
    /\ active' = IF HoldsCount(t) THEN active - 1 ELSE active
    /\ early' = early \ {t}
    /\ Goto(t, "idle")
    /\ UNCHANGED <<upgrade_done, calls>>

Step(t) ==
    \/ Backoff(t)
    \/ LockShared(t)
    \/ Drained(t)
    \/ UpgradeDone(t)
    \/ SeesUpgrade(t)
    \/ Lock(t)
    \/ Release(t)

Next == \E t \in Thread : Read(t) \/ Write(t) \/ Step(t)

Spec == Init /\ [][Next]_vars

\* a thread inside a call goes on, and a guard is destroyed some time
FairSpec == Spec /\ \A t \in Thread : WF_vars(Step(t))

(***************************************************************************)
(* Safety.                                                                 *)
(***************************************************************************)
\* active_ is exactly the bit plus the readers counted in it, so the drain of
\* the first writer neither ends early nor, by an underflow, never.
CountExact ==
    active = (IF BitSet THEN REQUIRED_BIT ELSE 0)
             + Cardinality({t \in Thread : HoldsCount(t) \/ pc[t] = "backoff"})

\* No reader that was counted before the first writer came is still reading
\* once any writer may lock: the upgrade waits for all of them.
OldReadersDrained ==
    \A t \in Thread : pc[t] \in {"done", "spin", "lock", "WriteGuard"} /\ (upgrade_done \/ pc[t] = "done")
        => early = {}

\* One thread performs the upgrade, however many writers arrive together.
OneUpgrader ==
    /\ Cardinality({t \in Thread : pc[t] \in {"drain", "done"}}) <= 1
    /\ (\E t \in Thread : pc[t] \in {"drain", "done"}) => ~upgrade_done /\ BitSet

\* The counter counts the readers in it and one writer drains them, whatever
\* back-offs, releases and writers race.
ControlInv == TypeOK /\ CountExact /\ OneUpgrader

\* "Upgrade once, effective for ever" (concurrency_control.h:61): after the
\* upgrade the mutex protects every reader from a writer, never the count alone.
UpgradeIsPermanent ==
    \A t, u \in Thread : HoldsUnique(t) => ~HoldsCount(u)

(***************************************************************************)
(* Liveness.                                                               *)
(***************************************************************************)
\* Every call ends, if each thread makes finitely many: no lost wake-up, and
\* the writers that did not set the bit are let go by the one that did.
CallsEnd == \A t \in Thread : pc[t] # "idle" ~> pc[t] = "idle"
=============================================================================
