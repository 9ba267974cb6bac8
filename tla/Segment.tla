------------------------------ MODULE Segment -------------------------------
(***************************************************************************)
(* The segments of the log file (pagecache/segment.h): free, active,       *)
(* inactive and draining, with the bookkeeping that tells when one may be  *)
(* freed.  The classes are driven by operations on pages (SegmentOp: link  *)
(* a fragment of a page to the segment being written, or replace all its   *)
(* fragments by a new one).  The accountant that applies them is not       *)
(* written; here it tells every segment that holds a replaced page of it   *)
(* once, deactivates segments in the order of their lsn, when what was     *)
(* written to them is on disk, and reuses a free segment when the one      *)
(* named by its replacement lsn is no longer active.                       *)
(***************************************************************************)
EXTENDS Integers, FiniteSets

CONSTANTS
    Seg,       \* the places in the file where a segment fits
    Page,      \* page identifiers
    MaxLsn     \* bound on the lsn: one per segment written

VARIABLES
    seg,       \* seg[s]: the object for place s
    tip,       \* lsn of the segment being written
    reusable,  \* places whose free segment may be made active
    cleaner,   \* SegmentCleaner: the pages to rewrite, by place
    held,      \* history: held[p], lsn of the segments with a fragment of p
    snap,      \* history: snap[s][p], held[p] after the last operation on p in s
    needed     \* history: needed[p], where p's newest state on disk is

segVars == <<seg, tip, reusable, cleaner, held, snap, needed>>

(***************************************************************************)
(* The four classes; fields a class does not have stay at their default.   *)
(***************************************************************************)
\* previous_lsn of a free segment is kept as its lsn, 0 for none
FreeSegment(lsn) ==
    [state |-> "free", lsn |-> lsn, pids |-> {}, deferred |-> {}, max |-> 0, replaced |-> 0,
     latest |-> 0, upon |-> {}]

ActiveSegment(lsn) == [FreeSegment(lsn) EXCEPT !.state = "active"]

Later(a, b) == IF a > b THEN a ELSE b

InsertPid(g, p) == [g EXCEPT !.pids = @ \cup {p}]

\* remove_pid of each state: page p was replaced by a write to the segment lsn
ActiveRemove(g, p, lsn) ==
    [g EXCEPT !.deferred = IF lsn # g.lsn THEN @ \cup {p} ELSE @,
              !.latest = Later(@, lsn)]

InactiveRemove(g, p, lsn) ==
    [g EXCEPT !.pids = IF lsn # g.lsn THEN @ \ {p} ELSE @,
              !.replaced = IF lsn # g.lsn /\ p \in g.pids THEN @ + 1 ELSE @,
              !.latest = Later(@, lsn)]

\* a plausible bug: the replacement lsn is frozen when draining begins
DrainingRemoveNoLsn(g, lsn) ==
    [g EXCEPT !.replaced = IF lsn # g.lsn THEN @ + 1 ELSE @]

DrainingRemove(g, lsn) ==
    [g EXCEPT !.replaced = IF lsn # g.lsn THEN @ + 1 ELSE @,
              !.latest = Later(@, lsn)]

RemovePid(g, p, lsn) ==
    IF g.state = "active" THEN ActiveRemove(g, p, lsn)
    ELSE IF g.state = "inactive" THEN InactiveRemove(g, p, lsn)
    ELSE DrainingRemove(g, lsn)

\* a plausible bug: pages replaced while active stay among the pids
ActiveToInactiveKeep(g) ==
    [g EXCEPT !.state = "inactive", !.deferred = {}, !.upon = {},
              !.max = Cardinality(g.pids), !.replaced = Cardinality(g.deferred)]

ActiveToInactive(g) ==
    [g EXCEPT !.state = "inactive", !.pids = @ \ g.deferred, !.deferred = {}, !.upon = {},
              !.max = Cardinality(g.pids), !.replaced = Cardinality(g.deferred)]

InactiveToDraining(g) == [g EXCEPT !.state = "draining", !.pids = {}]

DrainingToFree(g) == FreeSegment(g.lsn)

CanFree(g) == g.replaced = g.max

(***************************************************************************)
(* What the accountant asks of them.                                       *)
(***************************************************************************)
SegInit ==
    /\ seg = [s \in Seg |-> FreeSegment(0)]
    /\ tip = 0
    /\ reusable = Seg
    /\ cleaner = [s \in Seg |-> {}]
    /\ held = [p \in Page |-> {}]
    /\ snap = [s \in Seg |-> [p \in Page |-> {}]]
    /\ needed = [p \in Page |-> {}]

InUse(s) == seg[s].state # "free"

\* free_to_active
FreeToActive(s) ==
    /\ s \in reusable
    /\ tip < MaxLsn
    /\ seg' = [seg EXCEPT ![s] = ActiveSegment(tip + 1)]
    /\ tip' = tip + 1
    /\ reusable' = reusable \ {s}
    /\ snap' = [snap EXCEPT ![s] = [p \in Page |-> {}]]
    /\ UNCHANGED <<cleaner, held, needed>>

\* the segment that is being written
IsTip(s) == InUse(s) /\ seg[s].lsn = tip

\* page p goes to the tip; its fragments are then in the segments lsns
WrittenTo(p, lsns) ==
    /\ held' = [held EXCEPT ![p] = lsns]
    /\ snap' = [s \in Seg |-> IF IsTip(s) THEN [snap[s] EXCEPT ![p] = lsns] ELSE snap[s]]

\* SegmentOp Link: one more fragment
Link(p) ==
    /\ tip > 0
    /\ seg' = [s \in Seg |-> IF IsTip(s) THEN InsertPid(seg[s], p) ELSE seg[s]]
    /\ WrittenTo(p, held[p] \cup {tip})
    /\ UNCHANGED <<tip, reusable, cleaner, needed>>

Replaced(p) ==
    /\ tip > 0
    /\ seg' = [s \in Seg |->
                 LET g == IF InUse(s) /\ seg[s].lsn \in held[p]
                          THEN RemovePid(seg[s], p, tip) ELSE seg[s]
                 IN IF IsTip(s) THEN InsertPid(g, p) ELSE g]
    /\ WrittenTo(p, {tip})
    /\ UNCHANGED <<tip, reusable, needed>>

\* SegmentOp Replace: remove_pid on the old segments, insert_pid on the tip
Replace(p) == Replaced(p) /\ UNCHANGED cleaner

\* the cleaner rewrites a page of a draining segment
Clean(s, p) ==
    /\ p \in cleaner[s]
    /\ cleaner' = [cleaner EXCEPT ![s] = @ \ {p}]
    /\ Replaced(p)

\* active_to_inactive: all of s is on disk, and of the segments before it
Deactivate(s) ==
    /\ seg[s].state = "active" /\ seg[s].lsn < tip
    /\ \A t \in Seg : seg[t].state = "active" => seg[t].lsn >= seg[s].lsn
    /\ seg' = [seg EXCEPT ![s] = ActiveToInactive(@)]
    /\ reusable' = reusable \cup
           {t \in Seg : seg[t].state = "free" /\ seg[t].lsn \in seg[s].upon}
    /\ needed' = [p \in Page |-> IF snap[s][p] # {} THEN snap[s][p] ELSE needed[p]]
    /\ UNCHANGED <<tip, cleaner, held, snap>>

\* inactive_to_draining: its pids are handed to the cleaner
Drain(s) ==
    /\ seg[s].state = "inactive"
    /\ seg' = [seg EXCEPT ![s] = InactiveToDraining(@)]
    /\ cleaner' = [cleaner EXCEPT ![s] = seg[s].pids]
    /\ UNCHANGED <<tip, reusable, held, snap, needed>>

\* draining_to_free: reusable when the segment of its replacement lsn is not
\* active any more (defer_free_lsn on it otherwise)
Free(s) ==
    LET replacing == {t \in Seg : seg[t].state = "active" /\ seg[t].lsn = seg[s].latest} IN
    /\ seg[s].state = "draining" /\ CanFree(seg[s])
    /\ seg' = [t \in Seg |-> IF t = s THEN DrainingToFree(seg[s])
                             ELSE IF t \in replacing
                             THEN [seg[t] EXCEPT !.upon = @ \cup {seg[s].lsn}]
                             ELSE seg[t]]
    /\ reusable' = IF replacing = {} THEN reusable \cup {s} ELSE reusable
    /\ cleaner' = [cleaner EXCEPT ![s] = {}]
    /\ UNCHANGED <<tip, held, snap, needed>>

SegNext ==
    \/ \E s \in Seg : \/ FreeToActive(s) \/ Deactivate(s) \/ Drain(s) \/ Free(s)
                      \/ \E p \in Page : Clean(s, p)
    \/ \E p \in Page : Link(p) \/ Replace(p)

SegSpec == SegInit /\ [][SegNext]_segVars

(***************************************************************************)
(* Properties.                                                             *)
(***************************************************************************)
Lsn == 0 .. MaxLsn

SegmentType ==
    [state : {"free", "active", "inactive", "draining"}, lsn : Lsn, pids : SUBSET Page,
     deferred : SUBSET Page, max : Nat, replaced : Nat, latest : Lsn, upon : SUBSET Lsn]

\* The segments keep their shape, and every segment written has an lsn of its own.
SegTypeOK ==
    /\ seg \in [Seg -> SegmentType]
    /\ tip \in Lsn
    /\ reusable \subseteq {s \in Seg : seg[s].state = "free"}
    /\ cleaner \in [Seg -> SUBSET Page]
    /\ held \in [Page -> SUBSET Lsn]
    /\ \A s, t \in Seg : seg[s].lsn = seg[t].lsn => s = t \/ seg[s].lsn = 0

\* the pages with a fragment in segment s
Live(s) == {p \in Page : seg[s].lsn \in held[p]}

\* The count of replaced pages, taken over from a set of deferred pages and
\* continued without names once draining, is exact: can_free says that no page
\* is left in the segment, and says it as soon as none is.
CanFreeExact ==
    \A s \in Seg :
        seg[s].state \in {"inactive", "draining"}
            => seg[s].max - seg[s].replaced = Cardinality(Live(s))

\* The pids of a segment, without those whose removal is deferred, are the
\* pages that have a fragment in it.
PidsAreLive ==
    \A s \in Seg :
        seg[s].state \in {"active", "inactive"} => seg[s].pids \ seg[s].deferred = Live(s)

\* A draining segment waits only for pages the cleaner has been given: it does
\* not drain for ever because of a page nobody rewrites.
CleanerKnowsAll ==
    \A s \in Seg : seg[s].state = "draining" => Live(s) \subseteq cleaner[s]

\* Segments, pages and the cleaner agree in every state of a segment's life:
\* none is freed too early, and none drains for ever.
SegmentInv == SegTypeOK /\ CanFreeExact /\ PidsAreLive /\ CleanerKnowsAll

\* "A. never overwrite a segment that holds the latest stable state of a page"
\* (segment.h:8): where the newest state on disk of a page lies is not reused,
\* before newer state is on disk as well.
StableStateKept ==
    \A p \in Page : \A l \in needed[p] : \E s \in Seg : seg[s].lsn = l
=============================================================================
