------------------------------ MODULE SkipList ------------------------------
(***************************************************************************)
(* The lock-free skip list of pagecache/skiplist.h with the atomics of     *)
(* util/concurrent_map.h: insert, erase by key or node, find, the searches *)
(* for the nearest node that iterators are made of, a scan by an iterator  *)
(* and refresh_all_links.  An insert may go on with the splice the insert  *)
(* before has left, within one epoch block; other calls begin a fresh one. *)
(*                                                                         *)
(* Each load of a link and each compare-exchange is a step; what a thread  *)
(* computes between them is part of the step before.  A load followed by a *)
(* compare-exchange loop on the same word (record_height, the reference    *)
(* count, the deleting mark of one level) is the one step it takes effect. *)
(* Memory is not reused here: that is what MapReclaim is about.            *)
(***************************************************************************)
EXTENDS Integers, FiniteSets

CONSTANTS
    Thread,
    Node,          \* nodes, each inserted at most once
    Key,           \* Key[n]: the key of node n
    MaxHeight,     \* max_height
    Head, Tail,    \* head() and tail()
    Plans          \* what the threads may call: how often, which operations, and
                   \* about which nodes

ASSUME ListAssumption ==
    /\ IsFiniteSet(Node)
    /\ Head \notin Node /\ Tail \notin Node /\ Head # Tail
    /\ Key \in [Node -> Int]
    /\ MaxHeight \in Nat \ {0}
    /\ Plans \subseteq [Thread -> [left : Nat, ops : SUBSET STRING, nodes : SUBSET Node]]

Level == 0 .. MaxHeight - 1
Linkable == Node \cup {Head}
KeySet == {Key[n] : n \in Node}

VARIABLES
    next,        \* next[n][l]: level_pointers[l] of n without its low bit
    deleting,    \* deleting[n][l]: that low bit
    height,      \* height[n], 0 before n is inserted
    refs,        \* reference_count[n]
    now_height,  \* now_height_
    th,          \* th[t]: program counter and local variables of thread t
    plan,        \* plan[t]: the calls t has left, of which operations and nodes (a bound)
    present,     \* history: the keys in the set
    retired,     \* history: the nodes whose reference count has reached zero
    seen,        \* history: seen[t][k], whether key k was in the set, at the
                 \* moments of t's call; empty for keys the call is not about
    won,         \* history: the threads whose call under way has changed the set
    stale        \* history: the nodes already retired when t's call began

links == <<next, deleting>>
counts == <<refs, retired>>
keys == <<present, seen, won>>
call == <<height, now_height, plan, stale>>   \* what only the ends of a call change
vars == <<links, counts, keys, call, th>>

(***************************************************************************)
(* Local variables: op, key k, node n and level i of the call; the splice  *)
(* (prev, nxt, sh its height); and of the search: its level lv, the level  *)
(* it ends at, the node x it stands on, the nodes y and z ahead, the node  *)
(* after that needs no comparison, and the step then to go on with; mode,  *)
(* which neighbour a seek is for, and got, what a scan has come across;    *)
(* fix is how a splice is used (fresh, or allow_partial_splice_fix or not  *)
(* for one used again) and tight is splice_is_valid; alone is history: when *)
(* the insert began all calls of others were over.                         *)
(***************************************************************************)
IdleThread ==
    [pc |-> "idle", op |-> "none", k |-> 0, n |-> Tail, i |-> 0,
     prev |-> [l \in 0 .. MaxHeight |-> Head], nxt |-> [l \in 0 .. MaxHeight |-> Tail], sh |-> 0,
     lv |-> 0, target |-> 0, x |-> Head, y |-> Tail, z |-> Tail, after |-> Tail,
     then |-> "none", probe |-> 0, bad |-> FALSE, res |-> FALSE, mode |-> "none", got |-> <<>>,
     fix |-> "fresh", tight |-> TRUE,
     alone |-> FALSE]

\* the nodes linked at level l, marked or not, in order: Walk(l)[1] is the first
Walk(l) ==
    LET f[i \in 0 .. Cardinality(Node) + 1] ==
          IF i = 0 THEN Head ELSE IF f[i - 1] = Tail THEN Tail ELSE next[f[i - 1]][l]
    IN  f
Chain(l) == LET w == Walk(l) IN {w[i] : i \in 1 .. Cardinality(Node) + 1} \ {Tail}

Put(t, me) == th' = [th EXCEPT ![t] = me]

Before(n, k) == n # Tail /\ Key[n] < k          \* key_is_after_node
Is(n, k) == n \notin {Head, Tail} /\ Key[n] = k   \* equal
Larger(a, b) == IF a > b THEN a ELSE b
Has(ks, k) == k \in ks                         \* the set has the key

\* The operators below are about the local variables me of a thread.
Done(r) == [IdleThread EXCEPT !.pc = "done", !.res = r]
Finish(me, r) == [Done(r) EXCEPT !.op = me.op, !.k = me.k]

\* a search ends at node r; find has found it if it has the key
Found(me, r) ==
    [Finish(me, IF me.op = "find" THEN Is(r, me.k) ELSE r \notin {Head, Tail})
        EXCEPT !.mode = me.mode, !.n = r]

(***************************************************************************)
(* The search.  find_splice_for_level walks one level; the levels of a     *)
(* splice are recomputed from one level down to another.                   *)
(***************************************************************************)
Search(me, from, to, before, after) ==
    [me EXCEPT !.pc = "read", !.lv = from, !.target = to, !.x = before, !.after = after]

\* recompute_splice_levels for a splice of the given height
WholeSearch(me, h) ==
    [Search(me, h - 1, 0, Head, Tail)
        EXCEPT !.sh = h, !.prev = IdleThread.prev, !.nxt = IdleThread.nxt]

\* cas_deleting begins at the top level of the node found, the very node when
\* erase was given one
PickNode(me, y) ==
    IF Is(y, me.k) /\ (me.op = "erase_node" => y = me.n)
    THEN [me EXCEPT !.pc = "mark", !.n = y, !.i = MaxHeight - 1]
    ELSE Finish(me, FALSE)

Ahead(me, y) == [me EXCEPT !.pc = "read", !.x = y, !.y = Tail, !.z = Tail]
Down(me, y) == [me EXCEPT !.pc = "read", !.lv = @ - 1, !.after = y, !.y = Tail, !.z = Tail]

\* y lies before the key; the node after is known to be behind it
StillBefore(me, y) == y # me.after /\ Before(y, me.k)

\* find_splice_for_level for an insert or an erase: walk on, go a level down
\* or end the search
CameSplice(me, y) ==
    LET found == [me EXCEPT !.prev[me.lv] = me.x, !.nxt[me.lv] = y]
        end == [found EXCEPT !.then = "none", !.lv = 0, !.target = 0,
                             !.x = Head, !.y = Tail, !.z = Tail, !.after = Tail]
    IN  IF StillBefore(me, y) THEN Ahead(me, y)
        ELSE IF me.lv > me.target THEN Down(found, y)
        ELSE IF me.then = "pick" THEN PickNode(end, y)
        ELSE [end EXCEPT !.pc = me.then]

\* a plausible bug: past the equal node, the search goes on below it
CameNearDown(me, y) ==
    IF StillBefore(me, y) THEN Ahead(me, y)
    ELSE IF y # me.after /\ Is(y, me.k) /\ me.mode \in {"le", "ge"} THEN Found(me, y)
    ELSE IF me.lv > 0 THEN Down(me, y)
    ELSE Found(me, IF me.mode \in {"le", "lt"} THEN me.x ELSE y)

\* find_equal_or_near: the last node <= or < the key, the first >= or >
CameNear(me, y) ==
    IF StillBefore(me, y) THEN Ahead(me, y)
    ELSE IF y # me.after /\ Is(y, me.k) /\ me.mode \in {"le", "ge"} THEN Found(me, y)
    ELSE IF y # me.after /\ Is(y, me.k) /\ me.mode = "gt" THEN [Ahead(me, y) EXCEPT !.lv = 0]
    ELSE IF me.lv > 0 THEN Down(me, y)
    ELSE Found(me, IF me.mode \in {"le", "lt"} THEN me.x ELSE y)

\* find_last
CameLast(me, y) ==
    IF y # Tail THEN Ahead(me, y)
    ELSE IF me.lv > 0 THEN Down(me, y)
    ELSE Found(me, me.x)

\* an iterator at level 0, until it is not valid any more
CameScan(me, y) ==
    LET all == Cardinality(DOMAIN me.got) + 1 IN
    IF y # Tail
    THEN [Ahead(me, y) EXCEPT !.got = [j \in 1 .. all |-> IF j = all THEN Key[y] ELSE @[j]]]
    ELSE [Finish(me, TRUE) EXCEPT !.got = me.got]

\* refresh_all_links: to the end of each level, from the lowest to the top
CameRefresh(me, y) ==
    IF y # Tail THEN Ahead(me, y)
    ELSE IF me.lv < me.i - 1 THEN [Ahead(me, Head) EXCEPT !.lv = @ + 1]
    ELSE Finish(me, TRUE)

\* what follows when cooperatively_read_next(x, lv) returns y
Came(me, y) ==
    CASE me.op \in {"insert", "erase", "erase_node"} -> CameSplice(me, y)
      [] me.op \in {"find", "seek"} /\ me.mode # "last" -> CameNear(me, y)
      [] me.op = "seek" /\ me.mode = "last" -> CameLast(me, y)
      [] me.op = "scan" -> CameScan(me, y)
      [] me.op = "refresh" -> CameRefresh(me, y)

\* a plausible bug: whoever stands on a marked node is at the end of the level
SkipFromEnds(me, y) == Came(me, Tail)

\* go on past marked nodes from y: "just forward till valid one"
SkipFrom(me, y) ==
    IF y = Tail THEN Came(me, Tail) ELSE [me EXCEPT !.pc = "skip", !.y = y, !.z = Tail]

\* look at y, the successor of an unmarked x
CheckNext(me, y) ==
    IF y = Tail THEN Came(me, Tail) ELSE [me EXCEPT !.pc = "check", !.y = y, !.z = Tail]

\* cooperatively_read_next: load the link of x
Read(t) ==
    LET me == th[t] IN
    /\ me.pc = "read"
    /\ Put(t, IF deleting[me.x][me.lv]
              THEN SkipFrom(me, next[me.x][me.lv])
              ELSE CheckNext(me, next[me.x][me.lv]))
    /\ UNCHANGED <<links, counts, keys, call>>

Skip(t) ==
    LET me == th[t] IN
    /\ me.pc = "skip"
    /\ Put(t, IF deleting[me.y][me.lv] THEN SkipFrom(me, next[me.y][me.lv]) ELSE Came(me, me.y))
    /\ UNCHANGED <<links, counts, keys, call>>

\* do_cooperative_deletion: is y marked?
Check(t) ==
    LET me == th[t] IN
    /\ me.pc = "check"
    /\ Put(t, IF deleting[me.y][me.lv]
              THEN [me EXCEPT !.pc = "unlink", !.z = next[me.y][me.lv]]
              ELSE Came(me, me.y))
    /\ UNCHANGED <<links, counts, keys, call>>

\* a plausible bug: the mark is not part of the word compared
CanCasMarked(n, l, expected) == next[n][l] = expected

CanCas(n, l, expected) == next[n][l] = expected /\ ~deleting[n][l]

\* and if so take it out between x and its successor z
Unlink(t) ==
    LET me == th[t] IN
    /\ me.pc = "unlink"
    /\ IF CanCas(me.x, me.lv, me.y)
       THEN /\ next' = [next EXCEPT ![me.x][me.lv] = me.z]
            /\ Put(t, [me EXCEPT !.pc = "unref"])
       ELSE /\ Put(t, IF deleting[me.x][me.lv]
                      THEN SkipFrom(me, me.z)
                      ELSE CheckNext(me, next[me.x][me.lv]))
            /\ UNCHANGED next
    /\ UNCHANGED <<deleting, counts, keys, call>>

\* a plausible bug: the count compared with 1 is the one after the decrement
DecreaseReferenceEarly(n) ==
    /\ refs' = [refs EXCEPT ![n] = @ - 1]
    /\ retired' = IF refs[n] - 1 = 1 THEN retired \cup {n} ELSE retired

\* decrease_reference: who takes the last reference hands the node to rc
DecreaseReference(n) ==
    /\ refs' = [refs EXCEPT ![n] = @ - 1]
    /\ retired' = IF refs[n] = 1 THEN retired \cup {n} ELSE retired

Unref(t) ==
    LET me == th[t] IN
    /\ me.pc = "unref"
    /\ DecreaseReference(me.y)
    /\ Put(t, CheckNext(me, me.z))
    /\ UNCHANGED <<links, keys, call>>

(***************************************************************************)
(* After a failed compare-exchange on the predecessor at level i: search   *)
(* that level again from it, or, if it is marked itself, refresh_splice.   *)
(***************************************************************************)
\* a plausible bug: the level is searched again from the deleted predecessor
RepairInPlace(me, i, predecessorDeleting, then) ==
    [Search(me, i, i, me.prev[i], Tail) EXCEPT !.then = then]

Repair(me, i, predecessorDeleting, then) ==
    IF predecessorDeleting
    THEN [me EXCEPT !.pc = "probe", !.probe = i + 1, !.target = i, !.then = then]
    ELSE [Search(me, i, i, me.prev[i], Tail) EXCEPT !.then = then]

\* refresh_splice: up to a level whose predecessor is good, then down again
Probe(t) ==
    LET me == th[t]
        p == me.prev[me.probe]
    IN
    /\ me.pc = "probe"
    /\ Put(t, IF p # Head /\ deleting[p][me.probe]
              THEN [me EXCEPT !.probe = @ + 1]
              ELSE [Search(me, me.probe - 1, me.target, p, me.nxt[me.probe]) EXCEPT !.probe = 0])
    /\ UNCHANGED <<links, counts, keys, call>>

(***************************************************************************)
(* insert<0, true>, with a fresh splice or the one of the last insert.     *)
(***************************************************************************)
\* t calls op, which is about the keys ks
BeginCall(t, op, ks) ==
    /\ th[t].pc = "idle"
    /\ plan[t].left > 0 /\ op \in plan[t].ops
    /\ plan' = [plan EXCEPT ![t].left = @ - 1]
    /\ seen' = [seen EXCEPT ![t] = [k \in KeySet |-> IF k \in ks THEN {Has(present, k)} ELSE {}]]
    /\ UNCHANGED <<present, won>>

\* the node is prepared, and its height recorded
Prepare(n, h) ==
    /\ height[n] = 0
    /\ height' = [height EXCEPT ![n] = h]
    /\ refs' = [refs EXCEPT ![n] = 1]
    /\ next' = [next EXCEPT ![n] = [l \in Level |-> IF 0 < l /\ l < h THEN Head ELSE Tail]]
    /\ now_height' = Larger(now_height, h)
    /\ UNCHANGED <<deleting, retired>>

Alone(t) == \A u \in Thread \ {t} : th[u].pc = "idle" /\ plan[u].left = 0
Inserting(t, n) ==
    [th[t] EXCEPT !.op = "insert", !.k = Key[n], !.n = n, !.then = "link0", !.alone = Alone(t)]

Insert(t, n, h) ==
    /\ BeginCall(t, "insert", {Key[n]})
    /\ stale' = [stale EXCEPT ![t] = retired]
    /\ Prepare(n, h)
    /\ Put(t, WholeSearch(Inserting(t, n), now_height'))

\* an insert with the splice of the one before, in the same epoch block
InsertAgain(t, n, h, fix) ==
    /\ BeginCall(t, "insert_again", {Key[n]})
    /\ th[t].sh > 0
    /\ UNCHANGED stale
    /\ Prepare(n, h)
    /\ Put(t, IF th[t].sh < now_height' THEN WholeSearch(Inserting(t, n), now_height')
              ELSE [Inserting(t, n) EXCEPT !.pc = "valid", !.fix = fix])

\* levels 0 .. l-1 of the splice are searched again, and all those below one
\* whose successor lies before the key
Recompute(me, l) ==
    LET wrong == {i \in l + 1 .. me.sh - 1 : Before(me.nxt[i], me.k)}
        h == IF wrong = {} THEN l ELSE 1 + CHOOSE i \in wrong : \A j \in wrong : j <= i
    IN  IF h = 0 THEN [me EXCEPT !.pc = "link0", !.then = "none", !.lv = 0]
        ELSE Search(me, h - 1, 0, me.prev[h], me.nxt[h])

\* the first level above l at which ahead is another node; all, if pessimistic
Past(me, ahead, l) ==
    IF me.fix = "partial"
    THEN CHOOSE m \in l + 1 .. me.sh : ahead[m] # ahead[l] /\ \A j \in l .. m - 1 : ahead[j] = ahead[l]
    ELSE me.sh

\* does a level of the splice bracket the key?  It must be tight, too
Validate(t) ==
    LET me == th[t]
        l == me.lv
        up == IF next[me.prev[l]][l] # me.nxt[l] THEN l + 1
              ELSE IF me.prev[l] # Head /\ ~Before(me.prev[l], me.k) THEN Past(me, me.prev, l)
              ELSE IF Before(me.nxt[l], me.k) THEN Past(me, me.nxt, l)
              ELSE l
    IN
    /\ me.pc = "valid"
    /\ Put(t, IF l < up /\ up < me.sh THEN [me EXCEPT !.lv = up] ELSE Recompute(me, up))
    /\ UNCHANGED <<links, counts, keys, call>>

\* whether the splice of an insert may be used by the next
Reuses(t) == plan[t].left > 0 /\ "insert_again" \in plan[t].ops

\* an insert leaves its splice as it is, or with its node before the key
Leave(t, r, prev) ==
    LET end == [Finish(th[t], r) EXCEPT !.n = th[t].n, !.fix = th[t].fix, !.alone = th[t].alone]
    IN  IF Reuses(t) /\ th[t].tight
        THEN [end EXCEPT !.prev = prev, !.nxt = th[t].nxt, !.sh = th[t].sh]
        ELSE end

\* the next level of the node, or success
LevelUp(t, i) ==
    LET me == th[t] IN
    IF i = height[me.n]
    THEN Leave(t, TRUE, [l \in 0 .. MaxHeight |-> IF l < i THEN me.n ELSE me.prev[l]])
    ELSE [me EXCEPT !.pc = "own", !.i = i]

\* the call of t makes the set ks, and every call under way sees it
KeysBecome(t, ks) ==
    /\ present' = ks
    /\ won' = IF ks # present THEN won \cup {t} ELSE won
    /\ seen' = [u \in Thread |->
                  [k \in KeySet |-> IF seen[u][k] = {} THEN {} ELSE seen[u][k] \cup {Has(ks, k)}]]

Link0(t) ==
    LET me == th[t]
        p == me.prev[0]
        s == me.nxt[0]
    IN
    /\ me.pc = "link0"
    /\ IF Is(s, me.k)
       THEN /\ Put(t, Leave(t, FALSE, me.prev))      \* duplicate key
            /\ UNCHANGED <<next, keys>>
       ELSE IF CanCas(p, 0, s)
       THEN /\ next' = [next EXCEPT ![me.n][0] = s, ![p][0] = me.n]
            /\ KeysBecome(t, present \cup {me.k})
            /\ Put(t, LevelUp(t, 1))
       ELSE /\ Put(t, Repair(me, 0, deleting[p][0], "link0"))
            /\ UNCHANGED <<next, keys>>
    /\ UNCHANGED <<deleting, counts, call>>

\* the successor has the same key: a node being deleted, to be searched past
IsDirty(me) == me.nxt[me.i] # Tail /\ Key[me.nxt[me.i]] <= me.k

Dirty(t) ==
    LET me == th[t] IN
    /\ me.pc = "own"
    /\ IsDirty(me)
    /\ Put(t, Repair(me, me.i, deleting[me.prev[me.i]][me.i], "own"))
    /\ UNCHANGED <<links, counts, keys, call>>

\* point the node to its successor unless somebody deletes it already
Own(t) ==
    LET me == th[t] IN
    /\ me.pc = "own"
    /\ ~IsDirty(me)
    /\ IF deleting[me.n][me.i]
       THEN /\ Put(t, Finish(me, TRUE))
            /\ UNCHANGED next
       ELSE /\ next' = [next EXCEPT ![me.n][me.i] = me.nxt[me.i]]
            /\ Put(t, [me EXCEPT !.pc = "ref"])
    /\ UNCHANGED <<deleting, counts, keys, call>>

\* a plausible bug: fetch_add also on a count of zero
RefResurrects(t) ==
    /\ th[t].pc = "ref"
    /\ refs' = [refs EXCEPT ![th[t].n] = @ + 1]
    /\ Put(t, [th[t] EXCEPT !.pc = "link"])
    /\ UNCHANGED <<links, retired, keys, call>>

\* try_increase_reference
Ref(t) ==
    LET me == th[t] IN
    /\ me.pc = "ref"
    /\ IF refs[me.n] = 0
       THEN /\ Put(t, Finish(me, TRUE))
            /\ UNCHANGED refs
       ELSE /\ refs' = [refs EXCEPT ![me.n] = @ + 1]
            /\ Put(t, [me EXCEPT !.pc = "link"])
    /\ UNCHANGED <<links, retired, keys, call>>

Link(t) ==
    LET me == th[t]
        p == me.prev[me.i]
    IN
    /\ me.pc = "link"
    /\ IF CanCas(p, me.i, me.nxt[me.i])
       THEN /\ next' = [next EXCEPT ![p][me.i] = me.n]
            /\ Put(t, LevelUp(t, me.i + 1))
       ELSE /\ Put(t, [me EXCEPT !.pc = "undo", !.bad = deleting[p][me.i]])
            /\ UNCHANGED next
    /\ UNCHANGED <<deleting, counts, keys, call>>

\* give the reference back; the count before the decrement is never zero, so
\* the abort that tests for it is never taken
Undo(t) ==
    LET me == th[t] IN
    /\ me.pc = "undo"
    /\ DecreaseReference(me.n)
    /\ Put(t, [Repair(me, me.i, me.bad, "own") EXCEPT !.bad = FALSE, !.tight = FALSE])
    /\ UNCHANGED <<links, keys, call>>

(***************************************************************************)
(* erase with a key or a node, and erase_internal.                         *)
(***************************************************************************)
Erase(t, k) ==
    /\ BeginCall(t, "erase", {k})
    /\ stale' = [stale EXCEPT ![t] = retired]
    /\ Put(t, [WholeSearch(th[t], now_height) EXCEPT !.op = "erase", !.k = k, !.then = "pick"])
    /\ UNCHANGED <<links, counts, height, now_height>>

\* erase of a node that a find or an iterator of the caller has just met
EraseNode(t, n) ==
    /\ BeginCall(t, "erase_node", {Key[n]})
    /\ stale' = [stale EXCEPT ![t] = retired]
    /\ n \in Chain(0) /\ ~deleting[n][0]
    /\ Put(t, [WholeSearch(th[t], Larger(height[n], now_height))
                 EXCEPT !.op = "erase_node", !.k = Key[n], !.n = n, !.then = "pick"])
    /\ UNCHANGED <<links, counts, height, now_height>>

\* the links to take out begin at level h - 1
BeginCut(me, h) ==
    IF h > me.sh
    THEN [WholeSearch(me, h) EXCEPT !.then = "cut", !.i = h - 1]
    ELSE [me EXCEPT !.pc = "cut", !.i = h - 1]

\* a plausible bug: the loser of the race for level 0 goes on as the winner
MarkAlwaysWins(t) ==
    LET me == th[t] IN
    /\ me.pc = "mark"
    /\ deleting' = [deleting EXCEPT ![me.n][me.i] = TRUE]
    /\ IF me.i > 0
       THEN Put(t, [me EXCEPT !.i = @ - 1]) /\ UNCHANGED keys
       ELSE /\ Put(t, BeginCut(me, height[me.n]))
            /\ KeysBecome(t, present \ {me.k})
    /\ UNCHANGED <<next, counts, call>>

\* cas_deleting, from the top level down; level 0 decides who deletes
Mark(t) ==
    LET me == th[t] IN
    /\ me.pc = "mark"
    /\ deleting' = [deleting EXCEPT ![me.n][me.i] = TRUE]
    /\ IF me.i > 0
       THEN Put(t, [me EXCEPT !.i = @ - 1]) /\ UNCHANGED keys
       ELSE IF deleting[me.n][0]
       THEN Put(t, Finish(me, FALSE)) /\ UNCHANGED keys
       ELSE /\ Put(t, BeginCut(me, height[me.n]))
            /\ KeysBecome(t, present \ {me.k})
    /\ UNCHANGED <<next, counts, call>>

CutNext(me) == IF me.i = 0 THEN Finish(me, TRUE) ELSE [me EXCEPT !.pc = "cut", !.i = @ - 1]

Cut(t) ==
    LET me == th[t]
        p == me.prev[me.i]
    IN
    /\ me.pc = "cut"
    /\ IF me.nxt[me.i] # me.n
       THEN Put(t, CutNext(me)) /\ UNCHANGED next
       ELSE IF CanCas(p, me.i, me.n)
       THEN /\ next' = [next EXCEPT ![p][me.i] = next[me.n][me.i]]
            /\ Put(t, [me EXCEPT !.pc = "cutref"])
       ELSE /\ Put(t, Repair(me, me.i, deleting[p][me.i], "cut"))
            /\ UNCHANGED next
    /\ UNCHANGED <<deleting, counts, keys, call>>

CutRef(t) ==
    LET me == th[t] IN
    /\ me.pc = "cutref"
    /\ DecreaseReference(me.n)
    /\ Put(t, CutNext(me))
    /\ UNCHANGED <<links, keys, call>>

(***************************************************************************)
(* The calls that only read (and help) begin without the splice that an    *)
(* insert may have left.  The return of a call: emplace frees the node of  *)
(* a refused insert, which was never linked.                               *)
(***************************************************************************)
Reads(t, op, ks, me) ==
    /\ BeginCall(t, op, ks)
    /\ stale' = [stale EXCEPT ![t] = retired]
    /\ Put(t, me)
    /\ UNCHANGED <<links, counts, height, now_height>>

Find(t, k) ==
    Reads(t, "find", {k}, [Search(IdleThread, now_height - 1, 0, Head, Tail)
                              EXCEPT !.op = "find", !.k = k, !.mode = "ge"])

\* the seeks of iterator, its prev, and find_last
Seek(t, mode, k) ==
    Reads(t, mode, KeySet, [Search(IdleThread, now_height - 1, 0, Head, Tail)
                               EXCEPT !.op = "seek", !.k = k, !.mode = mode])

\* seek_to_first, and next while valid
Scan(t) == Reads(t, "scan", KeySet, [Search(IdleThread, 0, 0, Head, Tail) EXCEPT !.op = "scan"])

RefreshAllLinks(t) ==
    Reads(t, "refresh", {}, [Search(IdleThread, 0, 0, Head, Tail) EXCEPT !.op = "refresh", !.i = now_height])

Refused(t) == th[t].pc = "done" /\ th[t].op = "insert" /\ ~th[t].res

Return(t) ==
    /\ th[t].pc = "done"
    /\ IF Refused(t)
       THEN /\ height' = [height EXCEPT ![th[t].n] = 0]
            /\ refs' = [refs EXCEPT ![th[t].n] = 0]
       ELSE UNCHANGED <<height, refs>>
    /\ th' = [th EXCEPT ![t] =
                [IdleThread EXCEPT !.prev = th[t].prev, !.nxt = th[t].nxt, !.sh = th[t].sh]]
    /\ stale' = [stale EXCEPT ![t] = IF th[t].sh > 0 THEN @ ELSE {}]
    /\ seen' = [seen EXCEPT ![t] = [k \in KeySet |-> {}]]
    /\ won' = won \ {t}
    /\ UNCHANGED <<links, retired, present, now_height, plan>>

(***************************************************************************)
(* The system.                                                             *)
(***************************************************************************)
Call(t) ==
    \/ \E n \in plan[t].nodes, h \in 1 .. MaxHeight :
          Insert(t, n, h) \/ \E fix \in {"partial", "whole"} : InsertAgain(t, n, h, fix)
    \/ \E n \in plan[t].nodes : EraseNode(t, n)
    \/ \E n \in plan[t].nodes : Erase(t, Key[n]) \/ Find(t, Key[n])
    \/ \E n \in plan[t].nodes, mode \in {"le", "lt", "ge", "gt"} : Seek(t, mode, Key[n])
    \/ Seek(t, "last", 0) \/ Scan(t) \/ RefreshAllLinks(t)

Step(t) ==
    \/ Read(t)
    \/ Skip(t)
    \/ Check(t)
    \/ Unlink(t)
    \/ Unref(t)
    \/ Probe(t)
    \/ Validate(t)
    \/ Link0(t)
    \/ Dirty(t)
    \/ Own(t)
    \/ Ref(t)
    \/ Link(t)
    \/ Undo(t)
    \/ Mark(t)
    \/ Cut(t)
    \/ CutRef(t)
    \/ Return(t)

Next == \E t \in Thread : Call(t) \/ Step(t)

\* A list that holds the nodes of the given heights (0: not in it), linked as
\* insertions one after the other leave them.
ListOf(hs) ==
    LET at(l) == {n \in Node : hs[n] > l}
        succ(n, l) == {m \in at(l) : (n # Head => Key[m] > Key[n])
                                     /\ \A o \in at(l) : (n # Head => Key[o] > Key[n]) => Key[m] <= Key[o]}
    IN  [n \in Linkable |-> [l \in Level |->
            IF (n = Head \/ n \in at(l)) /\ succ(n, l) # {} THEN CHOOSE m \in succ(n, l) : TRUE ELSE Tail]]

InitFrom(hs) ==
    /\ next = ListOf(hs)
    /\ deleting = [n \in Linkable |-> [l \in Level |-> FALSE]]
    /\ height = hs
    /\ refs = hs
    /\ now_height = LET top == {hs[n] : n \in Node} \cup {1} IN CHOOSE h \in top : \A g \in top : g <= h
    /\ th = [t \in Thread |-> IdleThread]
    /\ plan \in Plans
    /\ present = {Key[n] : n \in {m \in Node : hs[m] > 0}}
    /\ retired = {}
    /\ seen = [t \in Thread |-> [k \in KeySet |-> {}]]
    /\ won = {}
    /\ stale = [t \in Thread |-> {}]

\* any list that insertions can have built
Init ==
    \E hs \in [Node -> 0 .. MaxHeight] :
        /\ \A m, n \in Node : m # n /\ hs[m] > 0 /\ hs[n] > 0 => Key[m] # Key[n]
        /\ InitFrom(hs)
        /\ \A n \in Node : hs[n] > 0 => \E t \in Thread : n \in plan[t].nodes

Spec == Init /\ [][Next]_vars
FairSpec == Spec /\ \A t \in Thread : WF_vars(Step(t))

(***************************************************************************)
(* Safety.                                                                 *)
(***************************************************************************)
TypeOK ==
    /\ next \in [Linkable -> [Level -> Linkable \cup {Tail}]]
    /\ deleting \in [Linkable -> [Level -> BOOLEAN]]
    /\ height \in [Node -> 0 .. MaxHeight]
    /\ refs \in [Node -> 0 .. MaxHeight]
    /\ now_height \in 1 .. MaxHeight

\* Every level ends at the tail and is strictly sorted, marked nodes included:
\* no race of inserts and deletions makes a cycle, or two nodes of one key.
Sorted ==
    \A l \in Level :
        LET w == Walk(l) IN
        /\ w[Cardinality(Node) + 1] = Tail
        /\ \A i \in 1 .. Cardinality(Node) : w[i + 1] # Tail => Key[w[i]] < Key[w[i + 1]]

\* The keys of the set are those of the unmarked nodes of level 0: a node
\* inserted is never lost and a node erased never comes back.
SetIsLevel0 == present = {Key[n] : n \in {m \in Chain(0) : ~deleting[m][0]}}

\* A call that reports a change has made it, alone: of two racing inserts or
\* erases of a key only one is told so.  A call that changed nothing has an
\* excuse: at some moment of the call the key was in the set (a refused insert,
\* a successful find), or was not (a vain erase or find).  With SetIsLevel0
\* this is linearizability.  An insert with a splice used again has no such
\* excuse to be refused: see AbsentIsInserted.
Linearizable ==
    \A t \in Thread : th[t].pc = "done" =>
        LET was == seen[t][th[t].k] IN
        /\ th[t].op \in {"insert", "erase", "erase_node"} => (th[t].res <=> t \in won)
        /\ th[t].op = "insert" /\ ~th[t].res => TRUE \in was \/ th[t].fix # "fresh"
        /\ th[t].op \in {"erase", "erase_node"} /\ ~th[t].res => FALSE \in was
        /\ th[t].op = "find" => th[t].res \in was

\* the keys between what a seek was for and the node it found
Passed(me) ==
    {q \in KeySet :
        /\ me.mode = "le" => q <= me.k
        /\ me.mode = "lt" => q < me.k
        /\ me.mode = "ge" => q >= me.k
        /\ me.mode = "gt" => q > me.k
        /\ me.n \notin {Head, Tail} =>
              IF me.mode \in {"ge", "gt"} THEN q < Key[me.n] ELSE q > Key[me.n]}

\* A seek returns a neighbour on the right side that was in the set at some
\* moment of the call, and every nearer key was missing at some moment of it:
\* marks met on upper levels, frozen links and the known bound last_bigger
\* never make it overlook a key that was there all the time.
SeekIsNearest ==
    \A t \in Thread : th[t].pc = "done" /\ th[t].op = "seek" =>
        LET me == th[t] IN
        /\ \A q \in Passed(me) : FALSE \in seen[t][q]
        /\ me.res => /\ TRUE \in seen[t][Key[me.n]]
                     /\ me.mode = "le" => Key[me.n] <= me.k
                     /\ me.mode = "lt" => Key[me.n] < me.k
                     /\ me.mode = "ge" => Key[me.n] >= me.k
                     /\ me.mode = "gt" => Key[me.n] > me.k

\* A scan by an iterator goes up, meets every key that was in the set from its
\* beginning to its end, and no key that never was: an iterator whose node is
\* deleted under it finds its way back.
ScanSeesAll ==
    \A t \in Thread : th[t].pc = "done" /\ th[t].op = "scan" =>
        LET got == th[t].got IN
        /\ \A i, j \in DOMAIN got : i < j => got[i] < got[j]
        /\ \A q \in KeySet : IF q \in {got[i] : i \in DOMAIN got}
                             THEN TRUE \in seen[t][q] ELSE FALSE \in seen[t][q]

\* The reference count of a node once linked is the number of levels it is
\* linked at, plus the references that threads have in their hands.
InHand(n) ==
    {t \in Thread :
        \/ th[t].pc = "unref" /\ th[t].y = n
        \/ th[t].pc \in {"cutref", "link", "undo"} /\ th[t].n = n}
WasLinked(n) ==
    /\ height[n] > 0
    /\ \A t \in Thread : th[t].n = n /\ th[t].op = "insert" =>
          ~Refused(t) /\ "link0" \notin {th[t].pc, th[t].then}

RefsExact ==
    LET chain == [l \in Level |-> Chain(l)] IN
    \A n \in Node : WasLinked(n) =>
        /\ refs[n] = Cardinality({l \in Level : n \in chain[l]}) + Cardinality(InHand(n))
        /\ n \in retired <=> refs[n] = 0

\* A call never stands on, or looks at, a node that was retired before the
\* call began, not even by the frozen links of nodes that were unlinked later:
\* what MapReclaim assumes of a thread that enters after the last unlink.
NoStaleVisit ==
    \A t \in Thread : th[t].pc # "idle" =>
        stale[t] \cap ({th[t].n, th[t].x, th[t].y, th[t].z, th[t].after}
                       \cup {th[t].prev[l] : l \in Level} \cup {th[t].nxt[l] : l \in Level}) = {}

\* With no call under way dbg_validate passes, and a node in the set is linked
\* at every level of its height: a racing deletion never cuts an insert short.
Quiescent == \A t \in Thread : th[t].pc = "idle"
WellFormed ==
    Quiescent =>
        \A l \in Level :
            {n \in Chain(l) : ~deleting[n][l]} = {n \in Chain(0) : ~deleting[n][0] /\ height[n] > l}

\* What an insert is about to link between, or an erase to cut after, brackets
\* the key, up to a node of the same key to be searched past ("actually prev
\* never makes mistake", "compare < 0 never happens": lines 686 and 707), also
\* in a splice that is left of another key and has been deleted around.
SpliceBrackets ==
    \A t \in Thread :
        LET me == th[t]
            i == IF me.pc = "link0" THEN 0 ELSE me.i
        IN  /\ me.pc \in {"link0", "own", "link", "cut"} =>
                  /\ me.prev[i] = Head \/ Before(me.prev[i], me.k)
                  /\ ~Before(me.nxt[i], me.k)
            /\ me.pc = "link" => ~Is(me.nxt[i], me.k)

\* The levels together are one set: sorted everywhere, its keys at level 0, with
\* no call under way its nodes at each level of their height; and no insert
\* gets lost in them.
ListInv == TypeOK /\ Sorted /\ SetIsLevel0 /\ WellFormed /\ SpliceBrackets

\* "Checking for duplicate keys on the level 0 is sufficient" (line 688): an
\* insert that runs alone is refused only if its key is in the set.  A splice
\* used again may show it a node of the key that was erased long ago.
AbsentIsInserted ==
    \A t \in Thread :
        th[t].pc = "done" /\ th[t].op = "insert" /\ th[t].alone /\ ~th[t].res =>
            TRUE \in seen[t][th[t].k]

\* An insert that gives back the last reference of its node "detected concurrent
\* deletion and just aborts" (lines 758 to 770).
LastReferenceAborts ==
    [][\A t \in Thread :
          th[t].pc = "undo" /\ refs'[th[t].n] = 0 /\ refs[th[t].n] > 0 => th'[t].pc = "done"]_vars

(***************************************************************************)
(* Liveness.                                                               *)
(***************************************************************************)
\* Searching again and refreshing the splice come to an end: a call returns,
\* unless it is an insert that meets a node of its own key at the level it links
\* (line 703); such a node may stay for ever, see DirtyIsRemoved.
CallsReturn ==
    \A t \in Thread :
        th[t].pc # "idle" ~> (th[t].pc = "idle" \/ (th[t].pc = "own" /\ IsDirty(th[t])))

\* "Dirty node will be removed by cooperative deletion" (line 712): an insert
\* that must search past a node of its own key gets on with its level.
DirtyIsRemoved ==
    \A t \in Thread : th[t].pc = "own" /\ IsDirty(th[t]) ~> th[t].pc \in {"ref", "done"}
=============================================================================
