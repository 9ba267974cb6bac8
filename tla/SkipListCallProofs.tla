------------------------- MODULE SkipListCallProofs -------------------------
(***************************************************************************)
(* Proofs about SkipList: what its calls answer, and which nodes they see. *)
(* Linearizable, SeekIsNearest, ScanSeesAll and NoStaleVisit, for any      *)
(* number of threads, nodes and levels, any keys and any plans.            *)
(*                                                                         *)
(* A call remembers the nodes that were linked, at each level, at some     *)
(* moment of its epoch block.  It never leaves them, for the link of a     *)
(* node taken out is frozen and leads to others of them; and between a     *)
(* node of level 0 and the one its link leads to there was no key when     *)
(* the node was taken out, or there is none now.                           *)
(***************************************************************************)
EXTENDS SkipListProofs

(***************************************************************************)
(* What a call has seen of the keys.                                       *)
(***************************************************************************)
\* the calls to which a key they come past without seeing it has been absent:
\* an insert looks only for its own
Reader(op) == op \notin {"none", "insert"}

\* the call of t, if it is about q, knows of a moment when q was not in the set
SawOut(t, q) == seen[t][q] # {} => FALSE \in seen[t][q]

\* it knows of a moment when n was in, and if n is erased, of one when it was out
SawIn(t, n) ==
    n \in Node /\ seen[t][Key[n]] # {} =>
        TRUE \in seen[t][Key[n]] /\ (deleting[n][0] => FALSE \in seen[t][Key[n]])

Between(x, q, z) == (x = Head \/ Key[x] < q) /\ (z = Tail \/ q < Key[z])
SawGap(t, x, z) == \A q \in KeySet : Between(x, q, z) => SawOut(t, q)

(***************************************************************************)
(* W holds, for each level, the nodes linked there at some moment since    *)
(* the epoch block of t began; the links of those that are not any more    *)
(* lead to others of them.                                                 *)
(***************************************************************************)
Been(t, op, W) ==
    /\ W \in [Level -> SUBSET Node]
    /\ \A l \in Level : Chain(l) \subseteq W[l] /\ W[l] \cap stale[t] = {}
    /\ \A l \in Level : \A y \in W[l] \ Chain(l) : deleting[y][l] /\ next[y][l] \in W[l] \cup {Tail}
    /\ Reader(op) => \A y \in W[0] \ Chain(0) : SawOut(t, Key[y]) /\ SawGap(t, y, next[y][0])

\* x was linked at level l and below it
Inside(W, x, l) == x = Head \/ \A j \in 0 .. l : x \in W[j]

\* the nodes whose links a thread follows have been linked in its time
Visit(me, W) ==
    /\ me.pc \in Searching => Inside(W, me.x, me.lv)
    /\ me.pc \in Searching \ {"read"} => me.y \in W[me.lv]
    /\ me.pc \in {"unlink", "unref"} => me.z \in W[me.lv] \cup {Tail}
    /\ \A l \in 0 .. me.sh - 1 : Inside(W, me.prev[l], l)
    /\ Building(me) => \A l \in 0 .. me.i - 1 : me.n \in W[l]

\* the nodes a thread knows of were not retired before; between calls it knows
\* only those of its splice
Known(me) ==
    {me.n, me.x, me.y, me.z, me.after} \cup {me.prev[l] : l \in Level} \cup {me.nxt[l] : l \in Level}
Clean(t, me) ==
    /\ stale[t] \cap Known(me) = {}
    /\ me.pc = "idle" => {me.n, me.x, me.y, me.z, me.after} \subseteq {Head, Tail}

\* which keys a call is about
Asks(t, me) ==
    /\ me.op \in SpliceOps \cup {"find"} => me.k \in KeySet /\ seen[t][me.k] # {}
    /\ me.op \in {"seek", "scan"} => \A q \in KeySet : seen[t][q] # {}

\* a scan has come to x, and past all keys up to that
GotKeys(me) == {me.got[i] : i \in DOMAIN me.got}
Scanned(t, me) ==
    /\ \E m \in Nat : DOMAIN me.got = 1 .. m
    /\ \A i, j \in DOMAIN me.got : i < j => me.got[i] < me.got[j]
    /\ \A q \in GotKeys(me) : q \in KeySet /\ me.x # Head /\ q <= Key[me.x]
    /\ \A q \in KeySet : me.x # Head /\ q <= Key[me.x] =>
          IF q \in GotKeys(me) THEN TRUE \in seen[t][q] ELSE FALSE \in seen[t][q]

\* a search for a neighbour of the key is on the right side of it, and so is the
\* node that needs no comparison
Bounds(me) ==
    /\ me.x = Head \/ Key[me.x] < me.k \/ (me.mode = "gt" /\ Key[me.x] = me.k)
    /\ ~Before(me.after, me.k)
    /\ me.mode # "lt" => ~Is(me.after, me.k)

Sights(t, me) ==
    /\ me.op = "insert" /\ me.fix = "fresh" => SawIn(t, me.nxt[0])
    /\ Reader(me.op) /\ me.lv = 0 /\ me.pc \in {"skip", "check"} => SawGap(t, me.x, me.y)
    /\ Reader(me.op) /\ me.lv = 0 /\ me.pc \in {"unlink", "unref"} => SawGap(t, me.x, me.z)
    /\ me.op = "seek" /\ me.pc \in Searching => SawIn(t, me.x) /\ me.mode # "none"
    /\ me.op \in {"seek", "find"} /\ me.pc \in Searching /\ me.mode # "last" => Bounds(me)
    /\ me.pc = "mark" => SawIn(t, me.n)
    /\ me.op = "erase_node" /\ me.pc \in Searching /\ me.then = "pick" =>
          SawIn(t, me.n) /\ me.n \in Node /\ (me.n \in Chain(0) \/ deleting[me.n][0])
    /\ me.op = "scan" /\ me.pc \in Searching => Scanned(t, me)

\* what a call that is over says is right
SeekAnswer(t, me) ==
    /\ \A q \in Passed(me) : FALSE \in seen[t][q]
    /\ me.res => /\ me.n \in Node /\ TRUE \in seen[t][Key[me.n]]
                 /\ me.mode = "le" => Key[me.n] <= me.k
                 /\ me.mode = "lt" => Key[me.n] < me.k
                 /\ me.mode = "ge" => Key[me.n] >= me.k
                 /\ me.mode = "gt" => Key[me.n] > me.k
ScanAnswer(t, me) ==
    /\ \A i, j \in DOMAIN me.got : i < j => me.got[i] < me.got[j]
    /\ \A q \in KeySet : IF q \in GotKeys(me) THEN TRUE \in seen[t][q] ELSE FALSE \in seen[t][q]
Answer(t, me) ==
    me.pc = "done" =>
        /\ me.op = "insert" /\ ~me.res => TRUE \in seen[t][me.k] \/ me.fix # "fresh"
        /\ me.op \in {"erase", "erase_node"} /\ ~me.res => FALSE \in seen[t][me.k]
        /\ me.op = "find" => me.res \in seen[t][me.k]
        /\ me.op = "seek" => SeekAnswer(t, me)
        /\ me.op = "scan" => ScanAnswer(t, me)

Knows(t, me) == Asks(t, me) /\ Sights(t, me) /\ Answer(t, me)
Told(t, me, W) == Been(t, me.op, W) /\ Visit(me, W) /\ Clean(t, me) /\ Knows(t, me)

\* the call of me has changed the set
Won(me) ==
    \/ Building(me)
    \/ me.op \in {"erase", "erase_node"} /\ (me.pc \in {"cut", "cutref"} \/ me.then = "cut")
    \/ me.op \in SpliceOps /\ me.pc = "done" /\ me.res

\* the history
Recorded ==
    /\ seen \in [Thread -> [KeySet -> SUBSET BOOLEAN]]
    /\ stale \in [Thread -> SUBSET Node]
    /\ \A t \in Thread, q \in KeySet : seen[t][q] # {} =>
          IF q \in present THEN TRUE \in seen[t][q] ELSE FALSE \in seen[t][q]
    /\ \A t \in Thread : stale[t] \subseteq retired
Winners == \A t \in Thread : t \in won <=> Won(th[t])

\* the inductive invariant
CallIInv == Recorded /\ Winners /\ \A t \in Thread : \E W : Told(t, th[t], W)

-------------------------------------------------------------------------------
\* The parts of the invariant of the list that a search relies on.
LEMMA NowFacts ==
  ASSUME ListIInv
  PROVE  /\ Types /\ Chains /\ Links /\ Marks /\ Counts /\ SetIsLevel0 /\ Threads
         /\ \A t \in Thread : ThreadInv(th[t])
BY DEF ListIInv, Threads

\* A node that is linked is not retired.
LEMMA ChainLive ==
  ASSUME ListIInv, NEW l \in Level, NEW n \in Chain(l)
  PROVE  n \in Node /\ WasLinked(n) /\ n \notin retired
<1>1. n \in Node /\ WasLinked(n)
  <2>1. n \in Node
    BY NowFacts DEF Chains, IsChain
  <2>2. Reached(n, l)
    BY NowFacts DEF Links
  <2> QED
    BY <2>1, <2>2, NodeFacts DEF Reached
<1>2. l \in Counted(n)
  BY DEF Counted
<1>3. Cardinality(Counted(n)) # 0
  <2>1. IsFiniteSet(Counted(n))
    BY CountedFinite
  <2> QED
    BY <1>2, <2>1, FS_EmptySet
<1>4. refs[n] = Cardinality(Counted(n)) /\ (n \in retired <=> refs[n] = 0)
  BY <1>1, NowFacts DEF Counts
<1> QED
  BY <1>1, <1>3, <1>4

\* What is so of threads and chains.
LEMMA NowAll ==
  ListIInv =>
      /\ Types
      /\ \A t \in Thread : ThreadInv(th[t])
      /\ \A l \in Level : \A n \in Chain(l) : n \in Node /\ n \notin retired
<1> SUFFICES ASSUME ListIInv
             PROVE  /\ Types
                    /\ \A t \in Thread : ThreadInv(th[t])
                    /\ \A l \in Level : \A n \in Chain(l) : n \in Node /\ n \notin retired
  OBVIOUS
<1>1. Types /\ \A t \in Thread : ThreadInv(th[t])
  BY NowFacts
<1>2. \A l \in Level : \A n \in Chain(l) : n \in Node /\ n \notin retired
  BY ChainLive
<1> QED
  BY <1>1, <1>2

\* The same of the state after a step.
LEMMA NowPrime ==
  ListIInv' =>
      /\ Types'
      /\ \A t \in Thread : ThreadInv(th[t])'
      /\ \A l \in Level : \A n \in Chain(l)' : n \in Node /\ n \notin retired'
<1>1. (ListIInv =>
          /\ Types
          /\ \A t \in Thread : ThreadInv(th[t])
          /\ \A l \in Level : \A n \in Chain(l) : n \in Node /\ n \notin retired)'
  BY NowAll, PTL
<1> QED
  BY <1>1

\* A node that was linked, and is not marked, is linked at that level and below.
LEMMA UnmarkedLinked ==
  ASSUME ListIInv, NEW l \in Level, NEW n \in Node, Reached(n, l), ~deleting[n][l]
  PROVE  \A j \in Level : j <= l => n \in Chain(j) /\ ~deleting[n][j]
<1> SUFFICES ASSUME NEW j \in Level, j <= l PROVE n \in Chain(j) /\ ~deleting[n][j]
  OBVIOUS
<1>1. Reached(n, j)
  BY NowFacts, ReachFacts
<1>2. ~deleting[n][j]
  <2>1. j < l => ~deleting[n][j]
    BY NowFacts DEF Marks
  <2>2. j = l \/ j < l
    BY DEF Level
  <2> QED
    BY <2>1, <2>2
<1> QED
  BY <1>1, <1>2, NodeFacts DEF Reached

\* The key of a node that is linked is in the set if and only if the node is
\* not marked.
LEMMA KeyPresent ==
  ASSUME ListIInv, NEW n \in Chain(0)
  PROVE  Key[n] \in present <=> ~deleting[n][0]
<1>1. present = {Key[m] : m \in {v \in Chain(0) : ~deleting[v][0]}}
  BY NowFacts DEF SetIsLevel0
<1>2. \A m \in Chain(0) : Key[m] = Key[n] => m = n
  BY NowFacts, NodeFacts DEF Chains, IsChain
<1> QED
  BY <1>1, <1>2

\* Between a node of level 0 and its successor there is no key.
LEMMA GapEmpty ==
  ASSUME ListIInv, NEW x \in Chain(0) \cup {Head}, NEW q \in Int, Between(x, q, next[x][0])
  PROVE  q \notin present
<1>1. present = {Key[m] : m \in {v \in Chain(0) : ~deleting[v][0]}}
  BY NowFacts DEF SetIsLevel0
<1> SUFFICES ASSUME NEW m \in Chain(0), Key[m] = q PROVE FALSE
  BY <1>1
<1>2. IsChain(0, Chain(0))
  BY NowFacts, NodeFacts DEF Chains
<1>3. x = Head \/ Key[x] < Key[m]
  BY DEF Between
<1>4. next[x][0] \in Chain(0) /\ Key[next[x][0]] <= Key[m]
  BY <1>2, <1>3 DEF IsChain
<1>5. next[x][0] \in Node /\ m \in Node /\ Key[next[x][0]] \in Int /\ Key[m] \in Int
  BY <1>2, <1>4, NodeFacts DEF IsChain
<1> QED
  BY <1>4, <1>5, NodeFacts DEF Between

\* The keys of nodes are keys.
LEMMA KeyFacts ==
  /\ \A n \in Node : Key[n] \in KeySet /\ Key[n] \in Int
  /\ \A q \in KeySet : q \in Int
BY NodeFacts DEF KeySet

\* What is so now, a call has seen.
LEMMA SeenNow ==
  ASSUME Recorded, NEW t \in Thread, NEW q \in KeySet
  PROVE  /\ q \notin present => SawOut(t, q)
         /\ seen[t][q] # {} /\ q \in present => TRUE \in seen[t][q]
         /\ seen[t][q] # {} /\ q \notin present => FALSE \in seen[t][q]
BY DEF Recorded, SawOut

\* What a call may follow: from a node linked in its time, to another.
LEMMA NextIn ==
  ASSUME ListIInv, NEW t \in Thread, NEW op, NEW W, Been(t, op, W),
         NEW l \in Level, NEW x \in W[l] \cup {Head}
  PROVE  next[x][l] \in W[l] \cup {Tail} /\ W[l] \subseteq Node
<1>1. W[l] \subseteq Node /\ Chain(l) \subseteq W[l]
  BY DEF Been
<1>2. CASE x \in Chain(l) \cup {Head}
  <2>1. next[x][l] \in Chain(l) \cup {Tail}
    BY <1>2, NowFacts DEF Chains, IsChain
  <2> QED
    BY <1>1, <2>1
<1>3. CASE x \in W[l] \ Chain(l)
  BY <1>1, <1>3 DEF Been
<1> QED
  BY <1>1, <1>2, <1>3

\* Nodes linked in its time were not retired before.
LEMMA BeenClean ==
  ASSUME Recorded, NEW t \in Thread, NEW op, NEW W, Been(t, op, W), NEW l \in Level
  PROVE  \A y \in W[l] \cup {Head, Tail} : y \notin stale[t]
<1>1. stale[t] \subseteq Node /\ W[l] \cap stale[t] = {}
  BY DEF Been, Recorded
<1> QED
  BY <1>1, NodeFacts

\* There was no key behind a node of level 0 that is linked, or was when it was
\* taken out; and if the node is marked, its key was absent.
LEMMA GapNow ==
  ASSUME ListIInv, Recorded, NEW t \in Thread, NEW op, NEW W, Been(t, op, W), Reader(op),
         NEW x \in W[0] \cup {Head}
  PROVE  /\ SawGap(t, x, next[x][0])
         /\ x # Head /\ deleting[x][0] => SawOut(t, Key[x])
<1>0. 0 \in Level
  BY NodeFacts
<1>1. CASE x \in Chain(0) \cup {Head}
  <2>1. ASSUME NEW q \in KeySet, Between(x, q, next[x][0]) PROVE SawOut(t, q)
    <3>1. q \notin present
      BY <1>1, <2>1, GapEmpty, KeyFacts
    <3> QED
      BY <3>1, SeenNow
  <2>2. ASSUME x # Head, deleting[x][0] PROVE SawOut(t, Key[x])
    <3>1. x \in Chain(0) /\ x \in Node
      BY <1>0, <1>1, <2>2, ChainLive
    <3>2. Key[x] \notin present /\ Key[x] \in KeySet
      BY <2>2, <3>1, KeyPresent, KeyFacts
    <3> QED
      BY <3>2, SeenNow
  <2> QED
    BY <2>1, <2>2 DEF SawGap
<1>2. CASE x \in W[0] \ Chain(0)
  BY <1>2 DEF Been
<1> QED
  BY <1>1, <1>2

\* Two gaps, and the node between them, are a gap.
LEMMA GapJoin ==
  ASSUME NEW t, NEW x \in Linkable, NEW y \in Node, NEW z, z \in Some,
         SawGap(t, x, y), SawOut(t, Key[y]), SawGap(t, y, z)
  PROVE  SawGap(t, x, z)
<1> SUFFICES ASSUME NEW q \in KeySet, Between(x, q, z) PROVE SawOut(t, q)
  BY DEF SawGap
<1>1. q \in Int /\ Key[y] \in Int /\ y # Tail /\ y # Head
  BY KeyFacts, NodeFacts
<1>2. CASE q = Key[y]
  BY <1>2
<1>3. CASE q < Key[y]
  <2>1. Between(x, q, y)
    BY <1>3 DEF Between
  <2> QED
    BY <2>1 DEF SawGap
<1>4. CASE Key[y] < q
  <2>1. Between(y, q, z)
    BY <1>4 DEF Between
  <2> QED
    BY <2>1 DEF SawGap
<1> QED
  BY <1>1, <1>2, <1>3, <1>4

\* A node found unmarked is in the set now, and linked at its level and below.
LEMMA FoundNow ==
  ASSUME ListIInv, Recorded, NEW t \in Thread, NEW op, NEW W, Been(t, op, W),
         NEW l \in Level, NEW y \in Node, Reached(y, l), ~deleting[y][l]
  PROVE  /\ Inside(W, y, l) /\ y \in W[l] /\ y \notin stale[t] /\ SawIn(t, y)
         /\ y \in Chain(0) /\ ~deleting[y][0] /\ Key[y] \in present
<1>1. \A j \in Level : j <= l => y \in Chain(j) /\ ~deleting[y][j]
  BY UnmarkedLinked
<1>2. \A j \in Level : Chain(j) \subseteq W[j]
  BY DEF Been
<1>0. 0 \in Level /\ 0 <= l /\ l <= l /\ \A j \in 0 .. l : j \in Level /\ j <= l
  BY NodeFacts DEF Level
<1>3. Inside(W, y, l) /\ y \in W[l]
  BY <1>0, <1>1, <1>2 DEF Inside
<1>4. y \in Chain(0) /\ ~deleting[y][0]
  BY <1>0, <1>1
<1>5. Key[y] \in present
  BY <1>4, KeyPresent
<1>6. SawIn(t, y)
  BY <1>4, <1>5, SeenNow, KeyFacts DEF SawIn
<1> QED
  BY <1>3, <1>4, <1>5, <1>6, BeenClean

-------------------------------------------------------------------------------
\* what a step keeps of the nodes: marks, the links of marked nodes, and all
\* unmarked ones that are linked; a node that is marked has its key taken out
Onward ==
    /\ \A n \in Node, l \in Level : deleting[n][l] => deleting'[n][l] /\ next'[n][l] = next[n][l]
    /\ \A l \in Level : \A n \in Chain(l) : n \in Chain(l)' \/ deleting[n][l]
    /\ retired \subseteq retired'
    /\ \A n \in Node : deleting'[n][0] /\ ~deleting[n][0] => Key[n] \notin present'

\* a step in which the call of t goes on, whoever takes it
Remembers(t) ==
    /\ \A q \in KeySet : (seen'[t][q] = {} <=> seen[t][q] = {}) /\ seen[t][q] \subseteq seen'[t][q]
    /\ stale'[t] = stale[t]

\* V are the nodes of W and those linked after the step
Grown(W, V) == V = [l \in Level |-> W[l] \cup Chain(l)']

\* What a call has seen it will have seen.
LEMMA SawKept ==
  ASSUME Recorded', Onward, NEW t \in Thread, Remembers(t)
  PROVE  /\ \A q \in KeySet : SawOut(t, q) => SawOut(t, q)'
         /\ \A n : SawIn(t, n) => SawIn(t, n)'
         /\ \A x, z : SawGap(t, x, z) => SawGap(t, x, z)'
<1>1. \A q \in KeySet : SawOut(t, q) => SawOut(t, q)'
  BY DEF SawOut, Remembers
<1>2. ASSUME NEW n, SawIn(t, n) PROVE SawIn(t, n)'
  <2> SUFFICES ASSUME n \in Node, seen'[t][Key[n]] # {}
               PROVE  TRUE \in seen'[t][Key[n]] /\ (deleting'[n][0] => FALSE \in seen'[t][Key[n]])
    BY DEF SawIn
  <2>1. Key[n] \in KeySet
    BY KeyFacts
  <2>2. seen[t][Key[n]] # {} /\ seen[t][Key[n]] \subseteq seen'[t][Key[n]]
    BY <2>1 DEF Remembers
  <2>3. TRUE \in seen'[t][Key[n]] /\ (deleting[n][0] => FALSE \in seen'[t][Key[n]])
    BY <1>2, <2>2 DEF SawIn
  <2>4. deleting'[n][0] /\ ~deleting[n][0] => FALSE \in seen'[t][Key[n]]
    BY <2>1 DEF Onward, Recorded
  <2> QED
    BY <2>3, <2>4
<1> QED
  BY <1>1, <1>2 DEF SawGap, Between

\* The nodes linked since the epoch block of a thread began, after a step.
LEMMA BeenLinks ==
  ASSUME ListIInv, ListIInv', Recorded', Onward, NEW t \in Thread, stale'[t] = stale[t],
         NEW op, NEW W, Been(t, op, W), NEW V, Grown(W, V)
  PROVE  /\ V \in [Level -> SUBSET Node]
         /\ \A l \in Level : V[l] = W[l] \cup Chain(l)' /\ V[l] \cap stale'[t] = {}
         /\ \A l \in Level : \A y \in V[l] \ Chain(l)' :
               /\ deleting'[y][l] /\ next'[y][l] \in V[l] \cup {Tail} /\ next'[y][l] = next[y][l]
               /\ y \in W[l] /\ deleting[y][l] /\ y \in Node
<1>1. V \in [Level -> SUBSET Node] /\ \A l \in Level : V[l] = W[l] \cup Chain(l)'
  <2>1. \A l \in Level : Chain(l)' \subseteq Node
    BY NowPrime
  <2> QED
    BY <2>1 DEF Been, Grown
<1>2. ASSUME NEW l \in Level PROVE V[l] \cap stale'[t] = {}
  <2>1. Chain(l)' \cap retired' = {}
    BY NowPrime
  <2>2. stale'[t] \subseteq retired' /\ stale'[t] = stale[t]
    BY DEF Recorded
  <2> QED
    BY <1>1, <2>1, <2>2 DEF Been
<1>3. ASSUME NEW l \in Level, NEW y \in V[l] \ Chain(l)'
      PROVE  /\ deleting'[y][l] /\ next'[y][l] \in V[l] \cup {Tail} /\ next'[y][l] = next[y][l]
             /\ y \in W[l] /\ deleting[y][l] /\ y \in Node
  <2>1. y \in W[l] /\ y \in Node /\ W[l] \subseteq V[l]
    BY <1>1, <1>3 DEF Been
  <2>2. deleting[y][l]
    <3>1. CASE y \in Chain(l)
      BY <1>3, <3>1 DEF Onward
    <3>2. CASE y \notin Chain(l)
      BY <2>1, <3>2 DEF Been
    <3> QED
      BY <3>1, <3>2
  <2>3. next[y][l] \in W[l] \cup {Tail}
    BY <2>1, NextIn
  <2>4. deleting'[y][l] /\ next'[y][l] = next[y][l]
    BY <2>1, <2>2 DEF Onward
  <2> QED
    BY <2>1, <2>2, <2>3, <2>4
<1> QED
  BY <1>1, <1>2, <1>3

\* The nodes linked in the time of a call, after a step.
LEMMA BeenKept ==
  ASSUME ListIInv, ListIInv', Recorded, Recorded', Onward, NEW t \in Thread, Remembers(t),
         NEW op, NEW W, Been(t, op, W), NEW V, Grown(W, V)
  PROVE  /\ Been(t, op, V)'
         /\ \A l \in Level : W[l] \subseteq V[l] /\ Chain(l)' \subseteq V[l]
<1>0. stale'[t] = stale[t]
  BY DEF Remembers
<1>1. V \in [Level -> SUBSET Node] /\ \A l \in Level : V[l] = W[l] \cup Chain(l)'
  BY <1>0, BeenLinks
<1>2. \A l \in Level : V[l] \cap stale'[t] = {}
  BY <1>0, BeenLinks
<1>3. ASSUME NEW l \in Level, NEW y \in V[l] \ Chain(l)'
      PROVE  /\ deleting'[y][l] /\ next'[y][l] \in V[l] \cup {Tail} /\ next'[y][l] = next[y][l]
             /\ y \in W[l] /\ deleting[y][l] /\ y \in Node
  BY <1>0, <1>3, BeenLinks
<1>4. ASSUME Reader(op), NEW y \in V[0] \ Chain(0)'
      PROVE  SawOut(t, Key[y])' /\ SawGap(t, y, next[y][0])'
  <2>0. 0 \in Level
    BY NodeFacts
  <2>1. y \in W[0] /\ deleting[y][0] /\ y \in Node
    BY <1>3, <1>4, <2>0
  <2>2. SawOut(t, Key[y]) /\ SawGap(t, y, next[y][0])
    BY <1>4, <2>1, GapNow, NodeFacts
  <2>3. PICK z : z = next[y][0]
    OBVIOUS
  <2>4. SawGap(t, y, z)'
    BY <2>2, <2>3, SawKept
  <2>5. SawOut(t, Key[y])'
    BY <2>1, <2>2, SawKept, KeyFacts
  <2>6. z = next'[y][0]
    BY <1>3, <1>4, <2>0, <2>3
  <2> QED
    BY <2>4, <2>5, <2>6
<1> QED
  BY <1>1, <1>2, <1>3, <1>4, NodeFacts DEF Been

\* The same for a call that no key concerns but its own.
LEMMA BeenMeets ==
  ASSUME ListIInv, ListIInv', Recorded', Onward, NEW t \in Thread, stale'[t] = stale[t],
         NEW op, NEW W, Been(t, op, W), NEW V, Grown(W, V), NEW new, ~Reader(new)
  PROVE  /\ Been(t, new, V)'
         /\ \A l \in Level : W[l] \subseteq V[l] /\ Chain(l)' \subseteq V[l]
<1>1. V \in [Level -> SUBSET Node] /\ \A l \in Level : V[l] = W[l] \cup Chain(l)' /\ V[l] \cap stale'[t] = {}
  BY BeenLinks
<1>2. \A l \in Level : \A y \in V[l] \ Chain(l)' : deleting'[y][l] /\ next'[y][l] \in V[l] \cup {Tail}
  BY BeenLinks
<1> QED
  BY <1>1, <1>2 DEF Been

\* What a thread knows, it still knows after a step.
LEMMA KnowsKept ==
  ASSUME Recorded', Onward, NEW t \in Thread, Remembers(t), NEW me
  PROVE  /\ Knows(t, me) => Knows(t, me)'
         /\ Clean(t, me) => Clean(t, me)'
<1>0. 0 \in Level
  BY NodeFacts
<1>1. Clean(t, me) => Clean(t, me)'
  BY DEF Clean, Known, Remembers
<1>2. \A q \in KeySet :
         /\ TRUE \in seen[t][q] => TRUE \in seen'[t][q]
         /\ FALSE \in seen[t][q] => FALSE \in seen'[t][q]
         /\ seen[t][q] # {} => seen'[t][q] # {}
  BY DEF Remembers
<1>3. Asks(t, me) => Asks(t, me)'
  BY <1>2 DEF Asks
<1>4. Scanned(t, me) => Scanned(t, me)'
  BY <1>2 DEF Scanned, GotKeys
<1>5. me.n \in Node /\ (me.n \in Chain(0) \/ deleting[me.n][0]) => me.n \in Chain(0)' \/ deleting'[me.n][0]
  BY <1>0 DEF Onward
<1>6. Sights(t, me) => Sights(t, me)'
  BY <1>4, <1>5, SawKept DEF Sights, Bounds, Before, Is
<1>7. SeekAnswer(t, me) => SeekAnswer(t, me)'
  <2>1. \A q \in Passed(me) : q \in KeySet
    BY DEF Passed
  <2>2. me.n \in Node => Key[me.n] \in KeySet
    BY KeyFacts
  <2> QED
    BY <1>2, <2>1, <2>2 DEF SeekAnswer, Passed
<1>8. ScanAnswer(t, me) => ScanAnswer(t, me)'
  BY <1>2 DEF ScanAnswer, GotKeys
<1>9. Asks(t, me) /\ Answer(t, me) => Answer(t, me)'
  <2> SUFFICES ASSUME Asks(t, me), Answer(t, me), me.pc = "done" PROVE Answer(t, me)'
    BY DEF Answer
  <2>1. me.op \in SpliceOps \cup {"find"} => me.k \in KeySet
    BY DEF Asks
  <2>2. /\ me.op = "insert" /\ ~me.res => TRUE \in seen'[t][me.k] \/ me.fix # "fresh"
        /\ me.op \in {"erase", "erase_node"} /\ ~me.res => FALSE \in seen'[t][me.k]
    BY <1>2, <2>1 DEF Answer, SpliceOps
  <2>3. me.op = "find" => me.res \in seen'[t][me.k]
    <3>1. me.op = "find" => me.k \in KeySet /\ me.res \in seen[t][me.k]
      BY <2>1 DEF Answer
    <3> QED
      BY <3>1 DEF Remembers
  <2>4. me.op = "seek" => SeekAnswer(t, me)'
    BY <1>7 DEF Answer
  <2>5. me.op = "scan" => ScanAnswer(t, me)'
    BY <1>8 DEF Answer
  <2> QED
    BY <2>2, <2>3, <2>4, <2>5 DEF Answer
<1> QED
  BY <1>1, <1>3, <1>6, <1>9 DEF Knows

\* The levels a thread is about.
LEMMA LevelsOf ==
  ASSUME Types, NEW me, ThreadInv(me)
  PROVE  /\ me.pc \in Searching => me.lv \in Level /\ 0 .. me.lv \subseteq Level
         /\ \A l \in 0 .. me.sh - 1 : l \in Level /\ 0 .. l \subseteq Level
         /\ Building(me) => \A l \in 0 .. me.i - 1 : l \in Level
<1>1. LocalType(me) /\ Shape(me) /\ NodeInv(me)
  BY DEF ThreadInv
<1>2. me.pc \in Searching => me.lv \in Level /\ 0 .. me.lv \subseteq Level
  BY <1>1, NodeFacts DEF Shape, Level
<1>3. \A l \in 0 .. me.sh - 1 : l \in Level /\ 0 .. l \subseteq Level
  BY <1>1, NodeFacts DEF LocalType, Level
<1>4. ASSUME Building(me) PROVE \A l \in 0 .. me.i - 1 : l \in Level
  <2>1. me.n \in Node /\ me.i \in Nat /\ me.i < height[me.n]
    BY <1>1, <1>4 DEF NodeInv, LocalType, Owner
  <2>2. height[me.n] \in 0 .. MaxHeight
    BY <2>1 DEF Types
  <2> QED
    BY <2>1, <2>2, NodeFacts DEF Level
<1> QED
  BY <1>2, <1>3, <1>4

\* The nodes linked in the time of a call only become more.
LEMMA VisitGrows ==
  ASSUME Types, NEW me, ThreadInv(me), NEW W, NEW V, \A l \in Level : W[l] \subseteq V[l], Visit(me, W)
  PROVE  Visit(me, V)
<1>1. \A x : \A l \in Level : 0 .. l \subseteq Level /\ Inside(W, x, l) => Inside(V, x, l)
  BY DEF Inside
<1>2. me.pc \in Searching => me.lv \in Level /\ Inside(V, me.x, me.lv)
  BY <1>1, LevelsOf DEF Visit
<1>3. \A l \in 0 .. me.sh - 1 : Inside(V, me.prev[l], l)
  BY <1>1, LevelsOf DEF Visit
<1>4. Building(me) => \A l \in 0 .. me.i - 1 : me.n \in V[l]
  BY LevelsOf DEF Visit
<1>5. /\ me.pc \in Searching \ {"read"} => me.y \in V[me.lv]
      /\ me.pc \in {"unlink", "unref"} => me.z \in V[me.lv] \cup {Tail}
  BY <1>2 DEF Visit, Searching
<1> QED
  BY <1>2, <1>3, <1>4, <1>5 DEF Visit

\* A thread that does nothing keeps what it knows.
LEMMA TellKept ==
  ASSUME ListIInv, ListIInv', Recorded, Recorded', Onward, NEW t \in Thread, Remembers(t),
         NEW me, ThreadInv(me), \E W : Told(t, me, W)
  PROVE  \E W : Told(t, me, W)'
<1> PICK W : Told(t, me, W)
  OBVIOUS
<1> PICK V : Grown(W, V)
  BY DEF Grown
<1> PICK op : op = me.op
  OBVIOUS
<1>1. Been(t, op, W)
  BY DEF Told
<1>2. Been(t, op, V)' /\ \A l \in Level : W[l] \subseteq V[l]
  BY <1>1, BeenKept
<1>3. Visit(me, V)
  BY <1>2, VisitGrows, NowFacts DEF Told
<1>4. Clean(t, me)' /\ Knows(t, me)'
  BY KnowsKept DEF Told
<1> QED
  BY <1>2, <1>3, <1>4 DEF Told, Visit

\* A step in which the call of t goes on with the local variables r.
LEMMA TellOn ==
  ASSUME ListIInv, ListIInv', CallIInv, Recorded', Winners', Onward,
         NEW t \in Thread, NEW me, me = th[t], NEW r, Moves(t, r), r.op = me.op,
         \A u \in Thread : Remembers(u),
         \A W, V : Told(t, me, W) /\ (\A l \in Level : W[l] \subseteq V[l] /\ Chain(l)' \subseteq V[l]) =>
            Visit(r, V) /\ Clean(t, r)' /\ Knows(t, r)'
  PROVE  CallIInv'
<1>1. ASSUME NEW u \in Thread \ {t} PROVE \E W : Told(u, th[u], W)'
  <2> PICK o : o = th[u]
    OBVIOUS
  <2>1. ThreadInv(o) /\ \E W : Told(u, o, W)
    BY NowFacts DEF CallIInv
  <2>2. \E W : Told(u, o, W)'
    BY <2>1, TellKept DEF CallIInv
  <2>3. o = th'[u]
    BY DEF Moves
  <2> QED
    BY <2>2, <2>3
<1>2. \E W : Told(t, r, W)'
  <2> PICK W : Told(t, me, W)
    BY DEF CallIInv
  <2> PICK V : Grown(W, V)
    BY DEF Grown
  <2> PICK op : op = me.op
    OBVIOUS
  <2>1. Been(t, op, W)
    BY DEF Told
  <2>2. Been(t, op, V)' /\ \A l \in Level : W[l] \subseteq V[l] /\ Chain(l)' \subseteq V[l]
    BY <2>1, BeenKept DEF CallIInv
  <2>3. Visit(r, V) /\ Clean(t, r)' /\ Knows(t, r)'
    BY <2>2
  <2> QED
    BY <2>2, <2>3 DEF Told, Visit
<1>3. r = th'[t]
  BY DEF Moves
<1> QED
  BY <1>1, <1>2, <1>3 DEF CallIInv

\* The invariant of the list holds of the thread that has taken a step.
LEMMA ThreadAfter ==
  ASSUME ListIInv', NEW t \in Thread, NEW r, Moves(t, r)
  PROVE  ThreadInv(r)' /\ Types'
<1>1. Types' /\ ThreadInv(th[t])'
  BY NowPrime
<1>2. th'[t] = r
  BY DEF Moves
<1> QED
  BY <1>1, <1>2

\* VisitGrows, of all threads.
LEMMA VisitGrowsAll ==
  Types => \A m, A, B : ThreadInv(m) /\ (\A l \in Level : A[l] \subseteq B[l]) /\ Visit(m, A) => Visit(m, B)
BY VisitGrows

\* The same of the state after a step.
LEMMA VisitGrowsPrime ==
  ASSUME Types', NEW me, ThreadInv(me)', NEW W, NEW V, \A l \in Level : W[l] \subseteq V[l], Visit(me, W)
  PROVE  Visit(me, V)
<1>1. (Types => \A m, A, B : ThreadInv(m) /\ (\A l \in Level : A[l] \subseteq B[l]) /\ Visit(m, A) => Visit(m, B))'
  BY VisitGrowsAll, PTL
<1> QED
  BY <1>1

\* The history of a step that changes neither the set nor what a call has done.
LEMMA QuietHistory ==
  ASSUME Recorded, Winners, Onward, NEW t \in Thread, NEW r, Moves(t, r), Won(r) <=> Won(th[t]),
         UNCHANGED <<keys, stale>>
  PROVE  Recorded' /\ Winners' /\ \A u \in Thread : Remembers(u)
<1>1. present' = present /\ seen' = seen /\ won' = won /\ stale' = stale
  BY DEF keys
<1>2. Recorded'
  BY <1>1 DEF Recorded, Onward
<1>3. Winners'
  <2> SUFFICES ASSUME NEW u \in Thread PROVE u \in won <=> Won(th'[u])
    BY <1>1 DEF Winners
  <2>1. CASE u = t
    <3>1. th'[u] = r
      BY <2>1 DEF Moves
    <3> QED
      BY <2>1, <3>1 DEF Winners
  <2>2. CASE u # t
    <3>1. th'[u] = th[u]
      BY <2>2 DEF Moves
    <3> QED
      BY <3>1 DEF Winners
  <2> QED
    BY <2>1, <2>2
<1> QED
  BY <1>1, <1>2, <1>3 DEF Remembers

\* Such a step, in which the call goes on with what it knows.
LEMMA TellQuiet ==
  ASSUME ListIInv, ListIInv', CallIInv, Onward, NEW t \in Thread, NEW me, me = th[t],
         NEW r, Moves(t, r), r.op = me.op, Won(r) <=> Won(me), UNCHANGED <<keys, stale>>,
         \A W : Told(t, me, W) => Visit(r, W) /\ Clean(t, r) /\ Knows(t, r)
  PROVE  CallIInv'
<1>1. Recorded' /\ Winners' /\ \A u \in Thread : Remembers(u)
  BY QuietHistory DEF CallIInv
<1>2. ThreadInv(r)' /\ Types'
  BY ThreadAfter
<1>3. ASSUME NEW W, NEW V, Told(t, me, W), \A l \in Level : W[l] \subseteq V[l]
      PROVE  Visit(r, V) /\ Clean(t, r)' /\ Knows(t, r)'
  <2>1. Visit(r, W) /\ Clean(t, r) /\ Knows(t, r)
    BY <1>3
  <2>2. Visit(r, V)
    BY <1>2, <1>3, <2>1, VisitGrowsPrime
  <2>3. Clean(t, r)' /\ Knows(t, r)'
    BY <1>1, <2>1, KnowsKept
  <2> QED
    BY <2>2, <2>3
<1> QED
  BY <1>1, <1>3, TellOn

-------------------------------------------------------------------------------
\* the local variables r of the call of me, with the same splice
SameCall(me, r) ==
    /\ r.op = me.op /\ r.k = me.k /\ r.n = me.n /\ r.i = me.i /\ r.fix = me.fix /\ r.mode = me.mode
    /\ r.then = me.then /\ r.sh = me.sh /\ r.prev = me.prev /\ r.nxt = me.nxt

\* A search goes on, with what it knows.
LEMMA WalkTold ==
  ASSUME NEW t, NEW me, NEW W, Told(t, me, W), me.pc \in Searching,
         NEW r, SameCall(me, r), r.pc \in Searching,
         Inside(W, r.x, r.lv),
         r.pc # "read" => r.y \in W[r.lv],
         r.pc \in {"unlink", "unref"} => r.z \in W[r.lv] \cup {Tail},
         r.x \notin stale[t], r.y \notin stale[t], r.z \notin stale[t], r.after \notin stale[t],
         Reader(r.op) /\ r.lv = 0 /\ r.pc \in {"skip", "check"} => SawGap(t, r.x, r.y),
         Reader(r.op) /\ r.lv = 0 /\ r.pc \in {"unlink", "unref"} => SawGap(t, r.x, r.z),
         r.op = "seek" => SawIn(t, r.x),
         r.op \in {"seek", "find"} /\ r.mode # "last" => Bounds(r),
         r.op = "scan" => Scanned(t, r)
  PROVE  Visit(r, W) /\ Clean(t, r) /\ Knows(t, r)
<1>1. Visit(me, W) /\ Clean(t, me) /\ Asks(t, me) /\ Sights(t, me)
  BY DEF Told, Knows
<1>2. Visit(r, W)
  <2>1. Building(r) => Building(me)
    BY DEF Building, SameCall, Searching, Busy
  <2> QED
    BY <1>1, <2>1 DEF Visit, SameCall, Searching
<1>3. Clean(t, r)
  <2>1. r.pc # "idle"
    BY DEF Searching
  <2>2. Known(r) \subseteq Known(me) \cup {r.x, r.y, r.z, r.after}
    BY DEF Known, SameCall
  <2> QED
    BY <1>1, <2>1, <2>2 DEF Clean
<1>4. Asks(t, r) /\ Answer(t, r)
  BY <1>1 DEF Asks, Answer, SameCall, Searching
<1>5. Sights(t, r)
  BY <1>1 DEF Sights, SameCall, Searching
<1> QED
  BY <1>2, <1>3, <1>4, <1>5 DEF Knows

\* What a search knows that is about to go on from a node y ahead.
Sees(t, me, W, y) ==
    /\ y \in W[me.lv] \cup {Tail}
    /\ Reader(me.op) /\ me.lv = 0 => SawGap(t, me.x, y)

\* y is the end of the level, or a node that is not marked.
LooksAt(me, y) == y = Tail \/ (y \in Node /\ Reached(y, me.lv) /\ ~deleting[y][me.lv])

\* It goes ahead from x to y.
LEMMA AheadTold ==
  ASSUME ListIInv, Recorded, NEW t \in Thread, NEW me, me.lv \in Level, NEW W, Told(t, me, W),
         me.pc \in Searching, NEW y, NEW l, NEW r,
         SameCall(me, r), r.pc = "read", r.x = y, r.y = Tail, r.z = Tail, r.after = me.after, r.lv = l,
         \/ y = Head
         \/ LooksAt(me, y) /\ y # Tail /\ l \in {0, me.lv},
         me.op \in {"seek", "find"} /\ me.mode # "last" => Bounds(r),
         me.op = "scan" => Scanned(t, r)
  PROVE  Visit(r, W) /\ Clean(t, r) /\ Knows(t, r)
<1>1. Been(t, me.op, W) /\ Clean(t, me)
  BY DEF Told
<1>2. me.lv \in Nat
  BY DEF Level
<1>3. Head \notin stale[t] /\ Tail \notin stale[t]
  BY <1>1, BeenClean, NodeFacts
<1>4. me.after \notin stale[t]
  BY <1>1 DEF Clean, Known
<1>5. Inside(W, y, l) /\ y \notin stale[t] /\ SawIn(t, y)
  <2>1. CASE y = Head
    BY <1>3, <2>1, NodeFacts DEF Inside, SawIn
  <2>2. CASE LooksAt(me, y) /\ y # Tail /\ l \in {0, me.lv}
    <3>1. y \in Node /\ Reached(y, me.lv) /\ ~deleting[y][me.lv]
      BY <2>2 DEF LooksAt
    <3>2. Inside(W, y, me.lv) /\ y \notin stale[t] /\ SawIn(t, y)
      BY <1>1, <1>2, <3>1, FoundNow
    <3>3. Inside(W, y, l)
      BY <1>2, <2>2, <3>2 DEF Inside
    <3> QED
      BY <3>2, <3>3
  <2> QED
    BY <2>1, <2>2
<1>6. r.pc \in Searching /\ r.pc = "read"
  BY DEF Searching
<1> QED
  BY <1>3, <1>4, <1>5, <1>6, WalkTold DEF SameCall

\* It goes down a level, and y needs no comparison there.
LEMMA DownTold ==
  ASSUME ListIInv, Recorded, NEW t \in Thread, NEW me, me.lv \in Level, NEW W, Told(t, me, W),
         me.pc \in Searching, me.lv > 0, me.op # "scan", NEW y, Sees(t, me, W, y), NEW r,
         SameCall(me, r), r.pc = "read", r.x = me.x, r.y = Tail, r.z = Tail, r.after = y, r.lv = me.lv - 1,
         me.op \in {"seek", "find"} /\ me.mode # "last" => ~Before(y, me.k) /\ (me.mode # "lt" => ~Is(y, me.k))
  PROVE  Visit(r, W) /\ Clean(t, r) /\ Knows(t, r)
<1>1. Been(t, me.op, W) /\ Clean(t, me) /\ Visit(me, W) /\ Sights(t, me)
  BY DEF Told, Knows
<1>2. me.lv \in Nat
  BY DEF Level
<1>3. Tail \notin stale[t] /\ y \notin stale[t]
  BY <1>1, <1>2, BeenClean DEF Sees
<1>4. me.x \notin stale[t]
  BY <1>1 DEF Clean, Known
<1>5. Inside(W, me.x, r.lv)
  BY <1>1, <1>2 DEF Visit, Inside
<1>6. me.op = "seek" => SawIn(t, me.x)
  BY <1>1 DEF Sights
<1>7. me.op \in {"seek", "find"} /\ me.mode # "last" => Bounds(r)
  BY <1>1 DEF Sights, Bounds, SameCall
<1>8. r.pc \in Searching
  BY DEF Searching
<1> QED
  BY <1>3, <1>4, <1>5, <1>6, <1>7, <1>8, WalkTold DEF SameCall

\* r is the call of me at its end with the result b, and without a splice
EndAs(me, r, b) ==
    /\ r.pc = "done" /\ r.op = me.op /\ r.k = me.k /\ r.res = b /\ r.sh = 0 /\ r.then = "none"
    /\ r.prev = [l \in 0 .. MaxHeight |-> Head] /\ r.nxt = [l \in 0 .. MaxHeight |-> Tail]
    /\ r.x = Head /\ r.y = Tail /\ r.z = Tail /\ r.after = Tail

\* The local variables a call ends with.
LEMMA EndIs ==
  ASSUME NEW me, NEW b, NEW r, r = Finish(me, b)
  PROVE  DOMAIN r = Locals /\ EndAs(me, r, b) /\ r.n = Tail /\ r.fix = "fresh"
BY DEF Finish, Done, IdleThread, EndAs, Locals

\* the same with the keys g that a scan has come across
FinishGot(me, b, g) == [Finish(me, b) EXCEPT !.got = g]

\* and at the node n that a search with the mode m has found
FinishAt(me, b, m, n) == [Finish(me, b) EXCEPT !.mode = m, !.n = n]

\* A scan ends with the keys that it has come across.
LEMMA EndGot ==
  ASSUME NEW me, NEW b, NEW g, NEW r, r = FinishGot(me, b, g)
  PROVE  EndAs(me, r, b) /\ r.n = Tail /\ r.got = g
<1> PICK q : q = Finish(me, b)
  OBVIOUS
<1>1. DOMAIN q = Locals /\ EndAs(me, q, b) /\ q.n = Tail
  BY EndIs
<1>2. r = [q EXCEPT !.got = g]
  BY DEF FinishGot
<1> QED
  BY <1>1, <1>2 DEF EndAs, Locals

\* A search ends at a node.
LEMMA EndAt ==
  ASSUME NEW me, NEW b, NEW m, NEW n, NEW r, r = FinishAt(me, b, m, n)
  PROVE  EndAs(me, r, b) /\ r.n = n /\ r.mode = m
<1> PICK q : q = Finish(me, b)
  OBVIOUS
<1>1. DOMAIN q = Locals /\ EndAs(me, q, b)
  BY EndIs
<1>2. r = [q EXCEPT !.mode = m, !.n = n]
  BY DEF FinishAt
<1> QED
  BY <1>1, <1>2 DEF EndAs, Locals

\* A call ends that has the right answer.
LEMMA DoneTold ==
  ASSUME Recorded, NEW t \in Thread, NEW me, NEW W, Told(t, me, W),
         NEW b, NEW r, EndAs(me, r, b), r.n \notin stale[t], Answer(t, r)
  PROVE  Visit(r, W) /\ Clean(t, r) /\ Knows(t, r)
<1>1. Head \notin stale[t] /\ Tail \notin stale[t]
  BY NodeFacts DEF Recorded
<1>2. Visit(r, W)
  <2>1. 0 .. r.sh - 1 = {}
    BY DEF EndAs
  <2> QED
    BY <2>1 DEF Visit, EndAs, Searching, Building, Busy
<1>3. Clean(t, r)
  <2>1. \A l \in Level : r.prev[l] = Head /\ r.nxt[l] = Tail
    BY NodeFacts DEF EndAs, Level
  <2>2. Known(r) \subseteq {r.n, Head, Tail}
    BY <2>1 DEF Known, EndAs
  <2> QED
    BY <1>1, <2>2 DEF Clean, EndAs
<1>4. Asks(t, r)
  BY DEF Told, Knows, Asks, EndAs
<1>5. Sights(t, r)
  <2>1. r.nxt[0] = Tail
    BY NodeFacts DEF EndAs
  <2>2. SawIn(t, r.nxt[0])
    BY <2>1, NodeFacts DEF SawIn
  <2> QED
    BY <2>2 DEF Sights, EndAs, Searching
<1> QED
  BY <1>2, <1>3, <1>4, <1>5 DEF Knows

\* Whether a node has the key is true or false.
LEMMA IsIn ==
  ASSUME NEW n, NEW k, NEW S, IF Is(n, k) THEN TRUE \in S ELSE FALSE \in S
  PROVE  Is(n, k) \in S
BY DEF Is

\* the key q is not one that the seek of me can have missed when it ends at n
Aside(me, n, q) ==
    \/ (me.mode = "le" /\ ~(q <= me.k)) \/ (me.mode = "lt" /\ ~(q < me.k))
    \/ (me.mode = "ge" /\ ~(q >= me.k)) \/ (me.mode = "gt" /\ ~(q > me.k))
    \/ (n \in Node /\ ~(IF me.mode \in {"ge", "gt"} THEN q < Key[n] ELSE q > Key[n]))

\* n is on the side of the key that the seek of me is for
Fits(me, n) ==
    /\ me.mode = "le" => Key[n] <= me.k
    /\ me.mode = "lt" => Key[n] < me.k
    /\ me.mode = "ge" => Key[n] >= me.k
    /\ me.mode = "gt" => Key[n] > me.k

\* What a seek or a find ends with: the node that it stands on, or the one ahead.
LEMMA FoundTold ==
  ASSUME ListIInv, Recorded, NEW t \in Thread, NEW me, NEW W, Told(t, me, W), me.op \in {"seek", "find"},
         NEW n \in Some \cup {Head}, n \notin stale[t],
         me.op = "find" => IF Is(n, me.k) THEN TRUE \in seen[t][me.k] ELSE FALSE \in seen[t][me.k],
         me.op = "seek" =>
            /\ \A q \in KeySet : FALSE \in seen[t][q] \/ Aside(me, n, q)
            /\ n \in Node => TRUE \in seen[t][Key[n]] /\ Fits(me, n),
         NEW r, r = Found(me, n)
  PROVE  Visit(r, W) /\ Clean(t, r) /\ Knows(t, r)
<1> PICK b : b = IF me.op = "find" THEN Is(n, me.k) ELSE n \notin {Head, Tail}
  OBVIOUS
<1> PICK mode : mode = me.mode
  OBVIOUS
<1>0. r = FinishAt(me, b, mode, n)
  BY DEF Found, FinishAt
<1>1. EndAs(me, r, b) /\ r.n = n /\ r.mode = mode
  BY <1>0, EndAt
<1>2. n \in Node <=> n \notin {Head, Tail}
  BY NodeFacts DEF Some
<1>3. me.op = "seek" => SeekAnswer(t, r)
  <2> SUFFICES ASSUME me.op = "seek" PROVE SeekAnswer(t, r)
    OBVIOUS
  <2>1. r.k = me.k /\ r.n = n /\ r.mode = me.mode /\ (r.res <=> n \in Node)
    BY <1>1, <1>2 DEF EndAs
  <2>2. \A q \in Passed(r) : FALSE \in seen[t][q]
    BY <1>2, <2>1 DEF Passed, Aside
  <2> QED
    BY <2>1, <2>2 DEF SeekAnswer, Fits
<1>4. me.op = "find" => r.res \in seen[t][r.k]
  <2> SUFFICES ASSUME me.op = "find" PROVE r.res \in seen[t][r.k]
    OBVIOUS
  <2> PICK k : k = me.k
    OBVIOUS
  <2> PICK S : S = seen[t][k]
    OBVIOUS
  <2>1. IF Is(n, k) THEN TRUE \in S ELSE FALSE \in S
    OBVIOUS
  <2>2. Is(n, k) \in S
    BY <2>1, IsIn
  <2>3. r.res = b /\ r.k = k
    BY <1>1 DEF EndAs
  <2>4. b = Is(n, k)
    OBVIOUS
  <2> QED
    BY <2>2, <2>3, <2>4, Zenon
<1>5. Answer(t, r)
  BY <1>1, <1>3, <1>4 DEF Answer, EndAs
<1> QED
  BY <1>1, <1>5, DoneTold

\* The keys between the place of a search and the node ahead were absent.
LEMMA AbsentBetween ==
  ASSUME NEW t, NEW x, NEW y, SawGap(t, x, y), NEW q \in KeySet, seen[t][q] # {},
         x = Head \/ Key[x] < q, y = Tail \/ q < Key[y]
  PROVE  FALSE \in seen[t][q]
BY DEF SawGap, SawOut, Between

\* A seek or a find goes on when the walk has come to y.
LEMMA NearTold ==
  ASSUME ListIInv, Recorded, NEW t \in Thread, NEW me, ThreadInv(me), NEW W, Told(t, me, W),
         me.pc \in Searching, me.op \in {"seek", "find"}, me.mode # "last",
         NEW y, Sees(t, me, W, y), LooksAt(me, y),
         NEW r, r = CameNear(me, y)
  PROVE  Visit(r, W) /\ Clean(t, r) /\ Knows(t, r)
<1>1. LocalType(me) /\ Shape(me)
  BY DEF ThreadInv
<1>2. Been(t, me.op, W) /\ Asks(t, me) /\ Sights(t, me) /\ Clean(t, me)
  BY DEF Told, Knows
<1>3. /\ me.mode \in {"le", "lt", "ge", "gt"} /\ (me.op = "find" => me.mode = "ge") /\ me.k \in Int
      /\ DOMAIN me = Locals /\ me.x \in Linkable /\ me.lv \in Level
  <2>1. me.op = "find" => me.mode = "ge"
    BY <1>1 DEF Shape, Searching, Busy
  <2>2. me.mode # "none"
    BY <1>2, <2>1 DEF Sights
  <2> QED
    BY <1>1, <2>1, <2>2 DEF LocalType, Shape
<1>4. /\ me.x = Head \/ Key[me.x] < me.k \/ (me.mode = "gt" /\ Key[me.x] = me.k)
      /\ ~Before(me.after, me.k)
      /\ me.mode # "lt" => ~Is(me.after, me.k)
  BY <1>2 DEF Sights, Bounds
<1>5. y # Tail => y \in Node /\ Key[y] \in Int /\ Key[y] \in KeySet /\ SawIn(t, y) /\ y \notin stale[t]
  BY <1>2, <1>3, FoundNow, KeyFacts DEF LooksAt
<1>6. y \in Node <=> y # Tail
  BY <1>5, NodeFacts
<1>7. /\ Is(y, me.k) <=> y # Tail /\ Key[y] = me.k
      /\ Before(y, me.k) <=> y # Tail /\ Key[y] < me.k
  BY <1>5, NodeFacts DEF Is, Before
<1>8. ASSUME y # Tail, y # me.after, NEW l \in {0, me.lv},
             Key[y] < me.k \/ (me.mode = "gt" /\ Key[y] = me.k),
             NEW q, q = [Ahead(me, y) EXCEPT !.lv = l]
      PROVE  Visit(q, W) /\ Clean(t, q) /\ Knows(t, q)
  <2>1. SameCall(me, q) /\ q.pc = "read" /\ q.x = y /\ q.y = Tail /\ q.z = Tail /\ q.after = me.after /\ q.lv = l
    BY <1>3, <1>8 DEF Ahead, SameCall, Locals
  <2>2. Bounds(q)
    BY <1>4, <1>8, <2>1 DEF Bounds, SameCall
  <2> QED
    BY <1>3, <1>8, <2>1, <2>2, AheadTold
<1>9. CASE StillBefore(me, y)
  <2>1. y # Tail /\ y # me.after /\ Key[y] < me.k
    BY <1>7, <1>9 DEF StillBefore
  <2>2. r = Ahead(me, y)
    BY <1>9 DEF CameNear
  <2>3. Ahead(me, y) = [Ahead(me, y) EXCEPT !.lv = me.lv]
    BY <1>3 DEF Ahead, Locals
  <2> QED
    BY <1>8, <2>1, <2>2, <2>3
<1>10. CASE ~StillBefore(me, y) /\ y # me.after /\ Is(y, me.k) /\ me.mode \in {"le", "ge"}
  <2>1. r = Found(me, y)
    BY <1>10 DEF CameNear
  <2>2. y \in Node /\ Key[y] = me.k /\ y \in Some \cup {Head} /\ y \notin stale[t]
    BY <1>5, <1>7, <1>10 DEF Some
  <2>3. seen[t][me.k] # {} => TRUE \in seen[t][me.k]
    BY <1>5, <2>2, NodeFacts DEF SawIn
  <2>4. seen[t][me.k] # {}
    BY <1>2, <1>5, <2>2, NodeFacts DEF Asks
  <2>5. \A q \in KeySet : (me.mode = "le" /\ ~(q <= me.k)) \/ (me.mode = "ge" /\ ~(q >= me.k))
                  \/ ~(IF me.mode \in {"ge", "gt"} THEN q < Key[y] ELSE q > Key[y])
    BY <1>3, <1>10, <2>2, KeyFacts
  <2> QED
    <3>1. me.op = "find" => IF Is(y, me.k) THEN TRUE \in seen[t][me.k] ELSE FALSE \in seen[t][me.k]
      BY <1>10, <2>3, <2>4
    <3>2. ASSUME me.op = "seek", NEW q \in KeySet
          PROVE  FALSE \in seen[t][q] \/ Aside(me, y, q)
      BY <2>2, <2>5 DEF Aside
    <3>3. TRUE \in seen[t][Key[y]] /\ Fits(me, y)
      <4>1. me.mode \in {"le", "ge"} /\ Key[y] = me.k /\ me.k \in Int
        BY <1>3, <1>10, <2>2
      <4>2. Fits(me, y)
        BY <4>1 DEF Fits
      <4> QED
        BY <2>3, <2>4, <4>1, <4>2
    <3> QED
      BY <2>1, <2>2, <3>1, <3>2, <3>3, FoundTold
<1>11. CASE ~StillBefore(me, y) /\ y # me.after /\ Is(y, me.k) /\ me.mode = "gt"
  <2>1. r = [Ahead(me, y) EXCEPT !.lv = 0]
    BY <1>11 DEF CameNear
  <2>2. y # Tail /\ Key[y] = me.k
    BY <1>7, <1>11
  <2> QED
    BY <1>8, <1>11, <2>1, <2>2
<1>12. CASE ~StillBefore(me, y) /\ ~(y # me.after /\ Is(y, me.k) /\ me.mode # "lt")
  <2>1. ~Before(y, me.k) /\ (me.mode # "lt" => ~Is(y, me.k))
    BY <1>4, <1>12 DEF StillBefore
  <2>2. CASE me.lv > 0
    <3>1. r = Down(me, y)
      BY <1>12, <2>2 DEF CameNear
    <3>2. /\ SameCall(me, r) /\ r.pc = "read" /\ r.x = me.x /\ r.y = Tail /\ r.z = Tail /\ r.after = y
          /\ r.lv = me.lv - 1
      BY <1>3, <3>1 DEF Down, SameCall, Locals
    <3> QED
      BY <1>3, <2>1, <2>2, <3>2, DownTold
  <2>3. CASE me.lv = 0
    <3>1. SawGap(t, me.x, y)
      BY <2>3 DEF Sees, Reader
    <3>2. PICK n : n = IF me.mode \in {"le", "lt"} THEN me.x ELSE y
      OBVIOUS
    <3>3. r = Found(me, n)
      BY <1>3, <1>12, <2>3, <3>2 DEF CameNear
    <3>4. n \in Some \cup {Head} /\ n \notin stale[t]
      <4>1. me.x \notin stale[t] /\ Tail \notin stale[t]
        BY <1>2, <1>3, BeenClean DEF Clean, Known
      <4> QED
        BY <1>3, <1>5, <3>2, <4>1 DEF Some, Linkable
    <3>5. y # Tail => me.k <= Key[y] /\ (me.mode # "lt" => me.k < Key[y])
      BY <1>3, <1>5, <1>7, <2>1
    <3>6. me.op = "find" => ~Is(n, me.k) /\ FALSE \in seen[t][me.k]
      <4> SUFFICES ASSUME me.op = "find" PROVE ~Is(n, me.k) /\ FALSE \in seen[t][me.k]
        OBVIOUS
      <4>1. me.mode = "ge" /\ n = y /\ me.k \in KeySet /\ seen[t][me.k] # {}
        BY <1>2, <1>3, <3>2 DEF Asks
      <4>2. me.x = Head \/ Key[me.x] < me.k
        BY <1>4, <4>1
      <4> QED
        BY <2>1, <3>1, <3>5, <4>1, <4>2, AbsentBetween
    <3>7. ASSUME me.op = "seek"
          PROVE  /\ \A q \in KeySet : FALSE \in seen[t][q] \/ Aside(me, n, q)
                 /\ n \in Node => TRUE \in seen[t][Key[n]] /\ Fits(me, n)
      <4>1. me.x # Head => me.x \in Node /\ Key[me.x] \in Int /\ Key[me.x] \in KeySet
        BY <1>3, KeyFacts DEF Linkable
      <4>2. \A q \in KeySet : q \in Int /\ seen[t][q] # {}
        BY <1>2, <3>7, KeyFacts DEF Asks
      <4>3. CASE me.mode \in {"le", "lt"}
        <5>1. n = me.x /\ SawIn(t, me.x)
          BY <1>2, <3>2, <3>7, <4>3 DEF Sights
        <5>2. n # Head => n \in Node /\ TRUE \in seen[t][Key[n]] /\ Key[n] < me.k
          BY <1>3, <1>4, <4>1, <4>2, <4>3, <5>1 DEF SawIn
        <5>3. ASSUME NEW q \in KeySet, n = Head \/ q > Key[n], IF me.mode = "le" THEN q <= me.k ELSE q < me.k
              PROVE  FALSE \in seen[t][q]
          <6>1. me.x = Head \/ Key[me.x] < q
            BY <4>1, <4>2, <5>1, <5>3
          <6>2. y = Tail \/ q < Key[y]
            BY <1>3, <1>5, <3>5, <4>2, <4>3, <5>3
          <6> QED
            BY <3>1, <4>2, <6>1, <6>2, AbsentBetween
        <5>4. n \in Node => n # Head
          BY NodeFacts
        <5>5. ASSUME NEW q \in KeySet PROVE FALSE \in seen[t][q] \/ Aside(me, n, q)
          BY <4>2, <4>3, <5>2, <5>3, <5>4 DEF Aside
        <5>6. ASSUME n \in Node PROVE TRUE \in seen[t][Key[n]] /\ Fits(me, n)
          <6>1. TRUE \in seen[t][Key[n]] /\ Key[n] < me.k /\ Key[n] \in Int /\ me.k \in Int
            BY <1>3, <4>1, <5>1, <5>2, <5>4, <5>6
          <6>2. Fits(me, n)
            BY <4>3, <6>1 DEF Fits
          <6> QED
            BY <6>1, <6>2
        <5> QED
          BY <5>5, <5>6
      <4>4. CASE me.mode \in {"ge", "gt"}
        <5>1. n = y
          BY <3>2, <4>4
        <5>2. n \in Node => TRUE \in seen[t][Key[n]] /\ me.k < Key[n]
          BY <1>3, <1>5, <1>6, <3>5, <4>2, <4>4, <5>1 DEF SawIn
        <5>3. ASSUME NEW q \in KeySet, y = Tail \/ q < Key[y], IF me.mode = "ge" THEN q >= me.k ELSE q > me.k
              PROVE  FALSE \in seen[t][q]
          <6>1. me.x = Head \/ Key[me.x] < q
            BY <1>3, <1>4, <4>1, <4>2, <4>4, <5>3
          <6> QED
            BY <3>1, <4>2, <5>3, <6>1, AbsentBetween
        <5>4. ASSUME NEW q \in KeySet PROVE FALSE \in seen[t][q] \/ Aside(me, n, q)
          BY <1>6, <4>2, <4>4, <5>1, <5>3 DEF Aside
        <5>5. ASSUME n \in Node PROVE TRUE \in seen[t][Key[n]] /\ Fits(me, n)
          <6>1. TRUE \in seen[t][Key[n]] /\ me.k < Key[n] /\ Key[n] \in Int /\ me.k \in Int
            BY <1>3, <1>5, <1>6, <5>1, <5>2, <5>5
          <6>2. Fits(me, n)
            BY <4>4, <6>1 DEF Fits
          <6> QED
            BY <6>1, <6>2
        <5> QED
          BY <5>4, <5>5
      <4> QED
        BY <1>3, <4>3, <4>4
    <3> QED
      BY <3>3, <3>4, <3>6, <3>7, FoundTold
  <2> QED
    BY <1>3, <2>2, <2>3 DEF Level
<1> QED
  BY <1>3, <1>9, <1>10, <1>11, <1>12

\* A search for the last node goes on when the walk has come to y.
LEMMA LastTold ==
  ASSUME ListIInv, Recorded, NEW t \in Thread, NEW me, ThreadInv(me), NEW W, Told(t, me, W),
         me.pc \in Searching, me.op = "seek", me.mode = "last",
         NEW y, Sees(t, me, W, y), LooksAt(me, y),
         NEW r, r = CameLast(me, y)
  PROVE  Visit(r, W) /\ Clean(t, r) /\ Knows(t, r)
<1>1. LocalType(me) /\ DOMAIN me = Locals /\ me.x \in Linkable /\ me.lv \in Level
  BY LevelsOf, NowFacts DEF ThreadInv, LocalType
<1>2. Been(t, me.op, W) /\ Asks(t, me) /\ Sights(t, me) /\ Clean(t, me)
  BY DEF Told, Knows
<1>3. CASE y # Tail
  <2>1. r = Ahead(me, y)
    BY <1>3 DEF CameLast
  <2>2. /\ SameCall(me, r) /\ r.pc = "read" /\ r.x = y /\ r.y = Tail /\ r.z = Tail /\ r.after = me.after
        /\ r.lv = me.lv
    BY <1>1, <2>1 DEF Ahead, SameCall, Locals
  <2> QED
    BY <1>1, <1>3, <2>2, AheadTold
<1>4. CASE y = Tail /\ me.lv > 0
  <2>1. r = Down(me, y)
    BY <1>4 DEF CameLast
  <2>2. /\ SameCall(me, r) /\ r.pc = "read" /\ r.x = me.x /\ r.y = Tail /\ r.z = Tail /\ r.after = y
        /\ r.lv = me.lv - 1
    BY <1>1, <2>1 DEF Down, SameCall, Locals
  <2> QED
    BY <1>1, <1>4, <2>2, DownTold
<1>5. CASE y = Tail /\ me.lv = 0
  <2> PICK n : n = me.x
    OBVIOUS
  <2>1. r = Found(me, n)
    BY <1>5 DEF CameLast
  <2>2. SawGap(t, n, Tail)
    BY <1>5 DEF Sees, Reader
  <2>3. n \in Some \cup {Head} /\ n \notin stale[t]
    BY <1>1, <1>2 DEF Clean, Known, Some, Linkable
  <2>4. \A q \in KeySet : q \in Int /\ seen[t][q] # {}
    BY <1>2, KeyFacts DEF Asks
  <2>5. n # Head => n \in Node /\ Key[n] \in Int /\ TRUE \in seen[t][Key[n]]
    BY <1>1, <1>2, <2>4, KeyFacts DEF Sights, SawIn, Linkable
  <2>6. n \in Node <=> n # Head
    BY <2>5, NodeFacts
  <2>7. ASSUME NEW q \in KeySet, n = Head \/ q > Key[n] PROVE FALSE \in seen[t][q]
    BY <2>2, <2>4, <2>5, <2>7, AbsentBetween
  <2> QED
    <3>1. me.op # "find" /\ me.mode = "last"
      OBVIOUS
    <3>2. ASSUME NEW q \in KeySet PROVE FALSE \in seen[t][q] \/ Aside(me, n, q)
      BY <2>6, <2>7, <3>1 DEF Aside
    <3>3. n \in Node => TRUE \in seen[t][Key[n]] /\ Fits(me, n)
      BY <2>5, <2>6, <3>1 DEF Fits
    <3> QED
      BY <2>1, <2>3, <3>1, <3>2, <3>3, FoundTold
<1> QED
  BY <1>1, <1>3, <1>4, <1>5 DEF Level

\* Refreshing goes on.
LEMMA RefreshTold ==
  ASSUME ListIInv, Recorded, NEW t \in Thread, NEW me, ThreadInv(me), NEW W, Told(t, me, W),
         me.pc \in Searching, me.op = "refresh", NEW y, LooksAt(me, y),
         NEW r, r = CameRefresh(me, y)
  PROVE  Visit(r, W) /\ Clean(t, r) /\ Knows(t, r)
<1>1. LocalType(me) /\ DOMAIN me = Locals /\ me.lv \in Level
  BY LevelsOf, NowFacts DEF ThreadInv, LocalType
<1>2. ASSUME NEW v, NEW l, v = Head \/ (LooksAt(me, v) /\ v # Tail /\ l = me.lv),
             NEW q, q = [Ahead(me, v) EXCEPT !.lv = l]
      PROVE  Visit(q, W) /\ Clean(t, q) /\ Knows(t, q)
  <2>1. SameCall(me, q) /\ q.pc = "read" /\ q.x = v /\ q.y = Tail /\ q.z = Tail /\ q.after = me.after /\ q.lv = l
    BY <1>1, <1>2 DEF Ahead, SameCall, Locals
  <2> QED
    BY <1>1, <1>2, <2>1, AheadTold
<1>3. CASE y # Tail
  <2>1. r = Ahead(me, y)
    BY <1>3 DEF CameRefresh
  <2>2. Ahead(me, y) = [Ahead(me, y) EXCEPT !.lv = me.lv]
    BY <1>1 DEF Ahead, Locals
  <2> QED
    BY <1>2, <1>3, <2>1, <2>2
<1>4. CASE y = Tail /\ me.lv < me.i - 1
  <2>1. r = [Ahead(me, Head) EXCEPT !.lv = @ + 1]
    BY <1>4 DEF CameRefresh
  <2>2. r = [Ahead(me, Head) EXCEPT !.lv = Ahead(me, Head).lv + 1]
    BY <2>1
  <2> QED
    BY <1>2, <2>2
<1>5. CASE y = Tail /\ ~(me.lv < me.i - 1)
  <2> PICK b : b = TRUE
    OBVIOUS
  <2>1. r = Finish(me, b)
    BY <1>5 DEF CameRefresh
  <2>2. EndAs(me, r, b) /\ r.n = Tail
    BY <2>1, EndIs
  <2>3. r.n \notin stale[t] /\ Answer(t, r)
    BY <2>2, NodeFacts DEF Recorded, Answer, EndAs
  <2> QED
    BY <2>2, <2>3, DoneTold
<1> QED
  BY <1>3, <1>4, <1>5

\* h is g with k at its end
Appends(g, k, h) ==
    LET all == Cardinality(DOMAIN g) + 1 IN h = [j \in 1 .. all |-> IF j = all THEN k ELSE g[j]]

KeysOf(g) == {g[j] : j \in DOMAIN g}

\* The keys a scan has come across, after one more.
LEMMA OneMore ==
  ASSUME NEW g, NEW m \in Nat, DOMAIN g = 1 .. m, NEW k, NEW h, Appends(g, k, h)
  PROVE  /\ DOMAIN h = 1 .. m + 1 /\ h[m + 1] = k /\ \A j \in 1 .. m : h[j] = g[j]
         /\ KeysOf(h) = KeysOf(g) \cup {k}
<1>1. Cardinality(1 .. m) = m
  BY FS_Interval
<1>2. h = [j \in 1 .. m + 1 |-> IF j = m + 1 THEN k ELSE g[j]]
  BY <1>1 DEF Appends
<1>3. DOMAIN h = 1 .. m + 1 /\ h[m + 1] = k /\ \A j \in 1 .. m : h[j] = g[j]
  BY <1>2
<1>4. 1 .. m + 1 = (1 .. m) \cup {m + 1}
  OBVIOUS
<1> QED
  BY <1>3, <1>4 DEF KeysOf

\* A scan goes on when it has come to y.
LEMMA ScanTold ==
  ASSUME ListIInv, Recorded, NEW t \in Thread, NEW me, ThreadInv(me), NEW W, Told(t, me, W),
         me.pc \in Searching, me.op = "scan", NEW y, Sees(t, me, W, y), LooksAt(me, y), Follows(me.x, y),
         NEW r, r = CameScan(me, y)
  PROVE  Visit(r, W) /\ Clean(t, r) /\ Knows(t, r)
<1>1. LocalType(me) /\ DOMAIN me = Locals /\ me.x \in Linkable /\ me.lv = 0 /\ me.lv \in Level
  BY LevelsOf, NowFacts DEF ThreadInv, LocalType, Shape, Searching, Busy
<1>2. Been(t, me.op, W) /\ Asks(t, me) /\ Sights(t, me) /\ Clean(t, me)
  BY DEF Told, Knows
<1>3. Scanned(t, me)
  BY <1>2 DEF Sights
<1>4. \A q \in KeySet : q \in Int /\ seen[t][q] # {}
  BY <1>2, KeyFacts DEF Asks
<1>5. me.x # Head => me.x \in Node /\ Key[me.x] \in Int
  BY <1>1, KeyFacts DEF Linkable
<1>6. SawGap(t, me.x, y)
  BY <1>1 DEF Sees, Reader
<1>7. CASE y # Tail
  <2>1. y \in Node /\ Key[y] \in Int /\ Key[y] \in KeySet /\ SawIn(t, y) /\ (me.x = Head \/ Key[me.x] < Key[y])
    BY <1>1, <1>2, <1>7, FoundNow, KeyFacts DEF LooksAt, Follows
  <2> PICK k : k = Key[y]
    OBVIOUS
  <2> PICK m \in Nat : DOMAIN me.got = 1 .. m
    BY <1>3 DEF Scanned
  <2> PICK g : g = me.got
    OBVIOUS
  <2> PICK h : Appends(g, k, h)
    BY DEF Appends
  <2>0. DOMAIN g = 1 .. m
    OBVIOUS
  <2>2. /\ DOMAIN h = 1 .. m + 1 /\ h[m + 1] = k /\ \A j \in 1 .. m : h[j] = g[j]
        /\ KeysOf(h) = KeysOf(g) \cup {k}
    BY <2>0, OneMore
  <2>3. r = [Ahead(me, y) EXCEPT !.got = h]
    <3>1. Ahead(me, y).got = g
      BY <1>1 DEF Ahead, Locals
    <3> QED
      BY <1>7, <3>1 DEF CameScan, Appends
  <2>4. /\ SameCall(me, r) /\ r.pc = "read" /\ r.x = y /\ r.y = Tail /\ r.z = Tail /\ r.after = me.after
        /\ r.lv = me.lv /\ r.got = h
    BY <1>1, <2>3 DEF Ahead, SameCall, Locals
  <2>5. GotKeys(r) = GotKeys(me) \cup {k}
    <3>1. GotKeys(r) = KeysOf(h)
      BY <2>4, Zenon DEF GotKeys, KeysOf
    <3>2. GotKeys(me) = KeysOf(g)
      BY Zenon DEF GotKeys, KeysOf
    <3> QED
      BY <2>2, <3>1, <3>2
  <2>6. \A q \in GotKeys(me) : q \in KeySet /\ me.x # Head /\ q <= Key[me.x] /\ q < k
    BY <1>3, <1>4, <1>5, <2>1 DEF Scanned
  <2>7. ASSUME NEW i \in DOMAIN h, NEW j \in DOMAIN h, i < j PROVE h[i] < h[j]
    <3>1. i \in 1 .. m /\ h[i] = g[i] /\ g[i] \in GotKeys(me)
      BY <2>2, <2>7 DEF GotKeys
    <3>2. CASE j = m + 1
      BY <2>2, <2>6, <3>1, <3>2
    <3>3. CASE j \in 1 .. m
      BY <1>3, <2>2, <2>7, <3>1, <3>3 DEF Scanned
    <3> QED
      BY <2>2, <3>2, <3>3
  <2>8. \A q \in GotKeys(r) : q \in KeySet /\ q <= k
    BY <1>4, <2>1, <2>5, <2>6
  <2>9. ASSUME NEW q \in KeySet, q <= k
        PROVE  IF q \in GotKeys(r) THEN TRUE \in seen[t][q] ELSE FALSE \in seen[t][q]
    <3>1. CASE q = k
      BY <1>4, <2>1, <2>5, <3>1 DEF SawIn
    <3>2. CASE me.x # Head /\ q <= Key[me.x]
      <4>1. q # k
        BY <1>4, <1>5, <2>1, <3>2
      <4> QED
        BY <1>3, <2>5, <3>2, <4>1 DEF Scanned
    <3>3. CASE (me.x = Head \/ Key[me.x] < q) /\ q < k
      <4>1. q \notin GotKeys(r)
        BY <1>4, <1>5, <2>1, <2>5, <2>6, <3>3
      <4>2. FALSE \in seen[t][q]
        BY <1>4, <1>6, <3>3, AbsentBetween
      <4> QED
        BY <4>1, <4>2
    <3>4. q \in Int /\ k \in Int
      BY <1>4, <2>1
    <3>5. q = k \/ q < k
      BY <2>9, <3>4
    <3>6. me.x = Head \/ q <= Key[me.x] \/ Key[me.x] < q
      BY <1>5, <3>4
    <3> QED
      BY <3>1, <3>2, <3>3, <3>5, <3>6
  <2>10. Scanned(t, r)
    <3>1. m + 1 \in Nat /\ y # Head
      BY <2>1, NodeFacts
    <3> QED
      BY <2>2, <2>4, <2>7, <2>8, <2>9, <3>1 DEF Scanned
  <2> QED
    BY <1>1, <1>7, <2>4, <2>10, AheadTold
<1>8. CASE y = Tail
  <2>b. PICK b : b = TRUE
    OBVIOUS
  <2> PICK g : g = me.got
    OBVIOUS
  <2>1. r = FinishGot(me, b, g)
    BY <1>8, <2>b DEF CameScan, FinishGot
  <2>2. EndAs(me, r, b) /\ r.n = Tail /\ r.got = g
    BY <2>1, EndGot
  <2>3. GotKeys(r) = GotKeys(me)
    BY <2>2, Zenon DEF GotKeys
  <2>4. ASSUME NEW q \in KeySet
        PROVE  IF q \in GotKeys(me) THEN TRUE \in seen[t][q] ELSE FALSE \in seen[t][q]
    <3>1. CASE me.x # Head /\ q <= Key[me.x]
      BY <1>3, <3>1 DEF Scanned
    <3>2. CASE me.x = Head \/ Key[me.x] < q
      <4>1. q \notin GotKeys(me)
        BY <1>3, <1>4, <1>5, <3>2 DEF Scanned
      <4>2. FALSE \in seen[t][q]
        BY <1>4, <1>6, <1>8, <3>2, AbsentBetween
      <4> QED
        BY <4>1, <4>2
    <3>3. me.x = Head \/ q <= Key[me.x] \/ Key[me.x] < q
      BY <1>4, <1>5
    <3> QED
      BY <3>1, <3>2, <3>3
  <2>5. ScanAnswer(t, r)
    BY <1>3, <2>2, <2>3, <2>4 DEF ScanAnswer, Scanned
  <2>6. r.n \notin stale[t] /\ Answer(t, r)
    BY <2>2, <2>5, NodeFacts DEF Recorded, Answer, EndAs
  <2> QED
    BY <2>2, <2>6, DoneTold
<1> QED
  BY <1>7, <1>8

\* An insert or an erase goes on with its splice.
LEMMA SpliceTold ==
  ASSUME NEW t, NEW me, NEW W, Told(t, me, W), me.op \in SpliceOps,
         NEW r, r.op = me.op, r.k = me.k, r.n = me.n, r.fix = me.fix,
         r.prev = me.prev, r.nxt = me.nxt, r.sh = me.sh,
         r.x \notin stale[t], r.y \notin stale[t], r.z \notin stale[t], r.after \notin stale[t],
         r.pc \in (Busy \ (Searching \cup {"mark"})) \cup {"read"},
         r.pc = "read" => Inside(W, r.x, r.lv) /\ r.then # "pick",
         Building(r) => Building(me) /\ r.i = me.i
  PROVE  Visit(r, W) /\ Clean(t, r) /\ Knows(t, r)
<1>1. Visit(me, W) /\ Clean(t, me) /\ Asks(t, me) /\ Sights(t, me)
  BY DEF Told, Knows
<1>2. r.pc # "idle" /\ r.pc # "done" /\ r.pc # "mark" /\ (r.pc \in Searching => r.pc = "read")
  BY DEF Busy, Searching
<1>3. Visit(r, W)
  BY <1>1, <1>2 DEF Visit, Searching
<1>4. Clean(t, r)
  <2>1. Known(r) \subseteq Known(me) \cup {r.x, r.y, r.z, r.after}
    BY DEF Known
  <2> QED
    BY <1>1, <1>2, <2>1 DEF Clean
<1>5. Asks(t, r) /\ Answer(t, r)
  BY <1>1, <1>2 DEF Asks, Answer
<1>6. Sights(t, r)
  BY <1>1, <1>2 DEF Sights, SpliceOps, Searching
<1> QED
  BY <1>3, <1>4, <1>5, <1>6 DEF Knows

\* A level of the splice is found between x and y.
LEMMA SplicedTold ==
  ASSUME ListIInv, Recorded, NEW t \in Thread, NEW me, ThreadInv(me), NEW W, Told(t, me, W),
         me.pc \in Searching, me.op \in SpliceOps,
         NEW y, Sees(t, me, W, y), LooksAt(me, y),
         NEW r, r = [me EXCEPT !.prev[me.lv] = me.x, !.nxt[me.lv] = y]
  PROVE  Told(t, r, W)
<1>1. LocalType(me) /\ DOMAIN me = Locals /\ me.lv \in Level /\ me.lv \in 0 .. MaxHeight
  <2>1. LocalType(me)
    BY DEF ThreadInv
  <2>2. me.lv \in Level
    BY <2>1, LevelsOf, NowFacts DEF ThreadInv
  <2> QED
    BY <2>1, <2>2, NodeFacts DEF LocalType, Level
<1>2. Been(t, me.op, W) /\ Visit(me, W) /\ Clean(t, me) /\ Asks(t, me) /\ Sights(t, me)
  BY DEF Told, Knows
<1>3. /\ \A f \in Locals \ {"prev", "nxt"} : r[f] = me[f]
      /\ r.prev = [me.prev EXCEPT ![me.lv] = me.x] /\ r.nxt = [me.nxt EXCEPT ![me.lv] = y]
  BY <1>1 DEF Locals
<1>4. /\ r.pc = me.pc /\ r.op = me.op /\ r.k = me.k /\ r.n = me.n /\ r.i = me.i /\ r.sh = me.sh
      /\ r.lv = me.lv /\ r.x = me.x /\ r.y = me.y /\ r.z = me.z /\ r.after = me.after
      /\ r.then = me.then /\ r.mode = me.mode /\ r.fix = me.fix /\ r.got = me.got
  BY <1>3 DEF Locals
<1>5. /\ \A l \in 0 .. MaxHeight : r.prev[l] = IF l = me.lv THEN me.x ELSE me.prev[l]
      /\ \A l \in 0 .. MaxHeight : r.nxt[l] = IF l = me.lv THEN y ELSE me.nxt[l]
  <2> PICK f, g, l0 : f = me.prev /\ g = me.nxt /\ l0 = me.lv
    OBVIOUS
  <2>1. f \in [0 .. MaxHeight -> Linkable] /\ g \in [0 .. MaxHeight -> Some] /\ l0 \in 0 .. MaxHeight
    BY <1>1 DEF LocalType
  <2>2. r.prev = [f EXCEPT ![l0] = me.x] /\ r.nxt = [g EXCEPT ![l0] = y]
    BY <1>3
  <2>3. \A l \in 0 .. MaxHeight : r.prev[l] = IF l = l0 THEN me.x ELSE f[l]
    <3> PICK a, x : a = r.prev /\ x = me.x
      OBVIOUS
    <3>1. a = [f EXCEPT ![l0] = x]
      BY <2>2
    <3>2. ASSUME NEW l \in 0 .. MaxHeight PROVE a[l] = IF l = l0 THEN x ELSE f[l]
      BY <2>1, <3>1
    <3> QED
      BY <3>2
  <2>4. \A l \in 0 .. MaxHeight : r.nxt[l] = IF l = l0 THEN y ELSE g[l]
    BY <2>1, <2>2
  <2> QED
    BY <2>3, <2>4
<1>6. y \notin stale[t] /\ me.x \notin stale[t]
  BY <1>1, <1>2, BeenClean DEF Sees, Clean, Known
<1>7. Visit(r, W)
  <2>1. Inside(W, me.x, me.lv)
    BY <1>2 DEF Visit
  <2>2. \A l \in 0 .. r.sh - 1 : Inside(W, r.prev[l], l)
    <3>1. \A l \in 0 .. me.sh - 1 : l \in 0 .. MaxHeight
      BY <1>1, NodeFacts DEF LocalType
    <3> QED
      BY <1>2, <1>4, <1>5, <2>1, <3>1 DEF Visit
  <2>3. Building(r) <=> Building(me)
    BY <1>4 DEF Building
  <2> QED
    BY <1>2, <1>4, <2>2, <2>3 DEF Visit
<1>8. Clean(t, r)
  <2>1. \A l \in Level : r.prev[l] \in {me.prev[l], me.x} /\ r.nxt[l] \in {me.nxt[l], y}
    BY <1>5, NodeFacts DEF Level
  <2>2. Known(r) \subseteq Known(me) \cup {y}
    BY <1>4, <2>1 DEF Known
  <2>3. r.pc # "idle"
    BY <1>4 DEF Searching
  <2> QED
    BY <1>2, <1>6, <2>2, <2>3 DEF Clean
<1>9. SawIn(t, me.nxt[0]) => SawIn(t, r.nxt[0])
  <2>1. CASE me.lv = 0 /\ y # Tail
    <3>1. SawIn(t, y)
      BY <1>1, <1>2, <2>1, FoundNow DEF LooksAt
    <3> QED
      BY <1>1, <1>5, <2>1, <3>1
  <2>2. CASE me.lv = 0 /\ y = Tail
    <3>1. SawIn(t, y)
      BY <2>2, NodeFacts DEF SawIn
    <3> QED
      BY <1>1, <1>5, <2>2, <3>1
  <2>3. CASE me.lv # 0
    <3>1. r.nxt[0] = me.nxt[0]
      BY <1>5, <2>3, NodeFacts
    <3> QED
      BY <3>1
  <2> QED
    BY <2>1, <2>2, <2>3
<1>10. Sights(t, r)
  <2>1. ~(me.op \in {"seek", "find"}) /\ me.op # "scan" /\ me.op # "seek"
    BY DEF SpliceOps
  <2> QED
    BY <1>2, <1>4, <1>9, <2>1 DEF Sights
<1>11. Asks(t, r) /\ Answer(t, r)
  BY <1>2, <1>4 DEF Asks, Answer, Searching
<1>12. Been(t, r.op, W)
  BY <1>2, <1>4
<1> QED
  BY <1>7, <1>8, <1>10, <1>11, <1>12 DEF Told, Knows

\* A search for an erase has found the node that it is about, or none.
LEMMA PickTold ==
  ASSUME ListIInv, Recorded, NEW t \in Thread, NEW me, ThreadInv(me), NEW W, Told(t, me, W),
         me.pc \in Searching, me.op \in {"erase", "erase_node"}, me.then = "pick", me.lv = 0,
         NEW y, Sees(t, me, W, y), LooksAt(me, y), ~StillBefore(me, y),
         NEW found, Told(t, found, W), found.sh = me.sh,
         NEW end, DOMAIN end = Locals, end.op = me.op, end.k = me.k, end.n = me.n, end.then = "none",
         end.x = Head, end.y = Tail, end.z = Tail, end.after = Tail,
         end.prev = found.prev, end.nxt = found.nxt, end.sh = found.sh,
         NEW r, r = PickNode(end, y)
  PROVE  Visit(r, W) /\ Clean(t, r) /\ Knows(t, r)
<1>1. LocalType(me) /\ BracketInv(me) /\ NodeInv(me) /\ me.lv \in Level
  BY LevelsOf, NowFacts DEF ThreadInv
<1>2. Been(t, me.op, W) /\ Asks(t, me) /\ Sights(t, me) /\ Clean(t, me)
  BY DEF Told, Knows
<1>3. y # Tail => /\ y \in Node /\ Key[y] \in Int /\ Key[y] \in KeySet /\ SawIn(t, y) /\ y \notin stale[t]
                  /\ y \in Chain(0)
  BY <1>1, <1>2, FoundNow, KeyFacts DEF LooksAt
<1>4. me.k \in Int /\ (me.x = Head \/ Key[me.x] < me.k) /\ ~Before(me.after, me.k)
  BY <1>1 DEF LocalType, BracketInv, KeyOK, SpliceOps
<1>5. me.k \in KeySet /\ seen[t][me.k] # {}
  BY <1>2 DEF Asks, SpliceOps
<1>6. /\ Is(y, me.k) <=> y # Tail /\ Key[y] = me.k
      /\ Before(y, me.k) <=> y # Tail /\ Key[y] < me.k
  BY <1>3, NodeFacts DEF Is, Before
<1>7. ~Before(y, me.k)
  BY <1>4 DEF StillBefore
<1>8. CASE Is(y, me.k) /\ (me.op = "erase_node" => y = me.n)
  <2>1. r = [end EXCEPT !.pc = "mark", !.n = y, !.i = MaxHeight - 1]
    BY <1>8 DEF PickNode
  <2>2. /\ r.pc = "mark" /\ r.n = y /\ r.op = me.op /\ r.k = me.k
        /\ r.x = Head /\ r.y = Tail /\ r.z = Tail /\ r.after = Tail
        /\ r.prev = found.prev /\ r.nxt = found.nxt /\ r.sh = found.sh
    BY <2>1 DEF Locals
  <2>3. y # Tail
    BY <1>6, <1>8
  <2>4. Visit(found, W) /\ Clean(t, found)
    BY DEF Told
  <2>5. Visit(r, W)
    BY <2>2, <2>4 DEF Visit, Searching, Building
  <2>6. Clean(t, r)
    <3>1. Known(r) \subseteq Known(found) \cup {y, Head, Tail}
      BY <2>2 DEF Known
    <3>2. Head \notin stale[t] /\ Tail \notin stale[t]
      BY NodeFacts DEF Recorded
    <3> QED
      BY <1>3, <2>2, <2>3, <2>4, <3>1, <3>2 DEF Clean
  <2>7. Knows(t, r)
    BY <1>2, <1>3, <2>2, <2>3 DEF Knows, Asks, Sights, Answer, Searching
  <2> QED
    BY <2>5, <2>6, <2>7
<1>9. CASE ~(Is(y, me.k) /\ (me.op = "erase_node" => y = me.n))
  <2> PICK b : b = FALSE
    OBVIOUS
  <2>1. r = Finish(end, b)
    BY <1>9 DEF PickNode
  <2>2. EndAs(me, r, b) /\ r.n = Tail
    <3>1. EndAs(end, r, b) /\ r.n = Tail
      BY <2>1, EndIs
    <3> QED
      BY <3>1 DEF EndAs
  <2>3. FALSE \in seen[t][me.k]
    <3>1. CASE ~Is(y, me.k)
      <4>1. SawGap(t, me.x, y)
        BY DEF Sees, Reader
      <4>2. y = Tail \/ me.k < Key[y]
        BY <1>3, <1>4, <1>6, <1>7, <3>1
      <4> QED
        BY <1>4, <1>5, <4>1, <4>2, AbsentBetween
    <3>2. CASE Is(y, me.k) /\ me.op = "erase_node" /\ y # me.n
      <4>1. SawIn(t, me.n) /\ me.n \in Node /\ (me.n \in Chain(0) \/ deleting[me.n][0])
        BY <1>2, <3>2 DEF Sights
      <4>2. me.k = Key[me.n]
        BY <1>1, <3>2 DEF NodeInv, Searching, Busy
      <4>3. me.n \notin Chain(0)
        <5>1. \A m, n \in Chain(0) : Key[m] = Key[n] => m = n
          BY NowFacts, NodeFacts DEF Chains, IsChain
        <5> QED
          BY <1>3, <1>6, <3>2, <4>2, <5>1
      <4> QED
        BY <1>5, <4>1, <4>2, <4>3 DEF SawIn
    <3> QED
      BY <1>9, <3>1, <3>2
  <2>4. r.n \notin stale[t] /\ Answer(t, r)
    BY <2>2, <2>3, NodeFacts DEF Recorded, Answer, EndAs
  <2> QED
    BY <2>2, <2>4, DoneTold
<1> QED
  BY <1>8, <1>9

\* A search with a splice goes on when the walk has come to y.
LEMMA CameSpliceTold ==
  ASSUME ListIInv, Recorded, NEW t \in Thread, NEW me, ThreadInv(me), NEW W, Told(t, me, W),
         me.pc \in Searching, me.op \in SpliceOps,
         NEW y, Sees(t, me, W, y), LooksAt(me, y),
         NEW r, r = CameSplice(me, y)
  PROVE  Visit(r, W) /\ Clean(t, r) /\ Knows(t, r)
<1>1. /\ LocalType(me) /\ DOMAIN me = Locals /\ me.lv \in Level /\ me.lv \in Nat /\ me.target \in Nat
      /\ me.target <= me.lv
  BY LevelsOf, NowFacts DEF ThreadInv, LocalType, Shape, Level
<1>2. /\ me.then \in {"link0", "own", "pick", "cut"}
      /\ me.then = "pick" => me.target = 0 /\ me.op \in {"erase", "erase_node"}
      /\ me.then \in {"link0", "own"} <=> me.op = "insert"
  BY <1>1 DEF ThreadInv, Shape, SpliceOps
<1>3. ~(me.op \in {"seek", "find"}) /\ me.op # "scan"
  BY DEF SpliceOps
<1>a. PICK found : found = [me EXCEPT !.prev[me.lv] = me.x, !.nxt[me.lv] = y]
  OBVIOUS
<1>4. Told(t, found, W)
  BY <1>a, SplicedTold
<1>5. /\ DOMAIN found = Locals /\ \A f \in Locals \ {"prev", "nxt"} : found[f] = me[f]
  BY <1>1, <1>a DEF Locals
<1>6. /\ found.pc = me.pc /\ found.op = me.op /\ found.k = me.k /\ found.n = me.n /\ found.i = me.i
      /\ found.lv = me.lv /\ found.x = me.x /\ found.then = me.then /\ found.fix = me.fix
      /\ found.after = me.after /\ found.sh = me.sh /\ found.mode = me.mode
  BY <1>5 DEF Locals
<1>7. CASE StillBefore(me, y)
  <2>1. y # Tail
    BY <1>7 DEF StillBefore, Before
  <2>2. r = Ahead(me, y)
    BY <1>7 DEF CameSplice
  <2>3. /\ SameCall(me, r) /\ r.pc = "read" /\ r.x = y /\ r.y = Tail /\ r.z = Tail /\ r.after = me.after
        /\ r.lv = me.lv
    BY <1>1, <2>2 DEF Ahead, SameCall, Locals
  <2> QED
    BY <1>1, <1>3, <2>1, <2>3, AheadTold
<1>8. CASE ~StillBefore(me, y) /\ me.lv > me.target
  <2>1. r = Down(found, y)
    BY <1>8, <1>a DEF CameSplice
  <2>2. /\ SameCall(found, r) /\ r.pc = "read" /\ r.x = found.x /\ r.y = Tail /\ r.z = Tail /\ r.after = y
        /\ r.lv = found.lv - 1
    BY <1>5, <2>1 DEF Down, SameCall, Locals
  <2>3. Sees(t, found, W, y)
    BY <1>6 DEF Sees
  <2>4. found.lv > 0 /\ found.lv \in Level /\ found.pc \in Searching
    BY <1>1, <1>6, <1>8
  <2>5. found.op # "scan" /\ ~(found.op \in {"seek", "find"})
    BY <1>3, <1>6
  <2> QED
    BY <1>4, <2>2, <2>3, <2>4, <2>5, DownTold
<1>9. CASE ~StillBefore(me, y) /\ ~(me.lv > me.target)
  <2>a. PICK end : end = [found EXCEPT !.then = "none", !.lv = 0, !.target = 0,
                                       !.x = Head, !.y = Tail, !.z = Tail, !.after = Tail]
    OBVIOUS
  <2>1. /\ DOMAIN end = Locals /\ end.op = me.op /\ end.k = me.k /\ end.n = me.n /\ end.i = me.i
        /\ end.then = "none" /\ end.fix = me.fix
        /\ end.x = Head /\ end.y = Tail /\ end.z = Tail /\ end.after = Tail
        /\ end.prev = found.prev /\ end.nxt = found.nxt /\ end.sh = found.sh
    BY <1>5, <1>6, <2>a DEF Locals
  <2>2. CASE me.then = "pick"
    <3>1. r = PickNode(end, y)
      BY <1>9, <1>a, <2>2, <2>a DEF CameSplice
    <3>2. me.lv = 0
      BY <1>1, <1>2, <1>9, <2>2
    <3>3. me.op \in {"erase", "erase_node"} /\ found.sh = me.sh /\ ~StillBefore(me, y)
      BY <1>2, <1>6, <1>9, <2>2
    <3> QED
      BY <1>4, <2>1, <2>2, <3>1, <3>2, <3>3, PickTold
  <2>3. CASE me.then # "pick"
    <3>1. r = [end EXCEPT !.pc = me.then]
      BY <1>9, <1>a, <2>3, <2>a DEF CameSplice
    <3>2. /\ r.op = found.op /\ r.k = found.k /\ r.n = found.n /\ r.fix = found.fix /\ r.i = found.i
          /\ r.prev = found.prev /\ r.nxt = found.nxt /\ r.sh = found.sh
          /\ r.x = Head /\ r.y = Tail /\ r.z = Tail /\ r.after = Tail /\ r.pc = me.then /\ r.then = "none"
      BY <1>6, <2>1, <3>1 DEF Locals
    <3>3. Head \notin stale[t] /\ Tail \notin stale[t]
      BY NodeFacts DEF Recorded
    <3>4. Building(r) => Building(found)
      <4>1. found.pc \in Busy /\ found.pc # "link0"
        BY <1>6 DEF Searching, Busy
      <4> QED
        BY <1>6, <3>2, <4>1 DEF Building
    <3>5. r.pc \in (Busy \ (Searching \cup {"mark"})) \cup {"read"} /\ r.pc # "read"
      BY <1>2, <2>3, <3>2 DEF Busy, Searching
    <3>6. found.op \in SpliceOps
      BY <1>6
    <3> QED
      BY <1>4, <3>2, <3>3, <3>4, <3>5, <3>6, SpliceTold
  <2> QED
    BY <2>2, <2>3
<1> QED
  BY <1>7, <1>8, <1>9

\* Whatever the call, it goes on with what it knows when the walk has come to y.
LEMMA CameTold ==
  ASSUME ListIInv, Recorded, NEW t \in Thread, NEW me, ThreadInv(me), NEW W, Told(t, me, W),
         me.pc \in Searching, NEW y, Sees(t, me, W, y), LooksAt(me, y), Follows(me.x, y),
         NEW r, r = Came(me, y)
  PROVE  Visit(r, W) /\ Clean(t, r) /\ Knows(t, r)
<1>1. me.op \in SpliceOps \cup {"find", "seek", "scan", "refresh"} /\ (me.op = "find" => me.mode # "last")
  BY DEF ThreadInv, LocalType, Shape, Searching, Busy
<1>2. CASE me.op \in SpliceOps
  <2>1. r = CameSplice(me, y)
    BY <1>2 DEF Came, SpliceOps
  <2> QED
    BY <1>2, <2>1, CameSpliceTold
<1>3. CASE me.op \in {"find", "seek"} /\ me.mode # "last"
  <2>1. r = CameNear(me, y)
    BY <1>3 DEF Came
  <2> QED
    BY <1>3, <2>1, NearTold
<1>4. CASE me.op = "seek" /\ me.mode = "last"
  <2>1. r = CameLast(me, y)
    BY <1>4 DEF Came
  <2> QED
    BY <1>4, <2>1, LastTold
<1>5. CASE me.op = "scan"
  <2>1. r = CameScan(me, y)
    BY <1>5 DEF Came
  <2> QED
    BY <1>5, <2>1, ScanTold
<1>6. CASE me.op = "refresh"
  <2>1. r = CameRefresh(me, y)
    BY <1>6 DEF Came
  <2> QED
    BY <1>6, <2>1, RefreshTold
<1> QED
  BY <1>1, <1>2, <1>3, <1>4, <1>5, <1>6

\* The local variables r of a search that looks at the node ahead.
LEMMA LookTold ==
  ASSUME Recorded, NEW t \in Thread, NEW me, me.lv \in Level, NEW W, Told(t, me, W), me.pc \in Searching,
         NEW r, SameCall(me, r), r.pc \in Searching \ {"read"},
         r.x = me.x, r.lv = me.lv, r.after = me.after, r.got = me.got,
         r.y \in W[me.lv], r.z \in W[me.lv] \cup {Tail},
         Reader(me.op) /\ me.lv = 0 /\ r.pc \in {"skip", "check"} => SawGap(t, me.x, r.y),
         Reader(me.op) /\ me.lv = 0 /\ r.pc \in {"unlink", "unref"} => SawGap(t, me.x, r.z)
  PROVE  Visit(r, W) /\ Clean(t, r) /\ Knows(t, r)
<1>1. Been(t, me.op, W) /\ Visit(me, W) /\ Clean(t, me) /\ Sights(t, me)
  BY DEF Told, Knows
<1>2. Inside(W, me.x, me.lv)
  BY <1>1 DEF Visit
<1>3. me.x \notin stale[t] /\ me.after \notin stale[t]
  BY <1>1 DEF Clean, Known
<1>4. r.y \notin stale[t] /\ r.z \notin stale[t]
  BY <1>1, BeenClean
<1>5. me.op = "seek" => SawIn(t, me.x)
  BY <1>1 DEF Sights
<1>6. me.op \in {"seek", "find"} /\ me.mode # "last" => Bounds(r)
  BY <1>1 DEF Sights, Bounds, SameCall
<1>7. me.op = "scan" => Scanned(t, r)
  BY <1>1 DEF Sights, Scanned, GotKeys
<1>8. r.op = me.op /\ r.mode = me.mode
  BY DEF SameCall
<1> QED
  BY <1>2, <1>3, <1>4, <1>5, <1>6, <1>7, <1>8, WalkTold

\* It goes on from a node ahead that it has yet to look at.
LEMMA NextTold ==
  ASSUME ListIInv, Recorded, NEW t \in Thread, NEW me, ThreadInv(me), NEW W, Told(t, me, W),
         me.pc \in Searching, NEW y, Sees(t, me, W, y), Follows(me.x, y)
  PROVE  \A r : r \in {SkipFrom(me, y), CheckNext(me, y)} => Visit(r, W) /\ Clean(t, r) /\ Knows(t, r)
<1> SUFFICES ASSUME NEW r, r \in {SkipFrom(me, y), CheckNext(me, y)}
             PROVE  Visit(r, W) /\ Clean(t, r) /\ Knows(t, r)
  OBVIOUS
<1>1. DOMAIN me = Locals /\ me.lv \in Level
  BY LevelsOf, NowFacts DEF ThreadInv, LocalType
<1>2. CASE y = Tail
  <2>1. r = Came(me, y)
    BY <1>2 DEF SkipFrom, CheckNext
  <2>2. LooksAt(me, y)
    BY <1>2 DEF LooksAt
  <2> QED
    BY <2>1, <2>2, CameTold
<1>3. CASE y # Tail
  <2>1. PICK pc \in {"skip", "check"} : r = [me EXCEPT !.pc = pc, !.y = y, !.z = Tail]
    BY <1>3 DEF SkipFrom, CheckNext
  <2>2. /\ SameCall(me, r) /\ r.pc = pc /\ r.y = y /\ r.z = Tail /\ r.x = me.x /\ r.lv = me.lv
        /\ r.after = me.after /\ r.got = me.got
    BY <1>1, <2>1 DEF SameCall, Locals
  <2>3. r.y \in W[me.lv] /\ r.z \in W[me.lv] \cup {Tail}
    BY <1>3, <2>2 DEF Sees
  <2>4. r.pc \in Searching \ {"read"} /\ ~(r.pc \in {"unlink", "unref"})
    BY <2>2 DEF Searching
  <2>5. Reader(me.op) /\ me.lv = 0 => SawGap(t, me.x, r.y)
    BY <2>2 DEF Sees
  <2> QED
    BY <1>1, <2>2, <2>3, <2>4, <2>5, LookTold
<1> QED
  BY <1>2, <1>3

\* What a search sees ahead: behind the node it stands on, at the node it looks
\* at, behind that if it is marked, and at the one behind that it has noted.
LEMMA SeesAhead ==
  ASSUME ListIInv, Recorded, NEW t \in Thread, NEW me, ThreadInv(me), NEW W, Told(t, me, W),
         me.pc \in Searching
  PROVE  /\ Sees(t, me, W, next[me.x][me.lv])
         /\ me.pc \in {"skip", "check"} =>
               /\ Sees(t, me, W, me.y)
               /\ deleting[me.y][me.lv] => Sees(t, me, W, next[me.y][me.lv])
         /\ me.pc \in {"unlink", "unref"} => Sees(t, me, W, me.z)
<1>1. /\ me.lv \in Level /\ me.lv \in Nat /\ me.x \in Linkable
      /\ Been(t, me.op, W) /\ Visit(me, W) /\ Sights(t, me) /\ Types
  BY LevelsOf, NowFacts DEF Told, Knows, ThreadInv, LocalType, Level
<1>2. me.x \in W[me.lv] \cup {Head} /\ W[me.lv] \subseteq Node
  BY <1>1, NextIn DEF Visit, Inside
<1>3. Sees(t, me, W, next[me.x][me.lv])
  <2>1. next[me.x][me.lv] \in W[me.lv] \cup {Tail}
    BY <1>1, <1>2, NextIn
  <2>2. Reader(me.op) /\ me.lv = 0 => SawGap(t, me.x, next[me.x][0])
    BY <1>1, <1>2, GapNow
  <2> QED
    BY <2>1, <2>2 DEF Sees
<1>4. ASSUME me.pc \in {"skip", "check"}
      PROVE  Sees(t, me, W, me.y) /\ (deleting[me.y][me.lv] => Sees(t, me, W, next[me.y][me.lv]))
  <2>1. me.y \in W[me.lv] /\ me.y \in Node
    BY <1>1, <1>2, <1>4 DEF Visit, Searching
  <2>2. Reader(me.op) /\ me.lv = 0 => SawGap(t, me.x, me.y)
    BY <1>1, <1>4 DEF Sights
  <2> PICK z : z = next[me.y][me.lv]
    OBVIOUS
  <2>3. z \in W[me.lv] \cup {Tail} /\ z \in Some
    BY <1>1, <1>2, <2>1, NextIn DEF Some
  <2>4. ASSUME deleting[me.y][me.lv], Reader(me.op), me.lv = 0 PROVE SawGap(t, me.x, z)
    <3>1. SawGap(t, me.y, z) /\ SawOut(t, Key[me.y])
      BY <1>1, <2>1, <2>4, GapNow, NodeFacts
    <3> QED
      BY <1>1, <2>1, <2>2, <2>3, <2>4, <3>1, GapJoin
  <2> QED
    BY <2>1, <2>2, <2>3, <2>4 DEF Sees
<1>5. me.pc \in {"unlink", "unref"} => Sees(t, me, W, me.z)
  BY <1>1 DEF Sees, Visit, Sights
<1> QED
  BY <1>3, <1>4, <1>5

\* the call of r is that of me, and has changed the set if it has
SameWon(me, r) == r.op = me.op /\ (Won(r) <=> Won(me))

\* A search changes nothing.
LEMMA CameWon ==
  ASSUME NEW me, ThreadInv(me), me.pc \in Searching, NEW y, NEW r, r = Came(me, y), Goes(me, r)
  PROVE  SameWon(me, r)
<1>1. DOMAIN me = Locals /\ me.op \in SpliceOps \cup {"find", "seek", "scan", "refresh"}
  BY DEF ThreadInv, LocalType, Shape, Searching, Busy
<1>2. me.op = "find" => me.mode # "last"
  BY DEF ThreadInv, Shape, Searching, Busy
<1>3. \A n : Found(me, n).op = me.op
  <2> SUFFICES ASSUME NEW n PROVE Found(me, n).op = me.op
    OBVIOUS
  <2> PICK b : b = IF me.op = "find" THEN Is(n, me.k) ELSE n \notin {Head, Tail}
    OBVIOUS
  <2> PICK r0 : r0 = Found(me, n)
    OBVIOUS
  <2>1. r0 = FinishAt(me, b, me.mode, n)
    BY DEF Found, FinishAt
  <2>2. EndAs(me, r0, b)
    BY <2>1, EndAt
  <2> QED
    BY <2>2 DEF EndAs
<1>4. \A v, l : Ahead(me, v).op = me.op /\ Down(me, v).op = me.op /\ [Ahead(me, v) EXCEPT !.lv = l].op = me.op
  BY <1>1 DEF Ahead, Down, Locals
<1>5. CASE me.op \notin SpliceOps
  <2>1. r.op = me.op
    <3>1. CASE me.op \in {"find", "seek"} /\ me.mode # "last"
      BY <1>3, <1>4, <3>1 DEF Came, CameNear
    <3>2. CASE me.op = "seek" /\ me.mode = "last"
      BY <1>3, <1>4, <3>2 DEF Came, CameLast
    <3>3. CASE me.op = "scan"
      <4>1. r = CameScan(me, y)
        BY <3>3 DEF Came
      <4>2. \A g : [Ahead(me, y) EXCEPT !.got = g].op = me.op
        BY <1>1 DEF Ahead, Locals
      <4>3. [Finish(me, TRUE) EXCEPT !.got = me.got].op = me.op
        <5> PICK b : b = TRUE
          OBVIOUS
        <5> PICK r0 : r0 = FinishGot(me, b, me.got)
          OBVIOUS
        <5>1. EndAs(me, r0, b)
          BY EndGot
        <5> QED
          BY <5>1 DEF EndAs, FinishGot
      <4> QED
        BY <4>1, <4>2, <4>3 DEF CameScan
    <3>4. CASE me.op = "refresh"
      <4>1. r = CameRefresh(me, y)
        BY <3>4 DEF Came
      <4>2. Finish(me, TRUE).op = me.op
        <5> PICK b : b = TRUE
          OBVIOUS
        <5> PICK r0 : r0 = Finish(me, b)
          OBVIOUS
        <5>1. EndAs(me, r0, b)
          BY EndIs
        <5> QED
          BY <5>1 DEF EndAs
      <4>3. [Ahead(me, Head) EXCEPT !.lv = @ + 1].op = me.op
        BY <1>1 DEF Ahead, Locals
      <4> QED
        BY <1>4, <4>1, <4>2, <4>3 DEF CameRefresh
    <3> QED
      BY <1>1, <1>2, <1>5, <3>1, <3>2, <3>3, <3>4
  <2> QED
    BY <1>5, <2>1 DEF SameWon, Won, Building, SpliceOps
<1>6. CASE me.op \in SpliceOps
  <2>1. r = CameSplice(me, y)
    BY <1>6 DEF Came, SpliceOps
  <2>2. me.then = "pick" => me.op # "insert"
    BY DEF ThreadInv, Shape
  <2>3. me.op \in {"erase", "erase_node"} => me.then \in {"pick", "cut"}
    BY DEF ThreadInv, Shape
  <2>4. \/ r.op = me.op /\ r.pc \in Searching /\ r.then = me.then
        \/ r.op = me.op /\ r.pc = me.then /\ r.then = "none" /\ me.then # "pick"
        \/ r.op = me.op /\ r.then = "none" /\ me.then = "pick" /\ (r.pc = "mark" \/ (r.pc = "done" /\ r.res = FALSE))
    <3> PICK found : found = [me EXCEPT !.prev[me.lv] = me.x, !.nxt[me.lv] = y]
      OBVIOUS
    <3> PICK end : end = [found EXCEPT !.then = "none", !.lv = 0, !.target = 0,
                                       !.x = Head, !.y = Tail, !.z = Tail, !.after = Tail]
      OBVIOUS
    <3>1. DOMAIN found = Locals /\ found.op = me.op /\ found.then = me.then /\ found.lv = me.lv
      BY <1>1 DEF Locals
    <3>2. DOMAIN end = Locals /\ end.op = me.op /\ end.then = "none"
      BY <3>1 DEF Locals
    <3>3. CASE StillBefore(me, y)
      <4>1. r = Ahead(me, y)
        BY <2>1, <3>3 DEF CameSplice
      <4>2. r.op = me.op /\ r.pc = "read" /\ r.then = me.then
        BY <1>1, <4>1 DEF Ahead, Locals
      <4> QED
        BY <4>2 DEF Searching
    <3>4. CASE ~StillBefore(me, y) /\ me.lv > me.target
      <4>1. r = Down(found, y)
        BY <2>1, <3>4 DEF CameSplice
      <4>2. r.op = me.op /\ r.pc = "read" /\ r.then = me.then
        BY <3>1, <4>1 DEF Down, Locals
      <4> QED
        BY <4>2 DEF Searching
    <3>5. CASE ~StillBefore(me, y) /\ ~(me.lv > me.target) /\ me.then = "pick"
      <4>1. r = PickNode(end, y)
        BY <2>1, <3>5 DEF CameSplice
      <4>2. r.op = me.op /\ r.then = "none" /\ (r.pc = "mark" \/ (r.pc = "done" /\ r.res = FALSE))
        <5>1. LET q == [end EXCEPT !.pc = "mark", !.n = y, !.i = MaxHeight - 1] IN
              q.op = me.op /\ q.then = "none" /\ q.pc = "mark"
          BY <3>2 DEF Locals
        <5> PICK b : b = FALSE
          OBVIOUS
        <5>2. CASE r = Finish(end, b)
          <6>1. EndAs(end, r, b)
            BY <5>2, EndIs
          <6> QED
            BY <3>2, <6>1 DEF EndAs
        <5> QED
          BY <3>2, <4>1, <5>1, <5>2 DEF PickNode
      <4> QED
        BY <3>5, <4>2
    <3>6. CASE ~StillBefore(me, y) /\ ~(me.lv > me.target) /\ me.then # "pick"
      <4>1. r = [end EXCEPT !.pc = me.then]
        BY <2>1, <3>6 DEF CameSplice
      <4> QED
        BY <3>2, <3>6, <4>1 DEF Locals
    <3> QED
      BY <3>3, <3>4, <3>5, <3>6
  <2>5. Building(r) <=> Building(me)
    BY DEF Goes
  <2>6. me.pc \notin {"cut", "cutref", "done"} /\ Searching \cap {"cut", "cutref", "done"} = {}
    BY DEF Searching
  <2>7. r.op = me.op
    BY <2>4
  <2>8. CASE me.op = "insert"
    <3>1. me.then \in {"link0", "own"}
      BY <2>8 DEF ThreadInv, Shape
    <3>2. r.pc # "done"
      BY <2>4, <2>6, <3>1
    <3> QED
      BY <2>5, <2>6, <2>7, <2>8, <3>2 DEF SameWon, Won
  <2>9. CASE me.op \in {"erase", "erase_node"}
    <3>1. (r.pc \in {"cut", "cutref"} \/ r.then = "cut") <=> me.then = "cut"
      BY <2>3, <2>4, <2>6, <2>9
    <3>2. r.pc = "done" => ~r.res
      BY <2>3, <2>4, <2>6, <2>9
    <3> QED
      BY <2>5, <2>6, <2>7, <2>9, <3>1, <3>2 DEF SameWon, Won
  <2> QED
    BY <1>6, <2>8, <2>9 DEF SpliceOps
<1> QED
  BY <1>5, <1>6

\* Nor does one that goes on looking.
LEMMA LookWon ==
  ASSUME NEW me, ThreadInv(me), me.pc \in Searching,
         NEW r, r.op = me.op, r.pc \in Searching, r.then = me.then
  PROVE  SameWon(me, r)
<1>1. r.pc \in Busy /\ r.pc \notin {"cut", "cutref", "done", "link0"}
  BY DEF Searching, Busy
<1>2. me.pc \in Busy /\ me.pc \notin {"cut", "cutref", "done", "link0"}
  BY DEF Searching, Busy
<1> QED
  BY <1>1, <1>2 DEF SameWon, Won, Building

\* Nor do the steps between.
LEMMA NextWon ==
  ASSUME NEW me, ThreadInv(me), me.pc \in Searching, NEW y
  PROVE  /\ Goes(me, SkipFrom(me, y)) => SameWon(me, SkipFrom(me, y))
         /\ Goes(me, CheckNext(me, y)) => SameWon(me, CheckNext(me, y))
<1>1. DOMAIN me = Locals
  BY DEF ThreadInv, LocalType
<1>2. ASSUME NEW r, r \in {SkipFrom(me, y), CheckNext(me, y)}, Goes(me, r) PROVE SameWon(me, r)
  <2>1. CASE y = Tail
    <3>1. r = Came(me, y)
      BY <1>2, <2>1 DEF SkipFrom, CheckNext
    <3> QED
      BY <1>2, <3>1, CameWon
  <2>2. CASE y # Tail
    <3>1. PICK pc \in {"skip", "check"} : r = [me EXCEPT !.pc = pc, !.y = y, !.z = Tail]
      BY <1>2, <2>2 DEF SkipFrom, CheckNext
    <3>2. r.op = me.op /\ r.pc = pc /\ r.then = me.then
      BY <1>1, <3>1 DEF Locals
    <3>3. r.pc \in Searching
      BY <3>2 DEF Searching
    <3> QED
      BY <3>2, <3>3, LookWon
  <2> QED
    BY <2>1, <2>2
<1> QED
  BY <1>2

-------------------------------------------------------------------------------
\* A step keeps the nodes that changes no chain but by taking out marked nodes.
LEMMA OnwardChains ==
  ASSUME deleting' = deleting, retired \subseteq retired',
         \A n \in Node, l \in Level : deleting[n][l] => next'[n][l] = next[n][l],
         \A l \in Level : \A n \in Chain(l) : n \in Chain(l)' \/ deleting[n][l]
  PROVE  Onward
BY DEF Onward

\* Giving a reference back retires nodes at most.
LEMMA DropKeeps ==
  ASSUME NEW n, DecreaseReference(n)
  PROVE  retired \subseteq retired'
BY DEF DecreaseReference

\* A step that changes no link, in which the call goes on with what it knows.
LEMMA TellStill ==
  ASSUME ListIInv, ListIInv', CallIInv, NEW t \in Thread, NEW me, me = th[t], NEW r, Put(t, r),
         SameWon(me, r), retired \subseteq retired', UNCHANGED <<links, keys, call>>,
         \A W : Told(t, me, W) => Visit(r, W) /\ Clean(t, r) /\ Knows(t, r)
  PROVE  CallIInv'
<1>1. next' = next /\ deleting' = deleting /\ UNCHANGED <<keys, stale>>
  BY DEF links, call
<1>2. \A l \in Level : Chain(l)' = Chain(l)
  BY <1>1, NowFacts, ChainsSame
<1>3. Onward
  BY <1>1, <1>2, OnwardChains
<1>4. Moves(t, r)
  BY PutMoves, NowFacts DEF Threads
<1> QED
  BY <1>1, <1>3, <1>4, TellQuiet DEF SameWon

\* The step Read keeps the invariant.
LEMMA ReadTells == ASSUME ListIInv, ListIInv', CallIInv, NEW t \in Thread, Read(t) PROVE CallIInv'
<1> PICK me : me = th[t]
  OBVIOUS
<1>1. me.pc = "read" /\ me.pc \in Searching
  BY DEF Read, Searching
<1> PICK y : y = next[me.x][me.lv]
  OBVIOUS
<1>2. /\ Types /\ Chains /\ Links /\ ThreadInv(me)
      /\ ReachedOrTail(y, me.lv) /\ Follows(me.x, y)
  BY <1>1, SearchFacts
<1> PICK r : r = IF deleting[me.x][me.lv] THEN SkipFrom(me, y) ELSE CheckNext(me, y)
  OBVIOUS
<1>3. SameWon(me, r)
  BY <1>1, <1>2, SkipCheckOK, NextWon
<1>4. Put(t, r) /\ UNCHANGED <<links, counts, keys, call>>
  BY DEF Read
<1>5. ASSUME NEW W, Told(t, me, W) PROVE Visit(r, W) /\ Clean(t, r) /\ Knows(t, r)
  <2>1. Sees(t, me, W, y)
    BY <1>1, <1>2, <1>5, SeesAhead DEF CallIInv
  <2>2. r \in {SkipFrom(me, y), CheckNext(me, y)}
    OBVIOUS
  <2> QED
    BY <1>1, <1>2, <1>5, <2>1, <2>2, NextTold DEF CallIInv
<1>6. retired \subseteq retired'
  BY <1>4 DEF counts
<1> QED
  BY <1>3, <1>4, <1>5, <1>6, TellStill

\* The step Skip keeps the invariant.
LEMMA SkipTells == ASSUME ListIInv, ListIInv', CallIInv, NEW t \in Thread, Skip(t) PROVE CallIInv'
<1> PICK me : me = th[t]
  OBVIOUS
<1>1. me.pc = "skip" /\ me.pc \in Searching
  BY DEF Skip, Searching
<1> PICK y : y = next[me.y][me.lv]
  OBVIOUS
<1>2. /\ Types /\ Chains /\ Links /\ ThreadInv(me)
      /\ me.y \in Node /\ Reached(me.y, me.lv) /\ ReachedOrTail(me.y, me.lv) /\ Follows(me.x, me.y)
      /\ ReachedOrTail(y, me.lv) /\ Follows(me.x, y)
  BY <1>1, SearchFacts
<1> PICK r : r = IF deleting[me.y][me.lv] THEN SkipFrom(me, y) ELSE Came(me, me.y)
  OBVIOUS
<1>3. SameWon(me, r)
  BY <1>1, <1>2, SkipCheckOK, CameOK, NextWon, CameWon
<1>4. Put(t, r) /\ UNCHANGED <<links, counts, keys, call>>
  BY DEF Skip
<1>5. ASSUME NEW W, Told(t, me, W) PROVE Visit(r, W) /\ Clean(t, r) /\ Knows(t, r)
  <2>1. Sees(t, me, W, me.y) /\ (deleting[me.y][me.lv] => Sees(t, me, W, y))
    BY <1>1, <1>2, <1>5, SeesAhead DEF CallIInv
  <2>2. CASE deleting[me.y][me.lv]
    <3>1. r \in {SkipFrom(me, y), CheckNext(me, y)}
      BY <2>2
    <3> QED
      BY <1>1, <1>2, <1>5, <2>1, <2>2, <3>1, NextTold DEF CallIInv
  <2>3. CASE ~deleting[me.y][me.lv]
    <3>1. LooksAt(me, me.y)
      BY <1>2, <2>3 DEF LooksAt
    <3> QED
      BY <1>1, <1>2, <1>5, <2>1, <2>3, <3>1, CameTold DEF CallIInv
  <2> QED
    BY <2>2, <2>3
<1>6. retired \subseteq retired'
  BY <1>4 DEF counts
<1> QED
  BY <1>3, <1>4, <1>5, <1>6, TellStill

\* The step Check keeps the invariant.
LEMMA CheckTells == ASSUME ListIInv, ListIInv', CallIInv, NEW t \in Thread, Check(t) PROVE CallIInv'
<1> PICK me : me = th[t]
  OBVIOUS
<1>1. me.pc = "check" /\ me.pc \in Searching
  BY DEF Check, Searching
<1> PICK z : z = next[me.y][me.lv]
  OBVIOUS
<1>2. /\ Types /\ Chains /\ Links /\ ThreadInv(me) /\ me.lv \in Level /\ DOMAIN me = Locals
      /\ me.y \in Node /\ Reached(me.y, me.lv) /\ ReachedOrTail(me.y, me.lv) /\ Follows(me.x, me.y)
  BY <1>1, SearchFacts DEF ThreadInv, LocalType
<1> PICK c : c = [me EXCEPT !.pc = "unlink", !.z = z]
  OBVIOUS
<1>3. /\ SameCall(me, c) /\ c.pc = "unlink" /\ c.y = me.y /\ c.z = z /\ c.x = me.x /\ c.lv = me.lv
      /\ c.after = me.after /\ c.got = me.got
  BY <1>2 DEF SameCall, Locals
<1> PICK r : r = IF deleting[me.y][me.lv] THEN c ELSE Came(me, me.y)
  OBVIOUS
<1>4. SameWon(me, r)
  <2>1. c.pc \in Searching /\ c.op = me.op /\ c.then = me.then
    BY <1>3 DEF Searching, SameCall
  <2>2. SameWon(me, c)
    BY <1>1, <1>2, <2>1, LookWon
  <2> QED
    BY <1>1, <1>2, <2>2, CameOK, CameWon
<1>5. Put(t, r) /\ UNCHANGED <<links, counts, keys, call>>
  BY DEF Check
<1>6. ASSUME NEW W, Told(t, me, W) PROVE Visit(r, W) /\ Clean(t, r) /\ Knows(t, r)
  <2>1. Sees(t, me, W, me.y) /\ (deleting[me.y][me.lv] => Sees(t, me, W, z))
    BY <1>1, <1>2, <1>6, SeesAhead DEF CallIInv
  <2>2. CASE deleting[me.y][me.lv]
    <3>1. c.y \in W[me.lv] /\ c.z \in W[me.lv] \cup {Tail}
      BY <1>2, <1>3, <2>1, <2>2, NodeFacts DEF Sees
    <3>2. Reader(me.op) /\ me.lv = 0 => SawGap(t, me.x, c.z)
      BY <1>3, <2>1, <2>2 DEF Sees
    <3>3. c.pc \in Searching \ {"read"} /\ c.pc \notin {"skip", "check"}
      BY <1>3 DEF Searching
    <3> QED
      BY <1>1, <1>2, <1>3, <1>6, <2>2, <3>1, <3>2, <3>3, LookTold DEF CallIInv
  <2>3. CASE ~deleting[me.y][me.lv]
    <3>1. LooksAt(me, me.y)
      BY <1>2, <2>3 DEF LooksAt
    <3> QED
      BY <1>1, <1>2, <1>6, <2>1, <2>3, <3>1, CameTold DEF CallIInv
  <2> QED
    BY <2>2, <2>3
<1>7. retired \subseteq retired'
  BY <1>5 DEF counts
<1> QED
  BY <1>4, <1>5, <1>6, <1>7, TellStill

\* Taking a marked node out of its level changes no link of a marked node.
LEMMA CutOnward ==
  ASSUME ListIInv, NEW l \in Level, NEW p, Reached(p, l), NEW y \in Node, CanCas(p, l, y), deleting[y][l],
         Relinks(p, l, next[y][l]), deleting' = deleting, retired' = retired
  PROVE  Onward
<1>1. /\ Chain(l)' = Chain(l) \ {y} /\ \A j \in Level : j # l => Chain(j)' = Chain(j)
  BY NowFacts, ChainsCut
<1>2. \A n \in Node, j \in Level : deleting[n][j] => next'[n][j] = next[n][j]
  BY NowFacts DEF CanCas, Relinks, Types, Linkable
<1> QED
  BY <1>1, <1>2, OnwardChains

\* The step Unlink keeps the invariant.
LEMMA UnlinkTells == ASSUME ListIInv, ListIInv', CallIInv, NEW t \in Thread, Unlink(t) PROVE CallIInv'
<1> PICK me : me = th[t]
  OBVIOUS
<1>1. me.pc = "unlink" /\ me.pc \in Searching
  BY DEF Unlink, Searching
<1> PICK y : y = next[me.x][me.lv]
  OBVIOUS
<1>2. /\ Types /\ Chains /\ Links /\ ThreadInv(me) /\ me.lv \in Level /\ DOMAIN me = Locals
      /\ me.y \in Node /\ Reached(me.y, me.lv) /\ ReachedOrTail(y, me.lv) /\ Follows(me.x, y)
  BY <1>1, SearchFacts DEF ThreadInv, LocalType
<1>3. /\ Reached(me.x, me.lv) /\ ReachedOrTail(me.z, me.lv) /\ Follows(me.x, me.z)
      /\ deleting[me.y][me.lv] /\ next[me.y][me.lv] = me.z
  BY <1>1, <1>2 DEF ThreadInv, Hands
<1>4. CASE CanCas(me.x, me.lv, me.y)
  <2> PICK r : r = [me EXCEPT !.pc = "unref"]
    OBVIOUS
  <2>1. /\ SameCall(me, r) /\ r.pc = "unref" /\ r.y = me.y /\ r.z = me.z /\ r.x = me.x /\ r.lv = me.lv
        /\ r.after = me.after /\ r.got = me.got
    BY <1>2 DEF SameCall, Locals
  <2>2. r.pc \in Searching \ {"read"} /\ r.pc \notin {"skip", "check"}
    BY <2>1 DEF Searching
  <2>3. SameWon(me, r)
    <3>1. r.op = me.op /\ r.then = me.then /\ r.pc \in Searching
      BY <2>1, <2>2 DEF SameCall
    <3> QED
      BY <1>1, <1>2, <3>1, LookWon
  <2>4. Put(t, r) /\ next' = [next EXCEPT ![me.x][me.lv] = me.z] /\ UNCHANGED <<deleting, counts, keys, call>>
    BY <1>4 DEF Unlink
  <2>5. Moves(t, r)
    BY <2>4, PutMoves, NowFacts DEF Threads
  <2>6. Onward
    BY <1>2, <1>3, <1>4, <2>4, CutOnward DEF Relinks, counts
  <2>7. ASSUME NEW W, Told(t, me, W) PROVE Visit(r, W) /\ Clean(t, r) /\ Knows(t, r)
    <3>1. Sees(t, me, W, me.z)
      BY <1>1, <1>2, <2>7, SeesAhead DEF CallIInv
    <3>2. r.y \in W[me.lv] /\ r.z \in W[me.lv] \cup {Tail}
      <4>1. Visit(me, W)
        BY <2>7 DEF Told
      <4> QED
        BY <1>1, <2>1, <4>1 DEF Visit, Searching
    <3>3. Reader(me.op) /\ me.lv = 0 => SawGap(t, me.x, r.z)
      BY <2>1, <3>1 DEF Sees
    <3> QED
      BY <1>1, <1>2, <2>1, <2>2, <2>7, <3>2, <3>3, LookTold DEF CallIInv
  <2>8. UNCHANGED <<keys, stale>>
    BY <2>4 DEF call
  <2> QED
    BY <2>3, <2>5, <2>6, <2>7, <2>8, TellQuiet DEF SameWon
<1>5. CASE ~CanCas(me.x, me.lv, me.y)
  <2> PICK r : r = IF deleting[me.x][me.lv] THEN SkipFrom(me, me.z) ELSE CheckNext(me, y)
    OBVIOUS
  <2>1. SameWon(me, r)
    BY <1>1, <1>2, <1>3, SkipCheckOK, NextWon
  <2>2. Put(t, r) /\ UNCHANGED <<links, counts, keys, call>>
    BY <1>5 DEF Unlink, links
  <2>3. ASSUME NEW W, Told(t, me, W) PROVE Visit(r, W) /\ Clean(t, r) /\ Knows(t, r)
    <3>1. Sees(t, me, W, y) /\ Sees(t, me, W, me.z)
      BY <1>1, <1>2, <2>3, SeesAhead DEF CallIInv
    <3>2. \A q : q \in {SkipFrom(me, y), CheckNext(me, y)} => Visit(q, W) /\ Clean(t, q) /\ Knows(t, q)
      BY <1>1, <1>2, <2>3, <3>1, NextTold DEF CallIInv
    <3>3. \A q : q \in {SkipFrom(me, me.z), CheckNext(me, me.z)} => Visit(q, W) /\ Clean(t, q) /\ Knows(t, q)
      BY <1>1, <1>2, <1>3, <2>3, <3>1, NextTold DEF CallIInv
    <3> QED
      BY <3>2, <3>3
  <2>4. retired \subseteq retired'
    BY <2>2 DEF counts
  <2> QED
    BY <2>1, <2>2, <2>3, <2>4, TellStill
<1> QED
  BY <1>4, <1>5

\* The step Unref keeps the invariant.
LEMMA UnrefTells == ASSUME ListIInv, ListIInv', CallIInv, NEW t \in Thread, Unref(t) PROVE CallIInv'
<1> PICK me : me = th[t]
  OBVIOUS
<1>1. me.pc = "unref" /\ me.pc \in Searching
  BY DEF Unref, Searching
<1>2. /\ Types /\ Chains /\ Links /\ ThreadInv(me)
  BY <1>1, SearchFacts
<1>3. ReachedOrTail(me.z, me.lv) /\ Follows(me.x, me.z)
  BY <1>1, <1>2 DEF ThreadInv, Hands
<1> PICK r : r = CheckNext(me, me.z)
  OBVIOUS
<1>4. SameWon(me, r)
  BY <1>1, <1>2, <1>3, SkipCheckOK, NextWon
<1>5. Put(t, r) /\ DecreaseReference(me.y) /\ UNCHANGED <<links, keys, call>>
  BY DEF Unref
<1>6. ASSUME NEW W, Told(t, me, W) PROVE Visit(r, W) /\ Clean(t, r) /\ Knows(t, r)
  <2>1. Sees(t, me, W, me.z)
    BY <1>1, <1>2, <1>6, SeesAhead DEF CallIInv
  <2>2. r \in {SkipFrom(me, me.z), CheckNext(me, me.z)}
    OBVIOUS
  <2> QED
    BY <1>1, <1>2, <1>3, <1>6, <2>1, <2>2, NextTold DEF CallIInv
<1>7. retired \subseteq retired'
  BY <1>5, DropKeeps
<1> QED
  BY <1>4, <1>5, <1>6, <1>7, TellStill

-------------------------------------------------------------------------------
\* A call knows the nodes of its splice, and the top of the splice is the ends.
LEMMA AtSplice ==
  ASSUME Recorded, NEW t \in Thread, NEW me, ThreadInv(me), NEW W, Told(t, me, W),
         NEW l \in 0 .. me.sh, NEW j \in Nat, j <= l
  PROVE  Inside(W, me.prev[l], j) /\ me.prev[l] \notin stale[t] /\ me.nxt[l] \notin stale[t]
<1>1. me.sh \in 0 .. MaxHeight /\ MaxHeight \in Nat /\ Visit(me, W) /\ Clean(t, me)
  BY NodeFacts DEF ThreadInv, LocalType, Told
<1>2. CASE l = me.sh
  <2>1. me.prev[l] = Head /\ me.nxt[l] = Tail
    BY <1>1, <1>2 DEF ThreadInv, SpliceInv
  <2>2. Head \notin stale[t] /\ Tail \notin stale[t]
    BY NodeFacts DEF Recorded
  <2> QED
    BY <2>1, <2>2 DEF Inside
<1>3. CASE l # me.sh
  <2>1. l \in 0 .. me.sh - 1 /\ l \in Level
    BY <1>1, <1>3 DEF Level
  <2>2. Inside(W, me.prev[l], l)
    BY <1>1, <2>1 DEF Visit
  <2>3. Inside(W, me.prev[l], j)
    BY <2>2 DEF Inside
  <2> QED
    BY <1>1, <2>1, <2>3 DEF Clean, Known
<1> QED
  BY <1>2, <1>3

\* r is a search of me from the splice at level l, at level j
SearchesAs(me, r, l, j) ==
    /\ r.pc = "read" /\ r.lv = j /\ r.x = me.prev[l] /\ r.after \in {me.nxt[l], Tail}
    /\ r.y = me.y /\ r.z = me.z /\ r.then \in {"link0", "own", "cut"}
    /\ r.op = me.op /\ r.k = me.k /\ r.n = me.n /\ r.i = me.i /\ r.fix = me.fix
    /\ r.prev = me.prev /\ r.nxt = me.nxt /\ r.sh = me.sh

\* Such a search begins.
LEMMA SearchTold ==
  ASSUME Recorded, NEW t \in Thread, NEW me, ThreadInv(me), NEW W, Told(t, me, W), me.op \in SpliceOps,
         NEW l \in 0 .. me.sh, NEW j \in Nat, j <= l,
         NEW r, SearchesAs(me, r, l, j), Goes(me, r)
  PROVE  Visit(r, W) /\ Clean(t, r) /\ Knows(t, r)
<1>1. Inside(W, me.prev[l], j) /\ me.prev[l] \notin stale[t] /\ me.nxt[l] \notin stale[t]
  BY AtSplice
<1>2. Tail \notin stale[t]
  BY NodeFacts DEF Recorded
<1>3. me.y \notin stale[t] /\ me.z \notin stale[t]
  BY DEF Told, Clean, Known
<1>4. /\ r.op = me.op /\ r.k = me.k /\ r.n = me.n /\ r.fix = me.fix /\ r.prev = me.prev
      /\ r.nxt = me.nxt /\ r.sh = me.sh
      /\ r.pc \in (Busy \ (Searching \cup {"mark"})) \cup {"read"}
      /\ Inside(W, r.x, r.lv) /\ r.then # "pick" /\ r.i = me.i
      /\ r.x \notin stale[t] /\ r.y \notin stale[t] /\ r.z \notin stale[t] /\ r.after \notin stale[t]
  BY <1>1, <1>2, <1>3 DEF SearchesAs
<1>5. Building(r) => Building(me)
  BY DEF Goes
<1> QED
  BY <1>4, <1>5, SpliceTold

\* the erases that have changed the set: they cut, or will when they have searched
Cutting(me) == me.pc \in {"cut", "cutref"} \/ me.then = "cut"

\* A call with a splice goes on and changes nothing.
LEMMA SpliceWon ==
  ASSUME NEW me, NEW r, r.op = me.op, me.op \in SpliceOps, me.pc # "done", r.pc # "done", Goes(me, r),
         me.op # "insert" => (Cutting(r) <=> Cutting(me))
  PROVE  SameWon(me, r)
<1>1. Building(r) <=> Building(me)
  BY DEF Goes
<1> QED
  BY <1>1 DEF SameWon, Won, Cutting, SpliceOps

\* The step Probe keeps the invariant.
LEMMA ProbeTells == ASSUME ListIInv, ListIInv', CallIInv, NEW t \in Thread, Probe(t) PROVE CallIInv'
<1> PICK me : me = th[t]
  OBVIOUS
<1>1. me.pc = "probe"
  BY DEF Probe
<1>2. Types /\ Chains /\ Links /\ ThreadInv(me)
  BY NowFacts
<1>3. /\ DOMAIN me = Locals /\ me.op \in SpliceOps /\ me.probe \in Nat /\ me.probe <= me.sh /\ me.target < me.probe
      /\ me.target \in Nat /\ me.sh \in Nat /\ me.then \in {"link0", "own", "cut"}
  <2>1. LocalType(me) /\ Shape(me)
    BY <1>2 DEF ThreadInv
  <2>2. me.op \in SpliceOps
    BY <1>1, <2>1 DEF Shape, Busy, Searching
  <2>3. me.then \in {"link0", "own", "cut"}
    BY <1>1, <2>1, <2>2 DEF Shape, Busy, SpliceOps
  <2>4. me.probe <= me.sh /\ me.target < me.probe
    BY <1>1, <2>1 DEF Shape
  <2> QED
    BY <2>1, <2>2, <2>3, <2>4, NodeFacts DEF LocalType
<1>a. PICK a : a = [me EXCEPT !.probe = @ + 1]
  OBVIOUS
<1>b. PICK b : b = [Search(me, me.probe - 1, me.target, me.prev[me.probe], me.nxt[me.probe]) EXCEPT !.probe = 0]
  OBVIOUS
<1>4. /\ me.prev[me.probe] # Head => Goes(me, a)
      /\ Goes(me, b)
  BY <1>1, <1>2, <1>a, <1>b, ProbeOK
<1>5. /\ a.pc = me.pc /\ a.op = me.op /\ a.k = me.k /\ a.n = me.n /\ a.i = me.i /\ a.fix = me.fix
      /\ a.prev = me.prev /\ a.nxt = me.nxt /\ a.sh = me.sh /\ a.then = me.then
      /\ a.x = me.x /\ a.y = me.y /\ a.z = me.z /\ a.after = me.after
  BY <1>3, <1>a DEF Locals
<1>6. SearchesAs(me, b, me.probe, me.probe - 1) /\ b.then = me.then
  <2>q. PICK q : q = Search(me, me.probe - 1, me.target, me.prev[me.probe], me.nxt[me.probe])
    OBVIOUS
  <2>1. /\ DOMAIN q = Locals /\ q.pc = "read" /\ q.lv = me.probe - 1 /\ q.x = me.prev[me.probe]
        /\ q.after = me.nxt[me.probe]
        /\ \A f \in Locals \ {"pc", "lv", "target", "x", "after"} : q[f] = me[f]
    BY <1>3, <2>q, SearchIs
  <2>2. \A f \in Locals \ {"probe"} : b[f] = q[f]
    BY <1>b, <2>1, <2>q
  <2>3. /\ b.pc = "read" /\ b.lv = me.probe - 1 /\ b.x = me.prev[me.probe] /\ b.after = me.nxt[me.probe]
    BY <2>1, <2>2 DEF Locals
  <2>4. \A f \in Locals \ {"pc", "lv", "target", "x", "after", "probe"} : b[f] = me[f]
    <3>1. \A f \in Locals \ {"pc", "lv", "target", "x", "after", "probe"} : q[f] = me[f]
      BY <2>1
    <3>2. \A f \in Locals \ {"pc", "lv", "target", "x", "after", "probe"} : b[f] = q[f]
      BY <2>2
    <3> QED
      BY <3>1, <3>2
  <2>5. /\ b.y = me.y /\ b.z = me.z /\ b.then = me.then
        /\ b.op = me.op /\ b.k = me.k /\ b.n = me.n /\ b.i = me.i /\ b.fix = me.fix
        /\ b.prev = me.prev /\ b.nxt = me.nxt /\ b.sh = me.sh
    BY <2>4 DEF Locals
  <2> QED
    BY <1>3, <2>3, <2>5 DEF SearchesAs
<1>r. PICK r : r = IF me.prev[me.probe] # Head /\ deleting[me.prev[me.probe]][me.probe] THEN a ELSE b
  OBVIOUS
<1>7. Put(t, r) /\ UNCHANGED <<links, counts, keys, call>>
  BY <1>a, <1>b, <1>r DEF Probe
<1>8. Goes(me, r)
  BY <1>4, <1>r
<1>9. SameWon(me, r)
  <2>1. r.op = me.op /\ r.pc \in {"probe", "read"} /\ r.then = me.then
    BY <1>1, <1>5, <1>6, <1>r DEF SearchesAs
  <2> QED
    BY <1>1, <1>3, <1>8, <2>1, SpliceWon DEF Cutting
<1>10. ASSUME NEW W, Told(t, me, W) PROVE Visit(r, W) /\ Clean(t, r) /\ Knows(t, r)
  <2>1. CASE r = a
    <3>1. me.x \notin stale[t] /\ me.y \notin stale[t] /\ me.z \notin stale[t] /\ me.after \notin stale[t]
      BY <1>10 DEF Told, Clean, Known
    <3>2. r.pc \in (Busy \ (Searching \cup {"mark"})) \cup {"read"} /\ r.pc # "read"
      BY <1>1, <1>5, <2>1 DEF Busy, Searching
    <3>3. Building(r) => Building(me) /\ r.i = me.i
      BY <1>5, <1>8, <2>1 DEF Goes
    <3>4. /\ r.op = me.op /\ r.k = me.k /\ r.n = me.n /\ r.fix = me.fix
          /\ r.prev = me.prev /\ r.nxt = me.nxt /\ r.sh = me.sh
          /\ r.x \notin stale[t] /\ r.y \notin stale[t] /\ r.z \notin stale[t] /\ r.after \notin stale[t]
      BY <1>5, <2>1, <3>1
    <3>5. me.op \in SpliceOps
      BY <1>3
    <3> QED
      BY <1>10, <3>2, <3>3, <3>4, <3>5, SpliceTold
  <2>2. CASE r = b
    <3>1. me.probe \in 0 .. me.sh /\ me.probe - 1 \in Nat /\ me.probe - 1 <= me.probe
      BY <1>3
    <3> PICK l, j : l = me.probe /\ j = me.probe - 1
      OBVIOUS
    <3>2. l \in 0 .. me.sh /\ j \in Nat /\ j <= l /\ SearchesAs(me, r, l, j) /\ me.op \in SpliceOps
      BY <1>3, <1>6, <2>2, <3>1
    <3> QED
      BY <1>2, <1>8, <1>10, <3>2, SearchTold DEF CallIInv
  <2> QED
    BY <2>1, <2>2, <1>r
<1>11. retired \subseteq retired'
  BY <1>7 DEF counts
<1> QED
  BY <1>7, <1>9, <1>10, <1>11, TellStill

\* me goes on as r: the levels below h of its splice are searched again
RecomputesFrom(me, r, h) ==
    r = IF h = 0 THEN [me EXCEPT !.pc = "link0", !.then = "none", !.lv = 0]
        ELSE Search(me, h - 1, 0, me.prev[h], me.nxt[h])

\* The level from which a splice used again is searched.
LEMMA RecomputeIs ==
  ASSUME NEW me, me.sh \in Nat, NEW up \in 0 .. me.sh, NEW r, r = Recompute(me, up)
  PROVE  \E h \in up .. me.sh : RecomputesFrom(me, r, h)
<1> PICK sh : sh = me.sh
  OBVIOUS
<1> DEFINE wrong == {i \in up + 1 .. me.sh - 1 : Before(me.nxt[i], me.k)}
           h == IF wrong = {} THEN up ELSE 1 + CHOOSE i \in wrong : \A j \in wrong : j <= i
<1>1. h \in up .. sh
  <2>1. CASE wrong = {}
    BY <2>1
  <2>2. CASE wrong # {}
    <3> DEFINE T == {sh - i : i \in wrong}
    <3>0. \A i \in wrong : i \in Int /\ i <= sh - 1 /\ sh - i \in Nat
      OBVIOUS
    <3>1. T \in SUBSET Nat /\ T # {}
      BY <2>2, <3>0
    <3>2. PICK x \in T : \A y \in T : x <= y
      BY <3>1, Least
    <3>3. PICK w \in wrong : x = sh - w
      OBVIOUS
    <3>4. \A j \in wrong : j <= w
      <4> SUFFICES ASSUME NEW j \in wrong PROVE j <= w
        OBVIOUS
      <4>1. sh - j \in T /\ sh - w <= sh - j
        BY <3>2, <3>3
      <4>2. j \in Int /\ w \in Int
        OBVIOUS
      <4> QED
        BY <4>1, <4>2
    <3> PICK c : c = CHOOSE i \in wrong : \A j \in wrong : j <= i
      OBVIOUS
    <3>5. c \in wrong
      BY <3>4
    <3>6. h = 1 + c
      BY <2>2
    <3>7. c \in up + 1 .. sh - 1
      BY <3>5
    <3> QED
      BY <3>6, <3>7
  <2> QED
    BY <2>1, <2>2
<1>2. RecomputesFrom(me, r, h)
  BY DEF Recompute, RecomputesFrom
<1> HIDE DEF h
<1> QED
  BY <1>1, <1>2

\* The step Validate keeps the invariant.
LEMMA ValidateTells == ASSUME ListIInv, ListIInv', CallIInv, NEW t \in Thread, Validate(t) PROVE CallIInv'
<1> PICK me : me = th[t]
  OBVIOUS
<1> PICK l : l = me.lv
  OBVIOUS
<1>1. me.pc = "valid"
  BY DEF Validate
<1>2. Types /\ Chains /\ Links /\ ThreadInv(me)
  BY NowFacts
<1> PICK up : up = IF next[me.prev[l]][l] # me.nxt[l] THEN l + 1
              ELSE IF me.prev[l] # Head /\ ~Before(me.prev[l], me.k) THEN Past(me, me.prev, l)
              ELSE IF Before(me.nxt[l], me.k) THEN Past(me, me.nxt, l)
              ELSE l
  OBVIOUS
<1>3. /\ l \in 0 .. me.sh - 1 /\ me.sh \in 0 .. MaxHeight /\ me.sh \in Nat /\ MaxHeight \in Nat /\ l \in Nat
      /\ DOMAIN me = Locals /\ LocalType(me) /\ me.op = "insert" /\ me.then = "link0"
  BY <1>1, <1>2, NodeFacts DEF ThreadInv, LocalType, Shape
<1>4. Reached(me.prev[l], l) /\ me.prev[l] \in Linkable
  <2>1. SpliceInv(me)
    BY <1>2 DEF ThreadInv
  <2>2. Reached(me.prev[l], l)
    BY <1>3, <2>1 DEF SpliceInv
  <2>3. me.prev \in [0 .. MaxHeight -> Linkable] /\ l \in 0 .. MaxHeight
    BY <1>3 DEF LocalType
  <2> QED
    BY <2>2, <2>3
<1>5. \/ up = l + 1
      \/ up = Past(me, me.prev, l) /\ me.prev[l] # Head
      \/ up = Past(me, me.nxt, l) /\ me.nxt[l] # Tail
      \/ up = l /\ Bracket(me, l)
  <2>1. Before(me.nxt[l], me.k) => me.nxt[l] # Tail
    BY DEF Before
  <2>2. me.prev[l] # Head /\ Before(me.prev[l], me.k) => KeyOK(me.prev[l], me.k)
    BY <1>4 DEF Before, KeyOK, Linkable
  <2>3. me.prev[l] = Head => KeyOK(me.prev[l], me.k)
    BY DEF KeyOK
  <2>4. KeyOK(me.prev[l], me.k) /\ ~Before(me.nxt[l], me.k) => Bracket(me, l)
    BY DEF Bracket
  <2> QED
    BY <2>1, <2>2, <2>3, <2>4
<1>6. up \in 0 .. me.sh
  <2>1. me.prev[me.sh] = Head /\ me.nxt[me.sh] = Tail
    BY <1>2, <1>3 DEF ThreadInv, SpliceInv
  <2>2. up \in l .. me.sh
    <3>1. CASE up = l + 1 \/ up = l
      BY <1>3, <3>1
    <3>2. CASE up = Past(me, me.prev, l) /\ me.prev[l] # Head
      <4>1. up \in l + 1 .. me.sh
        BY <1>3, <2>1, <3>2, PastIs
      <4> QED
        BY <1>3, <4>1
    <3>3. CASE up = Past(me, me.nxt, l) /\ me.nxt[l] # Tail
      <4>1. up \in l + 1 .. me.sh
        BY <1>3, <2>1, <3>3, PastIs
      <4> QED
        BY <1>3, <4>1
    <3> QED
      BY <1>5, <3>1, <3>2, <3>3
  <2> QED
    BY <1>3, <2>2
<1>r. PICK r : r = IF l < up /\ up < me.sh THEN [me EXCEPT !.lv = up] ELSE Recompute(me, up)
  OBVIOUS
<1>7. Goes(me, r)
  BY <1>1, <1>2, <1>5, <1>r, ValidateOK
<1>8. Put(t, r) /\ UNCHANGED <<links, counts, keys, call>>
  BY <1>r DEF Validate
<1>9. \/ /\ r.pc \in {"valid", "link0"} /\ r.op = me.op /\ r.k = me.k /\ r.n = me.n /\ r.i = me.i /\ r.fix = me.fix
         /\ r.prev = me.prev /\ r.nxt = me.nxt /\ r.sh = me.sh
         /\ r.x = me.x /\ r.y = me.y /\ r.z = me.z /\ r.after = me.after
      \/ \E h \in 1 .. me.sh : SearchesAs(me, r, h, h - 1)
  <2>1. CASE l < up /\ up < me.sh
    <3>1. r = [me EXCEPT !.lv = up]
      BY <1>r, <2>1
    <3> QED
      BY <1>1, <1>3, <3>1 DEF Locals
  <2>2. CASE ~(l < up /\ up < me.sh)
    <3>1. PICK h \in up .. me.sh : RecomputesFrom(me, r, h)
      <4>1. r = Recompute(me, up)
        BY <1>r, <2>2
      <4> QED
        BY <1>3, <1>6, <4>1, RecomputeIs
    <3>2. CASE h = 0
      <4>1. r = [me EXCEPT !.pc = "link0", !.then = "none", !.lv = 0]
        BY <3>1, <3>2 DEF RecomputesFrom
      <4> QED
        BY <1>3, <4>1 DEF Locals
    <3>3. CASE h # 0
      <4> PICK from, x, after : from = h - 1 /\ x = me.prev[h] /\ after = me.nxt[h]
        OBVIOUS
      <4>1. r = Search(me, from, 0, x, after) /\ h \in 1 .. me.sh
        BY <1>3, <1>6, <3>1, <3>3 DEF RecomputesFrom
      <4>2. /\ DOMAIN r = Locals /\ r.pc = "read" /\ r.lv = from /\ r.x = x /\ r.after = after
            /\ \A f \in Locals \ {"pc", "lv", "target", "x", "after"} : r[f] = me[f]
        BY <1>3, <4>1, SearchIs
      <4>3. SearchesAs(me, r, h, h - 1)
        BY <1>3, <4>2 DEF SearchesAs, Locals
      <4> QED
        BY <4>1, <4>3
    <3> QED
      BY <3>2, <3>3
  <2> QED
    BY <2>1, <2>2
<1>10. SameWon(me, r)
  <2>1. r.op = me.op /\ r.pc # "done"
    BY <1>9 DEF SearchesAs
  <2> QED
    BY <1>1, <1>3, <1>7, <2>1, SpliceWon DEF SpliceOps
<1>11. ASSUME NEW W, Told(t, me, W) PROVE Visit(r, W) /\ Clean(t, r) /\ Knows(t, r)
  <2>0. me.op \in SpliceOps
    BY <1>3 DEF SpliceOps
  <2>1. ASSUME NEW h \in 1 .. me.sh, SearchesAs(me, r, h, h - 1)
        PROVE  Visit(r, W) /\ Clean(t, r) /\ Knows(t, r)
    <3>1. h \in 0 .. me.sh /\ h - 1 \in Nat /\ h - 1 <= h
      BY <1>3
    <3> PICK j : j = h - 1
      OBVIOUS
    <3>2. j \in Nat /\ j <= h /\ SearchesAs(me, r, h, j)
      BY <2>1, <3>1
    <3> QED
      BY <1>2, <1>7, <1>11, <2>0, <3>1, <3>2, SearchTold DEF CallIInv
  <2>2. CASE /\ r.pc \in {"valid", "link0"} /\ r.op = me.op /\ r.k = me.k /\ r.n = me.n /\ r.i = me.i /\ r.fix = me.fix
             /\ r.prev = me.prev /\ r.nxt = me.nxt /\ r.sh = me.sh
             /\ r.x = me.x /\ r.y = me.y /\ r.z = me.z /\ r.after = me.after
    <3>1. me.x \notin stale[t] /\ me.y \notin stale[t] /\ me.z \notin stale[t] /\ me.after \notin stale[t]
      BY <1>11 DEF Told, Clean, Known
    <3>2. r.pc \in (Busy \ (Searching \cup {"mark"})) \cup {"read"} /\ r.pc # "read"
      BY <2>2 DEF Busy, Searching
    <3>3. Building(r) => Building(me) /\ r.i = me.i
      BY <1>7, <2>2 DEF Goes
    <3>4. r.x \notin stale[t] /\ r.y \notin stale[t] /\ r.z \notin stale[t] /\ r.after \notin stale[t]
      BY <2>2, <3>1
    <3> QED
      BY <1>11, <2>0, <2>2, <3>2, <3>3, <3>4, SpliceTold
  <2> QED
    BY <1>9, <2>1, <2>2
<1>12. retired \subseteq retired'
  BY <1>8 DEF counts
<1> QED
  BY <1>8, <1>10, <1>11, <1>12, TellStill

-------------------------------------------------------------------------------
\* A level is searched again, or refresh_splice begins to look for a better one.
LEMMA RepairTold ==
  ASSUME ListIInv, Recorded, NEW t \in Thread, NEW me, ThreadInv(me), me.pc \in {"link0", "own", "undo", "cut"},
         NEW bad, NEW then, then = IF me.pc = "undo" THEN "own" ELSE me.pc,
         NEW q, q = Repair(me, me.i, bad, then), NEW r, r \in {q, [q EXCEPT !.bad = FALSE, !.tight = FALSE]},
         Goes(me, r)
  PROVE  /\ SameWon(me, r)
         /\ \A W : Told(t, me, W) => Visit(r, W) /\ Clean(t, r) /\ Knows(t, r)
<1>1. /\ LocalType(me) /\ Shape(me) /\ DOMAIN me = Locals /\ me.op \in SpliceOps /\ me.i \in Nat /\ me.sh \in Nat
      /\ me.pc \in {"link0", "own", "undo"} => me.op = "insert"
      /\ me.pc = "cut" => me.op # "insert"
      /\ me.then = "none"
  BY DEF ThreadInv, LocalType, Shape, Busy, Searching, SpliceOps
<1>2. me.i < me.sh
  <2>1. CASE me.pc = "link0"
    <3>1. Fresh(me) /\ Owner(me)
      BY <1>1, <2>1 DEF Fresh, Owner
    <3>2. me.i = 0 /\ me.n \in Node /\ height[me.n] > 0 /\ height[me.n] <= me.sh
      BY <2>1, <3>1 DEF ThreadInv, NodeInv
    <3> QED
      BY <1>1, <3>2, NowFacts, NodeFacts DEF Types
  <2>2. CASE me.pc \in {"own", "undo"}
    BY <2>2, NowFacts, BuildingFacts
  <2>3. CASE me.pc = "cut"
    <3>1. me.n \in Node /\ me.i < height[me.n] /\ height[me.n] <= me.sh
      BY <2>3 DEF ThreadInv, NodeInv
    <3> QED
      BY <1>1, <3>1, NowFacts, NodeFacts DEF Types
  <2> QED
    BY <2>1, <2>2, <2>3
<1>3. then \in {"link0", "own", "cut"} /\ (me.op # "insert" => then = "cut" /\ me.pc = "cut")
  BY <1>1
<1>4. CASE bad
  <2>1. q = [me EXCEPT !.pc = "probe", !.probe = me.i + 1, !.target = me.i, !.then = then]
    BY <1>4 DEF Repair
  <2>2. DOMAIN q = Locals /\ q.pc = "probe" /\ q.then = then
        /\ \A f \in Locals \ {"pc", "probe", "target", "then"} : q[f] = me[f]
    BY <1>1, <2>1 DEF Locals
  <2>3. r.pc = q.pc /\ r.then = q.then /\ \A f \in Locals \ {"bad", "tight"} : r[f] = q[f]
    BY <2>2 DEF Locals
  <2>4. /\ r.pc = "probe" /\ r.then = then /\ r.op = me.op /\ r.k = me.k /\ r.n = me.n /\ r.i = me.i
        /\ r.fix = me.fix /\ r.prev = me.prev /\ r.nxt = me.nxt /\ r.sh = me.sh
        /\ r.x = me.x /\ r.y = me.y /\ r.z = me.z /\ r.after = me.after
    BY <2>2, <2>3 DEF Locals
  <2>5. SameWon(me, r)
    BY <1>1, <1>3, <2>4, SpliceWon DEF Cutting
  <2>6. ASSUME NEW W, Told(t, me, W) PROVE Visit(r, W) /\ Clean(t, r) /\ Knows(t, r)
    <3>1. me.x \notin stale[t] /\ me.y \notin stale[t] /\ me.z \notin stale[t] /\ me.after \notin stale[t]
      BY <2>6 DEF Told, Clean, Known
    <3>2. r.pc \in (Busy \ (Searching \cup {"mark"})) \cup {"read"} /\ r.pc # "read"
      BY <2>4 DEF Busy, Searching
    <3>3. Building(r) => Building(me) /\ r.i = me.i
      BY <2>4 DEF Goes
    <3> QED
      BY <1>1, <2>4, <2>6, <3>1, <3>2, <3>3, SpliceTold
  <2> QED
    BY <2>5, <2>6
<1>5. CASE ~bad
  <2> PICK s : s = Search(me, me.i, me.i, me.prev[me.i], Tail)
    OBVIOUS
  <2>1. q = [s EXCEPT !.then = then]
    BY <1>5 DEF Repair
  <2>2. /\ DOMAIN s = Locals /\ s.pc = "read" /\ s.lv = me.i /\ s.x = me.prev[me.i] /\ s.after = Tail
        /\ \A f \in Locals \ {"pc", "lv", "target", "x", "after"} : s[f] = me[f]
    BY <1>1, SearchIs
  <2>3. DOMAIN q = Locals /\ q.then = then /\ \A f \in Locals \ {"then"} : q[f] = s[f]
    BY <2>1, <2>2 DEF Locals
  <2>4. r.pc = q.pc /\ r.then = q.then /\ \A f \in Locals \ {"bad", "tight"} : r[f] = q[f]
    BY <2>3 DEF Locals
  <2>5. \A f \in Locals \ {"bad", "tight", "then"} : r[f] = s[f]
    BY <2>3, <2>4
  <2>6. SearchesAs(me, r, me.i, me.i)
    BY <1>3, <2>2, <2>3, <2>4, <2>5 DEF SearchesAs, Locals
  <2>7. r.op = me.op /\ r.pc = "read" /\ r.then = then
    BY <2>3, <2>4, <2>6 DEF SearchesAs
  <2>8. SameWon(me, r)
    BY <1>1, <1>3, <2>7, SpliceWon DEF Cutting
  <2>9. ASSUME NEW W, Told(t, me, W) PROVE Visit(r, W) /\ Clean(t, r) /\ Knows(t, r)
    <3>1. me.i \in 0 .. me.sh /\ me.i \in Nat /\ me.i <= me.i
      BY <1>1, <1>2
    <3> QED
      BY <1>1, <2>6, <2>9, <3>1, SearchTold
  <2> QED
    BY <2>8, <2>9
<1> QED
  BY <1>4, <1>5

\* After a compare-exchange that failed, or that need not be tried.
LEMMA RepairTells ==
  ASSUME ListIInv, ListIInv', CallIInv, NEW t \in Thread, NEW me, me = th[t], me.pc \in {"link0", "own", "cut"},
         NEW bad, bad \in BOOLEAN, Put(t, Repair(me, me.i, bad, me.pc)), UNCHANGED <<links, counts, keys, call>>
  PROVE  CallIInv'
<1>1. Types /\ Chains /\ Links /\ ThreadInv(me)
  BY NowFacts
<1> PICK then : then = me.pc
  OBVIOUS
<1> PICK r : r = Repair(me, me.i, bad, then)
  OBVIOUS
<1>2. Goes(me, r)
  BY <1>1, RepairOK
<1>3. SameWon(me, r) /\ \A W : Told(t, me, W) => Visit(r, W) /\ Clean(t, r) /\ Knows(t, r)
  BY <1>1, <1>2, RepairTold DEF CallIInv
<1>4. retired \subseteq retired' /\ Put(t, r) /\ UNCHANGED <<links, keys, call>>
  BY DEF counts
<1> QED
  BY <1>3, <1>4, TellStill

\* The step Dirty keeps the invariant.
LEMMA DirtyTells == ASSUME ListIInv, ListIInv', CallIInv, NEW t \in Thread, Dirty(t) PROVE CallIInv'
<1> PICK me : me = th[t]
  OBVIOUS
<1>1. me.pc = "own"
  BY DEF Dirty
<1>2. Types /\ Chains /\ Links /\ ThreadInv(me)
  BY NowFacts
<1>3. me.i \in Level /\ Reached(me.prev[me.i], me.i)
  BY <1>1, <1>2, BuildingFacts
<1> PICK bad : bad = deleting[me.prev[me.i]][me.i]
  OBVIOUS
<1>4. bad \in BOOLEAN
  BY <1>2, <1>3, MarkType
<1>5. Put(t, Repair(me, me.i, bad, "own")) /\ UNCHANGED <<links, counts, keys, call>>
  BY DEF Dirty
<1> QED
  BY <1>1, <1>4, <1>5, RepairTells

\* The step Undo keeps the invariant.
LEMMA UndoTells == ASSUME ListIInv, ListIInv', CallIInv, NEW t \in Thread, Undo(t) PROVE CallIInv'
<1> PICK me : me = th[t]
  OBVIOUS
<1>1. me.pc = "undo"
  BY DEF Undo
<1>2. Types /\ Chains /\ Links /\ ThreadInv(me)
  BY NowFacts
<1> PICK bad : bad = me.bad
  OBVIOUS
<1>3. bad \in BOOLEAN
  BY <1>2 DEF ThreadInv, LocalType
<1> PICK then : then = "own"
  OBVIOUS
<1> PICK q : q = Repair(me, me.i, bad, then)
  OBVIOUS
<1>4. ThreadInv(q) /\ Goes(me, q)
  BY <1>1, <1>2, <1>3, RepairOK
<1> PICK r : r = [q EXCEPT !.bad = FALSE, !.tight = FALSE]
  OBVIOUS
<1>5. Goes(me, r)
  BY <1>4, BadIsFree
<1>6. then = IF me.pc = "undo" THEN "own" ELSE me.pc
  BY <1>1
<1>7. SameWon(me, r) /\ \A W : Told(t, me, W) => Visit(r, W) /\ Clean(t, r) /\ Knows(t, r)
  BY <1>1, <1>2, <1>5, <1>6, RepairTold DEF CallIInv
<1>8. Put(t, r) /\ DecreaseReference(me.n) /\ UNCHANGED <<links, keys, call>>
  BY DEF Undo
<1>9. retired \subseteq retired'
  BY <1>8, DropKeeps
<1> QED
  BY <1>7, <1>8, <1>9, TellStill

-------------------------------------------------------------------------------
\* A call that has changed the set ends, and says so.
LEMMA SuccessTold ==
  ASSUME Recorded, NEW t \in Thread, NEW me, me.op \in SpliceOps, Won(me), NEW r, r = Finish(me, TRUE)
  PROVE  /\ SameWon(me, r)
         /\ \A W : Told(t, me, W) => Visit(r, W) /\ Clean(t, r) /\ Knows(t, r)
<1>1. EndAs(me, r, TRUE) /\ r.n = Tail
  <2> PICK b : b = TRUE
    OBVIOUS
  <2>1. EndAs(me, r, b) /\ r.n = Tail
    BY EndIs
  <2> QED
    BY <2>1 DEF EndAs
<1>2. SameWon(me, r)
  BY <1>1 DEF SameWon, Won, EndAs
<1>3. r.n \notin stale[t]
  BY <1>1, NodeFacts DEF Recorded
<1>4. Answer(t, r)
  BY <1>1 DEF Answer, EndAs, SpliceOps
<1> QED
  BY <1>1, <1>2, <1>3, <1>4, DoneTold

\* The next level to cut, or the end.
LEMMA CutNextTold ==
  ASSUME ListIInv, Recorded, NEW t \in Thread, NEW me, ThreadInv(me), me.pc \in {"cut", "cutref"},
         NEW r, r = CutNext(me)
  PROVE  /\ SameWon(me, r)
         /\ \A W : Told(t, me, W) => Visit(r, W) /\ Clean(t, r) /\ Knows(t, r)
<1>1. /\ DOMAIN me = Locals /\ me.op \in {"erase", "erase_node"} /\ me.op \in SpliceOps /\ Won(me)
  BY DEF ThreadInv, LocalType, Shape, SpliceOps, Won
<1>2. CASE me.i = 0
  <2>1. r = Finish(me, TRUE)
    BY <1>2 DEF CutNext
  <2> QED
    BY <1>1, <2>1, SuccessTold
<1>3. CASE me.i # 0
  <2>1. r = [me EXCEPT !.pc = "cut", !.i = @ - 1]
    BY <1>3 DEF CutNext
  <2>2. /\ r.pc = "cut" /\ r.op = me.op /\ r.k = me.k /\ r.n = me.n /\ r.fix = me.fix
        /\ r.prev = me.prev /\ r.nxt = me.nxt /\ r.sh = me.sh
        /\ r.x = me.x /\ r.y = me.y /\ r.z = me.z /\ r.after = me.after
    BY <1>1, <2>1 DEF Locals
  <2>3. SameWon(me, r)
    BY <1>1, <2>2 DEF SameWon, Won
  <2>4. ~Building(r)
    BY <1>1, <2>2 DEF Building
  <2>5. ASSUME NEW W, Told(t, me, W) PROVE Visit(r, W) /\ Clean(t, r) /\ Knows(t, r)
    <3>1. me.x \notin stale[t] /\ me.y \notin stale[t] /\ me.z \notin stale[t] /\ me.after \notin stale[t]
      BY <2>5 DEF Told, Clean, Known
    <3>2. r.pc \in (Busy \ (Searching \cup {"mark"})) \cup {"read"} /\ r.pc # "read"
      BY <2>2 DEF Busy, Searching
    <3> QED
      BY <1>1, <2>2, <2>4, <2>5, <3>1, <3>2, SpliceTold
  <2> QED
    BY <2>3, <2>5
<1> QED
  BY <1>2, <1>3

\* Only the program counter changes.
LEMMA PcTold ==
  ASSUME NEW t \in Thread, NEW me, me.op \in SpliceOps, me.pc # "done",
         NEW pc \in {"ref", "link", "undo", "cutref"}, NEW r, OnlyPc(me, r, pc), Building(r) <=> Building(me),
         me.op = "insert" \/ (me.pc = "cut" /\ pc = "cutref")
  PROVE  /\ SameWon(me, r)
         /\ \A W : Told(t, me, W) => Visit(r, W) /\ Clean(t, r) /\ Knows(t, r)
<1>1. /\ r.pc = pc /\ r.op = me.op /\ r.k = me.k /\ r.n = me.n /\ r.i = me.i
      /\ r.prev = me.prev /\ r.nxt = me.nxt /\ r.sh = me.sh
      /\ r.x = me.x /\ r.y = me.y /\ r.z = me.z /\ r.after = me.after
  BY OnlyPcFields
<1>2. r.fix = me.fix
  BY DEF OnlyPc, Locals
<1>3. SameWon(me, r)
  BY <1>1 DEF SameWon, Won
<1>4. ASSUME NEW W, Told(t, me, W) PROVE Visit(r, W) /\ Clean(t, r) /\ Knows(t, r)
  <2>1. me.x \notin stale[t] /\ me.y \notin stale[t] /\ me.z \notin stale[t] /\ me.after \notin stale[t]
    BY <1>4 DEF Told, Clean, Known
  <2>2. r.pc \in (Busy \ (Searching \cup {"mark"})) \cup {"read"} /\ r.pc # "read"
    BY <1>1 DEF Busy, Searching
  <2> QED
    BY <1>1, <1>2, <1>4, <2>1, <2>2, SpliceTold
<1> QED
  BY <1>3, <1>4

\* An insert ends because its node is marked where it is not linked yet.
LEMMA AbortTells ==
  ASSUME ListIInv, ListIInv', CallIInv, NEW t \in Thread, NEW me, me = th[t], me.pc \in {"own", "ref"},
         Put(t, Finish(me, TRUE)), UNCHANGED <<links, counts, keys, call>>
  PROVE  CallIInv'
<1>1. me.op \in SpliceOps /\ Won(me)
  BY NowFacts, BuildingFacts DEF Won, SpliceOps
<1> PICK r : r = Finish(me, TRUE)
  OBVIOUS
<1>2. SameWon(me, r) /\ \A W : Told(t, me, W) => Visit(r, W) /\ Clean(t, r) /\ Knows(t, r)
  BY <1>1, SuccessTold DEF CallIInv
<1>3. retired \subseteq retired' /\ Put(t, r) /\ UNCHANGED <<links, keys, call>>
  BY DEF counts
<1> QED
  BY <1>2, <1>3, TellStill

\* The step Own keeps the invariant.
LEMMA OwnTells == ASSUME ListIInv, ListIInv', CallIInv, NEW t \in Thread, Own(t) PROVE CallIInv'
<1> PICK me : me = th[t]
  OBVIOUS
<1>1. me.pc = "own" /\ ~IsDirty(me)
  BY DEF Own
<1>2. Types /\ Chains /\ ThreadInv(me) /\ LocalType(me) /\ DOMAIN th = Thread
  BY NowFacts DEF Threads, ThreadInv
<1>3. me.i \in Level /\ me.n \in Node /\ me.op = "insert" /\ me.op \in SpliceOps /\ me.n \notin Chain(me.i) /\ Building(me)
  BY <1>1, <1>2, BuildingFacts DEF SpliceOps
<1>4. CASE deleting[me.n][me.i]
  <2>1. Put(t, Finish(me, TRUE)) /\ UNCHANGED <<links, counts, keys, call>>
    BY <1>4 DEF Own, links
  <2> QED
    BY <1>1, <2>1, AbortTells
<1>5. CASE ~deleting[me.n][me.i]
  <2> PICK r : r = [me EXCEPT !.pc = "ref"]
    OBVIOUS
  <2>1. /\ Put(t, r) /\ next' = [next EXCEPT ![me.n][me.i] = me.nxt[me.i]]
        /\ UNCHANGED <<deleting, counts, keys, call>>
    BY <1>5 DEF Own
  <2>2. OnlyPc(me, r, "ref")
    BY <1>2, OnlyPcIs DEF Busy
  <2>3. Moves(t, r)
    BY <1>2, <2>1, PutMoves
  <2>4. Building(r) <=> Building(me)
    <3>1. r.pc = "ref" /\ r.op = me.op /\ r.then = me.then /\ me.then # "link0"
      BY <1>3, <2>2, OnlyPcFields DEF Building
    <3> QED
      BY <1>3, <3>1 DEF Building, Busy
  <2>5. SameWon(me, r) /\ \A W : Told(t, me, W) => Visit(r, W) /\ Clean(t, r) /\ Knows(t, r)
    BY <1>1, <1>3, <2>2, <2>4, PcTold
  <2>6. \A m \in Linkable, l \in Level : m # me.n \/ l # me.i => next'[m][l] = next[m][l]
    BY <1>2, <1>3, <2>1 DEF Types, Linkable
  <2>7. \A l \in Level : Chain(l) \subseteq Node
    BY <1>2 DEF Chains, IsChain
  <2>8. \A l \in Level : \A x \in Chain(l) \cup {Head} : next'[x][l] = next[x][l]
    BY <1>3, <2>6, <2>7, NodeFacts DEF Linkable
  <2>9. \A l \in Level : Chain(l)' = Chain(l)
    BY <1>2, <2>8, ChainsSame
  <2>10. Onward
    BY <1>5, <2>1, <2>6, <2>9, OnwardChains DEF Linkable, counts
  <2>11. UNCHANGED <<keys, stale>>
    BY <2>1 DEF call
  <2> QED
    BY <2>3, <2>5, <2>10, <2>11, TellQuiet DEF SameWon
<1> QED
  BY <1>4, <1>5

\* The step Ref keeps the invariant.
LEMMA RefTells == ASSUME ListIInv, ListIInv', CallIInv, NEW t \in Thread, Ref(t) PROVE CallIInv'
<1> PICK me : me = th[t]
  OBVIOUS
<1>1. me.pc = "ref"
  BY DEF Ref
<1>2. Types /\ ThreadInv(me) /\ LocalType(me)
  BY NowFacts DEF ThreadInv
<1>3. me.op = "insert" /\ me.op \in SpliceOps /\ Building(me)
  BY <1>1, <1>2, BuildingFacts DEF SpliceOps
<1>4. CASE refs[me.n] = 0
  <2>1. Put(t, Finish(me, TRUE)) /\ UNCHANGED <<links, counts, keys, call>>
    BY <1>4 DEF Ref, counts
  <2> QED
    BY <1>1, <2>1, AbortTells
<1>5. CASE refs[me.n] # 0
  <2> PICK r : r = [me EXCEPT !.pc = "link"]
    OBVIOUS
  <2>1. Put(t, r) /\ UNCHANGED <<links, retired, keys, call>>
    BY <1>5 DEF Ref
  <2>2. OnlyPc(me, r, "link")
    BY <1>2, OnlyPcIs DEF Busy
  <2>3. Building(r) <=> Building(me)
    BY <1>1, <1>2, <2>2, PcOK
  <2>4. SameWon(me, r) /\ \A W : Told(t, me, W) => Visit(r, W) /\ Clean(t, r) /\ Knows(t, r)
    BY <1>1, <1>3, <2>2, <2>3, PcTold
  <2> QED
    BY <2>1, <2>4, TellStill
<1> QED
  BY <1>4, <1>5

\* The step Cut keeps the invariant.
LEMMA CutTells == ASSUME ListIInv, ListIInv', CallIInv, NEW t \in Thread, Cut(t) PROVE CallIInv'
<1> PICK me : me = th[t]
  OBVIOUS
<1> PICK p : p = me.prev[me.i]
  OBVIOUS
<1>1. me.pc = "cut"
  BY DEF Cut
<1>2. Types /\ Chains /\ Links /\ DOMAIN th = Thread
  BY NowFacts DEF ListIInv, Threads
<1>3. /\ ThreadInv(me) /\ ~Fresh(me) /\ ~Building(me)
      /\ me.n \in Node /\ me.i \in Level /\ deleting[me.n][me.i]
      /\ Reached(p, me.i)
  BY <1>1, CutFacts
<1>4. me.op \in SpliceOps /\ LocalType(me)
  BY <1>1, <1>3 DEF ThreadInv, Shape, SpliceOps
<1>5. CASE me.nxt[me.i] # me.n
  <2> PICK r : r = CutNext(me)
    OBVIOUS
  <2>1. SameWon(me, r) /\ \A W : Told(t, me, W) => Visit(r, W) /\ Clean(t, r) /\ Knows(t, r)
    BY <1>1, <1>3, CutNextTold DEF CallIInv
  <2>2. Put(t, r) /\ UNCHANGED <<links, counts, keys, call>>
    BY <1>5 DEF Cut, links
  <2>3. retired \subseteq retired'
    BY <2>2 DEF counts
  <2> QED
    BY <2>1, <2>2, <2>3, TellStill
<1>6. CASE me.nxt[me.i] = me.n /\ CanCas(p, me.i, me.n)
  <2> PICK r : r = [me EXCEPT !.pc = "cutref"]
    OBVIOUS
  <2>1. OnlyPc(me, r, "cutref")
    BY <1>4, OnlyPcIs DEF Busy
  <2>2. Building(r) <=> Building(me)
    BY <1>1, <1>3, <2>1, PcOK
  <2>3. SameWon(me, r) /\ \A W : Told(t, me, W) => Visit(r, W) /\ Clean(t, r) /\ Knows(t, r)
    BY <1>1, <1>4, <2>1, <2>2, PcTold
  <2>4. Put(t, r) /\ next' = [next EXCEPT ![p][me.i] = next[me.n][me.i]] /\ UNCHANGED <<deleting, counts, keys, call>>
    BY <1>6 DEF Cut
  <2>5. Moves(t, r)
    BY <1>2, <2>4, PutMoves
  <2> PICK y : y = me.n
    OBVIOUS
  <2> PICK l : l = me.i
    OBVIOUS
  <2>6. /\ l \in Level /\ Reached(p, l) /\ y \in Node /\ CanCas(p, l, y) /\ deleting[y][l]
        /\ Relinks(p, l, next[y][l]) /\ deleting' = deleting /\ retired' = retired
    BY <1>3, <1>6, <2>4 DEF Relinks, counts
  <2>7. Onward
    BY <2>6, CutOnward
  <2>8. UNCHANGED <<keys, stale>>
    BY <2>4 DEF call
  <2> QED
    BY <2>3, <2>5, <2>7, <2>8, TellQuiet DEF SameWon
<1>7. CASE me.nxt[me.i] = me.n /\ ~CanCas(p, me.i, me.n)
  <2> PICK bad : bad = deleting[p][me.i]
    OBVIOUS
  <2>1. bad \in BOOLEAN
    BY <1>2, <1>3, MarkType
  <2>2. Put(t, Repair(me, me.i, bad, "cut")) /\ UNCHANGED <<links, counts, keys, call>>
    BY <1>7 DEF Cut, links
  <2> QED
    BY <1>1, <2>1, <2>2, RepairTells
<1> QED
  BY <1>5, <1>6, <1>7

\* The step CutRef keeps the invariant.
LEMMA CutRefTells == ASSUME ListIInv, ListIInv', CallIInv, NEW t \in Thread, CutRef(t) PROVE CallIInv'
<1> PICK me : me = th[t]
  OBVIOUS
<1>1. me.pc = "cutref"
  BY DEF CutRef
<1>2. ThreadInv(me)
  BY NowFacts
<1> PICK r : r = CutNext(me)
  OBVIOUS
<1>3. SameWon(me, r) /\ \A W : Told(t, me, W) => Visit(r, W) /\ Clean(t, r) /\ Knows(t, r)
  BY <1>1, <1>2, CutNextTold DEF CallIInv
<1>4. Put(t, r) /\ DecreaseReference(me.n) /\ UNCHANGED <<links, keys, call>>
  BY DEF CutRef
<1>5. retired \subseteq retired'
  BY <1>4, DropKeeps
<1> QED
  BY <1>3, <1>4, <1>5, TellStill

-------------------------------------------------------------------------------
\* What the fields of an insert that ends are, besides its splice.
LEMMA LeaveRest ==
  ASSUME NEW t, NEW b, NEW prev, NEW r, r = Leave(t, b, prev)
  PROVE  r.x = Head /\ r.y = Tail /\ r.z = Tail /\ r.after = Tail /\ r.fix = th[t].fix
<1> PICK me : me = th[t]
  OBVIOUS
<1> PICK q : q = Finish(me, b)
  OBVIOUS
<1>1. DOMAIN q = Locals /\ q.x = Head /\ q.y = Tail /\ q.z = Tail /\ q.after = Tail
  BY DEF Finish, Done, IdleThread, Locals
<1> PICK e : e = [q EXCEPT !.n = me.n, !.fix = me.fix, !.alone = me.alone]
  OBVIOUS
<1>2. DOMAIN e = Locals /\ e.x = Head /\ e.y = Tail /\ e.z = Tail /\ e.after = Tail /\ e.fix = me.fix
  BY <1>1 DEF Locals
<1>3. r = IF Reuses(t) /\ me.tight THEN [e EXCEPT !.prev = prev, !.nxt = me.nxt, !.sh = me.sh] ELSE e
  BY DEF Leave
<1> QED
  BY <1>2, <1>3 DEF Locals

\* An insert ends, with a splice of nodes that were linked in its time.
LEMMA LeftTold ==
  ASSUME Recorded, NEW t \in Thread, NEW me, LocalType(me), me.op = "insert",
         NEW W, Told(t, me, W), NEW V, NEW b, NEW prev,
         \A l \in 0 .. me.sh - 1 : Inside(V, prev[l], l), \A l \in Level : prev[l] \notin stale[t],
         ~b => Is(me.nxt[0], me.k),
         NEW r, LeftAs(me, r, b, prev),
         r.x = Head, r.y = Tail, r.z = Tail, r.after = Tail, r.fix = me.fix
  PROVE  Visit(r, V) /\ Clean(t, r) /\ Knows(t, r)
<1>1. Head \notin stale[t] /\ Tail \notin stale[t] /\ 0 \in Level /\ MaxHeight \in Nat
  BY NodeFacts DEF Recorded
<1>2. Clean(t, me) /\ Asks(t, me) /\ Sights(t, me)
  BY DEF Told, Knows
<1>3. r.pc = "done" /\ r.op = me.op /\ r.k = me.k /\ r.n = me.n /\ r.i = 0 /\ r.res = b /\ r.then = "none"
  BY DEF LeftAs
<1>4. CASE r.sh = 0 /\ r.prev = [l \in 0 .. MaxHeight |-> Head] /\ r.nxt = [l \in 0 .. MaxHeight |-> Tail]
  <2>1. 0 .. r.sh - 1 = {}
    BY <1>4
  <2>2. Visit(r, V)
    BY <1>3, <2>1 DEF Visit, Searching, Building, Busy
  <2>3. \A l \in Level : r.prev[l] = Head /\ r.nxt[l] = Tail
    BY <1>1, <1>4 DEF Level
  <2>4. Known(r) \subseteq {me.n, Head, Tail}
    BY <1>3, <2>3 DEF Known
  <2>5. Clean(t, r)
    BY <1>1, <1>2, <1>3, <2>4 DEF Clean, Known
  <2>6. SawIn(t, r.nxt[0])
    BY <1>1, <2>3, NodeFacts DEF SawIn
  <2> QED
    <3>1. Asks(t, r)
      BY <1>2, <1>3 DEF Asks
    <3>2. Sights(t, r)
      BY <1>3, <2>6 DEF Sights, Searching, Reader
    <3>3. Answer(t, r)
      <4>1. ASSUME ~b, me.fix = "fresh" PROVE TRUE \in seen[t][me.k]
        <5>1. me.nxt[0] \in Node /\ Key[me.nxt[0]] = me.k
          BY <1>1, <4>1 DEF Is, LocalType, Some
        <5>2. SawIn(t, me.nxt[0]) /\ seen[t][me.k] # {}
          BY <1>2, <4>1 DEF Sights, Asks, SpliceOps
        <5> QED
          BY <5>1, <5>2 DEF SawIn
      <4> QED
        BY <1>3, <4>1 DEF Answer
    <3> QED
      BY <2>2, <2>5, <3>1, <3>2, <3>3 DEF Knows
<1>5. CASE r.sh = me.sh /\ r.prev = prev /\ r.nxt = me.nxt
  <2>1. Visit(r, V)
    BY <1>3, <1>5 DEF Visit, Searching, Building, Busy
  <2>2. Known(r) \subseteq {me.n, Head, Tail} \cup {prev[l] : l \in Level} \cup {me.nxt[l] : l \in Level}
    BY <1>3, <1>5 DEF Known
  <2>3. Clean(t, r)
    BY <1>1, <1>2, <1>3, <2>2 DEF Clean, Known
  <2>4. me.fix = "fresh" => SawIn(t, me.nxt[0])
    BY <1>2 DEF Sights
  <2>5. Asks(t, r)
    BY <1>2, <1>3 DEF Asks
  <2>6. Sights(t, r)
    BY <1>3, <1>5, <2>4 DEF Sights, Searching, Reader
  <2>7. Answer(t, r)
    <3>1. ASSUME ~b, me.fix = "fresh" PROVE TRUE \in seen[t][me.k]
      <4>1. me.nxt[0] \in Node /\ Key[me.nxt[0]] = me.k
        BY <1>1, <3>1 DEF Is, LocalType, Some
      <4>2. SawIn(t, me.nxt[0]) /\ seen[t][me.k] # {}
        BY <1>2, <2>4, <3>1 DEF Asks, SpliceOps
      <4> QED
        BY <4>1, <4>2 DEF SawIn
    <3> QED
      BY <1>3, <3>1 DEF Answer
  <2> QED
    BY <2>1, <2>3, <2>5, <2>6, <2>7 DEF Knows
<1> QED
  BY <1>4, <1>5 DEF LeftAs

\* An insert that has linked its node at level i - 1 goes on to level i, or ends.
LEMMA UpTold ==
  ASSUME ListIInv, Recorded, NEW t \in Thread, NEW me, me = th[t], ThreadInv(me), me.op = "insert",
         me.pc \in {"link0", "link"}, me.then = "none",
         NEW n, n = me.n, NEW i, i = me.i + 1, NEW r, UpAs(me, r, i), r = LevelUp(t, i),
         NEW W, Told(t, me, W), NEW V, \A l \in Level : W[l] \subseteq V[l],
         n \in V[me.i], \A l \in 0 .. me.i - 1 : n \in W[l] /\ l \in Level
  PROVE  Visit(r, V) /\ Clean(t, r) /\ Knows(t, r) /\ Won(r) /\ r.op = me.op
<1>1. LocalType(me) /\ me.i \in Nat /\ DOMAIN me = Locals /\ me.sh \in 0 .. MaxHeight /\ MaxHeight \in Nat
  BY NodeFacts DEF ThreadInv, LocalType
<1>2. \A l \in 0 .. i - 1 : n \in V[l]
  <2> SUFFICES ASSUME NEW l \in 0 .. i - 1 PROVE n \in V[l]
    OBVIOUS
  <2>1. l = me.i \/ l \in 0 .. me.i - 1
    BY <1>1
  <2> QED
    BY <2>1
<1>3. Visit(me, V) /\ Clean(t, me)
  BY NowFacts, VisitGrows DEF Told
<1>4. CASE i = height[n]
  <2>p. PICK prev : prev = [l \in 0 .. MaxHeight |-> IF l < i THEN me.n ELSE me.prev[l]]
    OBVIOUS
  <2>b. PICK b : b = TRUE
    OBVIOUS
  <2>1. LeftAs(me, r, b, prev)
    BY <1>4, <2>p, <2>b DEF UpAs
  <2>2. r = Leave(t, b, prev)
    BY <1>4, <2>p, <2>b DEF LevelUp
  <2>3. \A l \in 0 .. me.sh - 1 : Inside(V, prev[l], l)
    <3> SUFFICES ASSUME NEW l \in 0 .. me.sh - 1 PROVE Inside(V, prev[l], l)
      OBVIOUS
    <3>1. l \in 0 .. MaxHeight
      BY <1>1
    <3>2. CASE l < i
      <4>1. prev[l] = n
        BY <2>p, <3>1, <3>2
      <4>2. \A j \in 0 .. l : j \in 0 .. i - 1
        BY <1>1, <3>2
      <4> QED
        BY <1>2, <4>1, <4>2 DEF Inside
    <3>3. CASE ~(l < i)
      <4>1. prev[l] = me.prev[l]
        BY <2>p, <3>1, <3>3
      <4> QED
        BY <1>3, <4>1 DEF Visit
    <3> QED
      BY <3>2, <3>3
  <2>4. \A l \in Level : prev[l] \notin stale[t]
    <3> SUFFICES ASSUME NEW l \in Level PROVE prev[l] \notin stale[t]
      OBVIOUS
    <3>1. l \in 0 .. MaxHeight
      BY <1>1 DEF Level
    <3>2. prev[l] \in {me.n, me.prev[l]}
      BY <2>p, <3>1
    <3> QED
      BY <1>3, <3>2 DEF Clean, Known
  <2>5. r.x = Head /\ r.y = Tail /\ r.z = Tail /\ r.after = Tail /\ r.fix = me.fix
    BY <2>2, LeaveRest
  <2>6. Visit(r, V) /\ Clean(t, r) /\ Knows(t, r)
    BY <1>1, <2>b, <2>1, <2>3, <2>4, <2>5, LeftTold
  <2>7. Won(r) /\ r.op = me.op
    BY <2>b, <2>1 DEF LeftAs, Won, SpliceOps
  <2> QED
    BY <2>6, <2>7
<1>5. CASE i # height[n]
  <2>1. r = [me EXCEPT !.pc = "own", !.i = i]
    BY <1>5 DEF UpAs
  <2>2. /\ r.pc = "own" /\ r.i = i /\ r.op = me.op /\ r.k = me.k /\ r.n = n /\ r.fix = me.fix
        /\ r.prev = me.prev /\ r.nxt = me.nxt /\ r.sh = me.sh /\ r.then = "none"
        /\ r.x = me.x /\ r.y = me.y /\ r.z = me.z /\ r.after = me.after
    BY <1>1, <2>1 DEF Locals
  <2>3. Visit(r, V)
    BY <1>2, <1>3, <2>2 DEF Visit, Searching
  <2>4. Clean(t, r)
    BY <1>3, <2>2 DEF Clean, Known
  <2>5. Knows(t, r)
    BY <2>2 DEF Told, Knows, Asks, Sights, Answer, Searching, Reader
  <2>6. Won(r)
    BY <2>2 DEF Won, Building, Busy
  <2> QED
    BY <2>2, <2>3, <2>4, <2>5, <2>6
<1> QED
  BY <1>4, <1>5

\* The step Link keeps the invariant.
LEMMA LinkTells == ASSUME ListIInv, ListIInv', CallIInv, NEW t \in Thread, Link(t) PROVE CallIInv'
<1> PICK me : me = th[t]
  OBVIOUS
<1> PICK p : p = me.prev[me.i]
  OBVIOUS
<1> PICK s : s = me.nxt[me.i]
  OBVIOUS
<1> PICK n : n = me.n
  OBVIOUS
<1> PICK i : i = me.i
  OBVIOUS
<1>1. me.pc = "link"
  BY DEF Link
<1>2. Types /\ Chains /\ Links /\ ThreadInv(me) /\ LocalType(me) /\ DOMAIN th = Thread
  BY NowFacts DEF Threads, ThreadInv
<1>3. /\ i \in Level /\ n \in Node /\ Reached(p, i) /\ Building(me) /\ me.op = "insert" /\ me.op \in SpliceOps
      /\ me.then = "none"
  BY <1>1, <1>2, BuildingFacts DEF SpliceOps
<1>4. CASE CanCas(p, i, s)
  <2> PICK r : r = LevelUp(t, i + 1)
    OBVIOUS
  <2>1. Put(t, r) /\ next' = [next EXCEPT ![p][i] = n] /\ UNCHANGED <<deleting, counts, keys, call>>
    BY <1>4 DEF Link
  <2>2. UpAs(me, r, i + 1)
    BY <1>2, <1>3, LevelUpIs
  <2>3. Moves(t, r)
    BY <1>2, <2>1, PutMoves
  <2>4. Relinks(p, i, n)
    BY <2>1 DEF Relinks
  <2>5. /\ ~deleting[p][i] /\ p \in Linkable
        /\ \A m \in Linkable, j \in Level : next'[m][j] = IF m = p /\ j = i THEN n ELSE next[m][j]
        /\ Chain(i)' = Chain(i) \cup {n} /\ \A j \in Level : j # i => Chain(j)' = Chain(j)
    <3>1. LinksAt(me, n, i, s, p)
      BY <1>1, <1>4, <2>4 DEF LinksAt
    <3>2. LinkReady(me, n, i, s, p) /\ LinkDone(n, i, p)
      BY <1>2, <3>1, LinkChains
    <3> QED
      BY <3>2 DEF LinkReady, LinkDone
  <2>6. deleting' = deleting /\ retired' = retired /\ UNCHANGED <<keys, stale>>
    BY <2>1 DEF counts, call
  <2>7. Onward
    <3>1. \A m \in Node, l \in Level : deleting[m][l] => next'[m][l] = next[m][l]
      BY <2>5 DEF Linkable
    <3>2. \A l \in Level : \A m \in Chain(l) : m \in Chain(l)' \/ deleting[m][l]
      BY <2>5
    <3> QED
      BY <2>6, <3>1, <3>2, OnwardChains
  <2>8. ASSUME NEW W, NEW V, Told(t, me, W), \A l \in Level : W[l] \subseteq V[l] /\ Chain(l)' \subseteq V[l]
        PROVE  Visit(r, V) /\ Clean(t, r) /\ Knows(t, r) /\ Won(r) /\ r.op = me.op
    <3>1. n \in V[i] /\ \A l \in Level : W[l] \subseteq V[l]
      BY <1>3, <2>5, <2>8
    <3>2. \A l \in 0 .. i - 1 : n \in W[l] /\ l \in Level
      <4>1. Visit(me, W)
        BY <2>8 DEF Told
      <4>2. \A l \in 0 .. i - 1 : l \in Level
        BY <1>3, NodeFacts DEF Level
      <4> QED
        BY <1>3, <4>1, <4>2 DEF Visit
    <3> PICK j : j = i + 1
      OBVIOUS
    <3>3. UpAs(me, r, j) /\ r = LevelUp(t, j) /\ j = me.i + 1
      BY <2>2
    <3>4. me.pc \in {"link0", "link"}
      BY <1>1
    <3> QED
      BY <1>2, <1>3, <2>8, <3>1, <3>2, <3>3, <3>4, UpTold DEF CallIInv
  <2>9. Won(r) /\ Won(me) /\ r.op = me.op
    <3> PICK W : Told(t, me, W)
      BY DEF CallIInv
    <3> PICK V : V = [l \in Level |-> W[l] \cup Chain(l)']
      OBVIOUS
    <3>1. \A l \in Level : W[l] \subseteq V[l] /\ Chain(l)' \subseteq V[l]
      OBVIOUS
    <3>2. Won(r) /\ r.op = me.op
      BY <2>8, <3>1
    <3> QED
      BY <1>3, <3>2 DEF Won
  <2>10. Recorded' /\ Winners' /\ \A u \in Thread : Remembers(u)
    BY <2>3, <2>6, <2>7, <2>9, QuietHistory DEF CallIInv
  <2>11. ASSUME NEW W, NEW V, Told(t, me, W), \A l \in Level : W[l] \subseteq V[l] /\ Chain(l)' \subseteq V[l]
         PROVE  Visit(r, V) /\ Clean(t, r)' /\ Knows(t, r)'
    <3>1. Visit(r, V) /\ Clean(t, r) /\ Knows(t, r)
      BY <2>8, <2>11
    <3> QED
      BY <2>7, <2>10, <3>1, KnowsKept
  <2> QED
    BY <2>3, <2>7, <2>9, <2>10, <2>11, TellOn
<1>5. CASE ~CanCas(p, i, s)
  <2> PICK bad : bad = deleting[p][i]
    OBVIOUS
  <2>1. bad \in BOOLEAN
    BY <1>2, <1>3, MarkType
  <2> PICK r : r = [me EXCEPT !.pc = "undo", !.bad = bad]
    OBVIOUS
  <2>2. Put(t, r) /\ UNCHANGED <<links, counts, keys, call>>
    BY <1>5 DEF Link, links
  <2>3. OnlyPc(me, r, "undo")
    <3>1. \A f \in Locals \ {"pc", "bad"} : r[f] = me[f]
      BY <1>2 DEF LocalType
    <3>2. DOMAIN r = Locals /\ r.pc = "undo" /\ r.bad = bad
      BY <1>2 DEF LocalType, Locals
    <3>3. /\ r.op = me.op /\ r.k = me.k /\ r.n = me.n /\ r.i = me.i
          /\ r.prev = me.prev /\ r.nxt = me.nxt /\ r.sh = me.sh /\ r.lv = me.lv /\ r.target = me.target
          /\ r.x = me.x /\ r.y = me.y /\ r.z = me.z /\ r.after = me.after /\ r.then = me.then
          /\ r.res = me.res /\ r.mode = me.mode /\ r.probe = me.probe /\ r.fix = me.fix /\ r.tight = me.tight
      BY <3>1 DEF Locals
    <3>4. LocalType(r)
      BY <1>2, <2>1, <3>2, <3>3 DEF LocalType, Busy
    <3> QED
      BY <3>1, <3>2, <3>4 DEF OnlyPc
  <2>4. Building(r) <=> Building(me)
    BY <1>1, <1>2, <2>3, PcOK
  <2>5. SameWon(me, r) /\ \A W : Told(t, me, W) => Visit(r, W) /\ Clean(t, r) /\ Knows(t, r)
    BY <1>1, <1>3, <2>3, <2>4, PcTold
  <2>6. retired \subseteq retired'
    BY <2>2 DEF counts
  <2> QED
    BY <2>2, <2>5, <2>6, TellStill
<1> QED
  BY <1>4, <1>5

\* The keys of the set change, and every call sees it.
LEMMA KeysHistory ==
  ASSUME Recorded, Winners, NEW t \in Thread, NEW ks, KeysBecome(t, ks), ks # present,
         NEW r, Moves(t, r), Won(r), stale' = stale, retired \subseteq retired'
  PROVE  Recorded' /\ Winners' /\ \A u \in Thread : Remembers(u)
<1>1. present' = ks /\ won' = won \cup {t}
  BY DEF KeysBecome
<1>2. \A u \in Thread, q \in KeySet :
        seen'[u][q] = IF seen[u][q] = {} THEN {} ELSE seen[u][q] \cup {Has(ks, q)}
  BY DEF KeysBecome
<1>3. seen' \in [Thread -> [KeySet -> SUBSET BOOLEAN]]
  <2>1. \A q : {Has(ks, q)} \subseteq BOOLEAN
    BY DEF Has
  <2>2. \A u \in Thread, q \in KeySet : seen[u][q] \subseteq BOOLEAN
    BY DEF Recorded
  <2>3. \A u \in Thread, q \in KeySet :
          (IF seen[u][q] = {} THEN {} ELSE seen[u][q] \cup {Has(ks, q)}) \subseteq BOOLEAN
    BY <2>1, <2>2
  <2> QED
    BY <2>3 DEF KeysBecome
<1>4. ASSUME NEW u \in Thread, NEW q \in KeySet
      PROVE  /\ seen'[u][q] = {} <=> seen[u][q] = {}
             /\ seen[u][q] \subseteq seen'[u][q]
             /\ seen'[u][q] # {} => IF q \in ks THEN TRUE \in seen'[u][q] ELSE FALSE \in seen'[u][q]
  <2>1. CASE seen[u][q] = {}
    BY <1>2, <2>1
  <2>2. CASE seen[u][q] # {} /\ q \in ks
    <3>1. Has(ks, q) = TRUE
      BY <2>2 DEF Has
    <3>2. {Has(ks, q)} = {TRUE}
      BY <3>1
    <3>3. seen'[u][q] = IF seen[u][q] = {} THEN {} ELSE seen[u][q] \cup {TRUE}
      BY <1>2, <3>2
    <3> QED
      BY <2>2, <3>3
  <2>3. CASE seen[u][q] # {} /\ q \notin ks
    <3>1. Has(ks, q) = FALSE
      BY <2>3 DEF Has
    <3>2. {Has(ks, q)} = {FALSE}
      BY <3>1
    <3>3. seen'[u][q] = IF seen[u][q] = {} THEN {} ELSE seen[u][q] \cup {FALSE}
      BY <1>2, <3>2
    <3> QED
      BY <2>3, <3>3
  <2> QED
    BY <2>1, <2>2, <2>3
<1>5. Recorded'
  <2>1. stale' \in [Thread -> SUBSET Node] /\ \A u \in Thread : stale'[u] \subseteq retired'
    BY DEF Recorded
  <2> QED
    BY <1>1, <1>3, <1>4, <2>1 DEF Recorded
<1>6. Winners'
  <2> SUFFICES ASSUME NEW u \in Thread PROVE u \in won' <=> Won(th'[u])
    BY DEF Winners
  <2>1. CASE u = t
    BY <1>1, <2>1 DEF Moves
  <2>2. CASE u # t
    <3>1. th'[u] = th[u]
      BY <2>2 DEF Moves
    <3> QED
      BY <1>1, <2>2, <3>1 DEF Winners
  <2> QED
    BY <2>1, <2>2
<1> QED
  BY <1>4, <1>5, <1>6 DEF Remembers

\* A step after which the history is right, in which the call goes on with what
\* it knows.
LEMMA TellChange ==
  ASSUME ListIInv, ListIInv', CallIInv, Recorded', Winners', Onward, NEW t \in Thread, NEW me, me = th[t],
         NEW r, Moves(t, r), r.op = me.op, \A u \in Thread : Remembers(u),
         \A W : Told(t, me, W) => Visit(r, W) /\ Clean(t, r) /\ Knows(t, r)
  PROVE  CallIInv'
<1>1. ThreadInv(r)' /\ Types'
  BY ThreadAfter
<1>2. ASSUME NEW W, NEW V, Told(t, me, W), \A l \in Level : W[l] \subseteq V[l]
      PROVE  Visit(r, V) /\ Clean(t, r)' /\ Knows(t, r)'
  <2>1. Visit(r, W) /\ Clean(t, r) /\ Knows(t, r)
    BY <1>2
  <2>2. Visit(r, V)
    BY <1>1, <1>2, <2>1, VisitGrowsPrime
  <2>3. Clean(t, r)' /\ Knows(t, r)'
    BY <2>1, KnowsKept
  <2> QED
    BY <2>2, <2>3
<1> QED
  BY <1>2, TellOn

-------------------------------------------------------------------------------
\* the local variables r of a search that begins at the head, with an empty splice
Starts(t, r) ==
    /\ r.pc = "read" /\ r.x = Head /\ r.after = Tail /\ r.sh \in 0 .. MaxHeight
    /\ r.prev = [l \in 0 .. MaxHeight |-> Head] /\ r.nxt = [l \in 0 .. MaxHeight |-> Tail]
    /\ r.y \notin stale[t] /\ r.z \notin stale[t] /\ r.n \notin stale[t]
    /\ ~Building(r) /\ Asks(t, r)
    /\ r.op = "seek" => r.mode # "none"
    /\ r.op = "scan" => r.got = <<>>
    /\ r.op = "erase_node" /\ r.then = "pick" =>
          SawIn(t, r.n) /\ r.n \in Node /\ (r.n \in Chain(0) \/ deleting[r.n][0])

\* It has seen nothing, and forgets nothing.
LEMMA HeadTold ==
  \A t \in Thread : \A r, W : Recorded /\ Starts(t, r) => Visit(r, W) /\ Clean(t, r) /\ Knows(t, r)
<1> SUFFICES ASSUME NEW t \in Thread, NEW r, NEW W, Recorded, Starts(t, r)
             PROVE  Visit(r, W) /\ Clean(t, r) /\ Knows(t, r)
  OBVIOUS
<1>1. Head \notin stale[t] /\ Tail \notin stale[t] /\ MaxHeight \in Nat /\ 0 \in 0 .. MaxHeight
  BY NodeFacts DEF Recorded
<1>2. \A l \in 0 .. MaxHeight : r.prev[l] = Head /\ r.nxt[l] = Tail
  BY DEF Starts
<1>3. Visit(r, W)
  <2>1. \A l \in 0 .. r.sh - 1 : Inside(W, r.prev[l], l)
    BY <1>1, <1>2 DEF Starts, Inside
  <2> QED
    BY <2>1 DEF Visit, Starts, Inside
<1>4. Clean(t, r)
  <2>1. \A l \in Level : r.prev[l] = Head /\ r.nxt[l] = Tail
    BY <1>1, <1>2 DEF Level
  <2>2. Known(r) \subseteq {r.n, r.y, r.z, Head, Tail}
    BY <2>1 DEF Known, Starts
  <2> QED
    BY <1>1, <2>2 DEF Clean, Starts
<1>5. Asks(t, r) /\ Answer(t, r)
  BY DEF Starts, Answer
<1>6. SawIn(t, Head) /\ SawIn(t, Tail)
  BY NodeFacts DEF SawIn
<1>7. r.op = "scan" => Scanned(t, r)
  <2> SUFFICES ASSUME r.op = "scan" PROVE Scanned(t, r)
    OBVIOUS
  <2>1. r.got = <<>> /\ r.x = Head
    BY DEF Starts
  <2>2. DOMAIN r.got = 1 .. 0 /\ 1 .. 0 = {} /\ 0 \in Nat
    BY <2>1
  <2>3. GotKeys(r) = {}
    BY <2>2 DEF GotKeys
  <2> QED
    BY <2>1, <2>2, <2>3 DEF Scanned
<1>8. Bounds(r)
  BY DEF Bounds, Before, Is, Starts
<1>9. Sights(t, r)
  BY <1>1, <1>2, <1>6, <1>7, <1>8 DEF Sights, Starts
<1> QED
  BY <1>3, <1>4, <1>5, <1>9 DEF Knows

\* The same of the state after a step.
LEMMA HeadPrime ==
  \A t \in Thread : \A r, W : Recorded' /\ Starts(t, r)' => Visit(r, W)' /\ Clean(t, r)' /\ Knows(t, r)'
<1>1. (\A t \in Thread : \A r, W : Recorded /\ Starts(t, r) => Visit(r, W) /\ Clean(t, r) /\ Knows(t, r))'
  BY HeadTold, PTL
<1> QED
  BY <1>1

\* The links to take out begin at the top level of the node.
LEMMA BeginCutTold ==
  ASSUME ListIInv, Recorded, NEW t \in Thread, NEW me, ThreadInv(me), me.pc = "mark", NEW h \in 1 .. MaxHeight,
         NEW r, r = BeginCut(me, h)
  PROVE  /\ Won(r) /\ r.op = me.op
         /\ \A W : Told(t, me, W) => Visit(r, W) /\ Clean(t, r) /\ Knows(t, r)
<1>1. DOMAIN me = Locals /\ me.op \in {"erase", "erase_node"} /\ me.op \in SpliceOps
  BY DEF ThreadInv, LocalType, Shape, SpliceOps
<1>2. CASE h > me.sh
  <2> PICK q : q = WholeSearch(me, h)
    OBVIOUS
  <2>1. WholeAs(me, q, h)
    BY <1>1, WholeSearchIs
  <2>2. r = [q EXCEPT !.then = "cut", !.i = h - 1]
    BY <1>2 DEF BeginCut
  <2>3. DOMAIN q = Locals
    BY <2>1 DEF WholeAs
  <2>4. r.then = "cut" /\ \A f \in Locals \ {"then", "i"} : r[f] = q[f]
    BY <2>2, <2>3 DEF Locals
  <2>5. /\ q.pc = "read" /\ q.x = Head /\ q.after = Tail /\ q.sh = h
        /\ q.prev = [l \in 0 .. MaxHeight |-> Head] /\ q.nxt = [l \in 0 .. MaxHeight |-> Tail]
        /\ q.op = me.op /\ q.k = me.k /\ q.n = me.n /\ q.y = me.y /\ q.z = me.z
    BY <2>1 DEF WholeAs, Locals
  <2>6. /\ r.pc = "read" /\ r.x = Head /\ r.after = Tail /\ r.sh = h /\ r.then = "cut"
        /\ r.prev = [l \in 0 .. MaxHeight |-> Head] /\ r.nxt = [l \in 0 .. MaxHeight |-> Tail]
        /\ r.op = me.op /\ r.k = me.k /\ r.n = me.n /\ r.y = me.y /\ r.z = me.z
    BY <2>4, <2>5 DEF Locals
  <2>7. Won(r) /\ r.op = me.op
    BY <1>1, <2>6 DEF Won
  <2>8. ASSUME NEW W, Told(t, me, W) PROVE Visit(r, W) /\ Clean(t, r) /\ Knows(t, r)
    <3>1. Clean(t, me) /\ Asks(t, me)
      BY <2>8 DEF Told, Knows
    <3>2. r.y \notin stale[t] /\ r.z \notin stale[t] /\ r.n \notin stale[t]
      BY <2>6, <3>1 DEF Clean, Known
    <3>3. Asks(t, r) /\ ~Building(r) /\ r.op \notin {"seek", "scan"}
      BY <1>1, <2>6, <3>1 DEF Asks, Building
    <3>4. r.sh \in 0 .. MaxHeight
      BY <2>6, NodeFacts
    <3>5. Starts(t, r)
      BY <2>6, <3>2, <3>3, <3>4 DEF Starts
    <3> QED
      BY <3>5, HeadTold
  <2> QED
    BY <2>7, <2>8
<1>3. CASE ~(h > me.sh)
  <2>1. r = [me EXCEPT !.pc = "cut", !.i = h - 1]
    BY <1>3 DEF BeginCut
  <2>2. /\ r.pc = "cut" /\ r.op = me.op /\ r.k = me.k /\ r.n = me.n /\ r.fix = me.fix
        /\ r.prev = me.prev /\ r.nxt = me.nxt /\ r.sh = me.sh
        /\ r.x = me.x /\ r.y = me.y /\ r.z = me.z /\ r.after = me.after
    BY <1>1, <2>1 DEF Locals
  <2>3. Won(r) /\ ~Building(r)
    BY <1>1, <2>2 DEF Won, Building
  <2>4. ASSUME NEW W, Told(t, me, W) PROVE Visit(r, W) /\ Clean(t, r) /\ Knows(t, r)
    <3>1. me.x \notin stale[t] /\ me.y \notin stale[t] /\ me.z \notin stale[t] /\ me.after \notin stale[t]
      BY <2>4 DEF Told, Clean, Known
    <3>2. r.pc \in (Busy \ (Searching \cup {"mark"})) \cup {"read"} /\ r.pc # "read"
      BY <2>2 DEF Busy, Searching
    <3> QED
      BY <1>1, <2>2, <2>3, <2>4, <3>1, <3>2, SpliceTold
  <2> QED
    BY <2>2, <2>3, <2>4
<1> QED
  BY <1>2, <1>3

\* the erase me marks level i of its node n: what is so before, and what it does
MarksAt(me, n, i) ==
    /\ me.pc = "mark" /\ ThreadInv(me) /\ LocalType(me) /\ Reached(n, 0) /\ me.k = Key[n]
    /\ n \in Node /\ i \in Level /\ me.op \in {"erase", "erase_node"} /\ me.then = "none"
    /\ \A m \in Node, l \in Level : deleting'[m][l] = IF m = n /\ l = i THEN TRUE ELSE deleting[m][l]
    /\ next' = next /\ retired' = retired /\ stale' = stale /\ height' = height
    /\ \A l \in Level : Chain(l)' = Chain(l)

\* What a thread knows that is about to mark a level of its node.
LEMMA MarkFacts ==
  ASSUME ListIInv, NEW t \in Thread, NEW me, me = th[t], NEW n, n = me.n, NEW i, i = me.i, Mark(t)
  PROVE  MarksAt(me, n, i)
<1>1. me.pc = "mark" /\ ThreadInv(me)
  BY NowFacts DEF Mark
<1>2. n \in Node /\ i \in Level /\ me.op \in {"erase", "erase_node"} /\ me.then = "none"
      /\ Reached(n, 0) /\ me.k = Key[n] /\ LocalType(me)
  BY <1>1 DEF ThreadInv, NodeInv, Shape, Busy, Searching
<1>3. deleting' = [deleting EXCEPT ![n][i] = TRUE]
  BY DEF Mark
<1>4. deleting \in [Linkable -> [Level -> BOOLEAN]] /\ n \in Linkable
  BY <1>2, NowFacts DEF Types, Linkable
<1>5. \A m \in Node, l \in Level : deleting'[m][l] = IF m = n /\ l = i THEN TRUE ELSE deleting[m][l]
  BY <1>2, <1>3, <1>4 DEF Linkable
<1>6. next' = next /\ retired' = retired /\ stale' = stale /\ height' = height
  BY DEF Mark, counts, call
<1>7. \A l \in Level : Chain(l)' = Chain(l)
  BY <1>6, NowFacts, ChainsSame
<1> QED
  BY <1>1, <1>2, <1>5, <1>6, <1>7, Zenon DEF MarksAt

\* The step Mark keeps the invariant.
LEMMA MarkTells == ASSUME ListIInv, ListIInv', CallIInv, NEW t \in Thread, Mark(t) PROVE CallIInv'
<1> PICK me : me = th[t]
  OBVIOUS
<1> PICK n : n = me.n
  OBVIOUS
<1> PICK i : i = me.i
  OBVIOUS
<1>1. /\ me.pc = "mark" /\ ThreadInv(me) /\ LocalType(me) /\ Reached(n, 0) /\ me.k = Key[n]
      /\ n \in Node /\ i \in Level /\ me.op \in {"erase", "erase_node"} /\ me.then = "none"
      /\ \A m \in Node, l \in Level : deleting'[m][l] = IF m = n /\ l = i THEN TRUE ELSE deleting[m][l]
      /\ next' = next /\ retired' = retired /\ stale' = stale /\ height' = height
      /\ \A l \in Level : Chain(l)' = Chain(l)
  <2>1. MarksAt(me, n, i)
    BY MarkFacts
  <2> QED
    BY <2>1, Zenon DEF MarksAt
<1>2. ~Won(me) /\ me.op # "insert" /\ DOMAIN me = Locals /\ DOMAIN th = Thread /\ 0 \in Level
  BY <1>1, NowFacts, NodeFacts DEF Won, Building, LocalType, Threads
<1>3. (i = 0 /\ ~deleting[n][0] => Key[n] \notin present') => Onward
  BY <1>1, <1>2 DEF Onward
<1>4. CASE i # 0
  <2> PICK r : r = [me EXCEPT !.i = me.i - 1]
    OBVIOUS
  <2>1. me.i > 0
    BY <1>1, <1>4 DEF Level
  <2>2. Put(t, r) /\ UNCHANGED keys
    BY <2>1 DEF Mark
  <2>3. Moves(t, r)
    BY <1>2, <2>2, PutMoves
  <2>4. \A f \in Locals \ {"i"} : r[f] = me[f]
    BY <1>2 DEF Locals
  <2>5. /\ r.pc = "mark" /\ r.op = me.op /\ r.k = me.k /\ r.n = n /\ r.fix = me.fix /\ r.then = "none"
        /\ r.prev = me.prev /\ r.nxt = me.nxt /\ r.sh = me.sh
        /\ r.x = me.x /\ r.y = me.y /\ r.z = me.z /\ r.after = me.after
    BY <1>1, <2>4 DEF Locals
  <2>6. ~Won(r) /\ ~Building(r) /\ r.op = me.op
    BY <1>1, <1>2, <2>5 DEF Won, Building
  <2>7. Onward
    BY <1>3, <1>4
  <2>8. ASSUME NEW W, Told(t, me, W) PROVE Visit(r, W) /\ Clean(t, r) /\ Knows(t, r)
    <3>1. Visit(me, W) /\ Clean(t, me) /\ Asks(t, me) /\ Sights(t, me)
      BY <2>8 DEF Told, Knows
    <3>2. Visit(r, W)
      BY <2>5, <2>6, <3>1 DEF Visit, Searching
    <3>3. Clean(t, r)
      BY <2>5, <3>1 DEF Clean, Known
    <3>4. Asks(t, r) /\ Answer(t, r)
      BY <2>5, <3>1 DEF Asks, Answer
    <3>5. Sights(t, r)
      BY <1>1, <2>5, <3>1 DEF Sights, Searching
    <3> QED
      BY <3>2, <3>3, <3>4, <3>5 DEF Knows
  <2>9. UNCHANGED <<keys, stale>>
    BY <1>1, <2>2
  <2> QED
    BY <1>2, <2>3, <2>6, <2>7, <2>8, <2>9, TellQuiet
<1>5. CASE i = 0 /\ deleting[n][0]
  <2> PICK r : r = Finish(me, FALSE)
    OBVIOUS
  <2>0. ~(me.i > 0) /\ deleting[me.n][0]
    BY <1>5
  <2>1. Put(t, r) /\ UNCHANGED keys
    BY <2>0, Zenon DEF Mark
  <2>2. Moves(t, r)
    BY <1>2, <2>1, PutMoves
  <2>3. EndAs(me, r, FALSE) /\ r.n = Tail
    <3> PICK b : b = FALSE
      OBVIOUS
    <3>1. EndAs(me, r, b) /\ r.n = Tail
      BY EndIs
    <3> QED
      BY <3>1 DEF EndAs
  <2>4. ~Won(r) /\ r.op = me.op
    BY <1>2, <2>3 DEF Won, EndAs, Building, Busy, Searching
  <2>5. Onward
    BY <1>3, <1>5
  <2>6. ASSUME NEW W, Told(t, me, W) PROVE Visit(r, W) /\ Clean(t, r) /\ Knows(t, r)
    <3>1. SawIn(t, n) /\ seen[t][me.k] # {}
      BY <1>1, <2>6 DEF Told, Knows, Sights, Asks, SpliceOps
    <3>2. FALSE \in seen[t][me.k]
      BY <1>1, <1>5, <3>1 DEF SawIn
    <3>3. Answer(t, r)
      BY <1>1, <2>3, <3>2 DEF Answer, EndAs
    <3>4. r.n \notin stale[t]
      BY <2>3, NodeFacts DEF CallIInv, Recorded
    <3> QED
      BY <2>3, <2>6, <3>3, <3>4, DoneTold DEF CallIInv
  <2>7. UNCHANGED <<keys, stale>>
    BY <1>1, <2>1
  <2> QED
    BY <1>2, <2>2, <2>4, <2>5, <2>6, <2>7, TellQuiet
<1>6. CASE i = 0 /\ ~deleting[n][0]
  <2> PICK h : h = height[n]
    OBVIOUS
  <2> PICK r : r = BeginCut(me, h)
    OBVIOUS
  <2> PICK ks : ks = present \ {me.k}
    OBVIOUS
  <2>1. Put(t, r) /\ KeysBecome(t, ks)
    BY <1>6 DEF Mark
  <2>2. Moves(t, r)
    BY <1>2, <2>1, PutMoves
  <2>3. n \in Chain(0) /\ Key[n] \in present
    <3>1. n \in Chain(0)
      BY <1>1, <1>2, <1>6, UnmarkedLinked
    <3> QED
      BY <1>6, <3>1, KeyPresent
  <2>4. h \in 1 .. MaxHeight
    <3>1. h \in 0 .. MaxHeight
      BY <1>1, NowFacts DEF Types
    <3>2. 0 < h
      BY <1>1, NodeFacts DEF Reached
    <3> QED
      BY <3>1, <3>2, NodeFacts
  <2>5. Won(r) /\ r.op = me.op /\ \A W : Told(t, me, W) => Visit(r, W) /\ Clean(t, r) /\ Knows(t, r)
    BY <1>1, <2>4, BeginCutTold DEF CallIInv
  <2>6. ks # present /\ Key[n] \notin present'
    BY <1>1, <2>1, <2>3 DEF KeysBecome
  <2>7. Onward
    BY <1>3, <2>6
  <2>8. Recorded' /\ Winners' /\ \A u \in Thread : Remembers(u)
    <3>1. stale' = stale /\ retired \subseteq retired'
      BY <1>1
    <3> QED
      BY <2>1, <2>2, <2>5, <2>6, <3>1, KeysHistory DEF CallIInv
  <2> QED
    BY <2>2, <2>5, <2>7, <2>8, TellChange
<1> QED
  BY <1>4, <1>5, <1>6

\* The step Link0 keeps the invariant.
LEMMA Link0Tells == ASSUME ListIInv, ListIInv', CallIInv, NEW t \in Thread, Link0(t) PROVE CallIInv'
<1> PICK me : me = th[t]
  OBVIOUS
<1> PICK p : p = me.prev[0]
  OBVIOUS
<1> PICK s : s = me.nxt[0]
  OBVIOUS
<1> PICK n : n = me.n
  OBVIOUS
<1>1. me.pc = "link0"
  BY DEF Link0
<1>2. Types /\ Chains /\ Links /\ ThreadInv(me) /\ LocalType(me) /\ DOMAIN th = Thread /\ 0 \in Level
  BY NowFacts, NodeFacts DEF Threads, ThreadInv
<1>3. ~Building(me) /\ me.op = "insert" /\ me.then = "none" /\ me.i = 0 /\ n \in Node /\ Reached(p, 0)
  BY <1>1, FreshFacts
<1>4. ~Won(me)
  BY <1>1, <1>3 DEF Won
<1>5. CASE Is(s, me.k)
  <2> PICK pv : pv = me.prev
    OBVIOUS
  <2>b. PICK b : b = FALSE
    OBVIOUS
  <2> PICK r : r = Leave(t, b, pv)
    OBVIOUS
  <2>1. Put(t, r) /\ UNCHANGED <<next, keys, deleting, counts, call>>
    BY <1>5, <2>b DEF Link0
  <2>2. LeftAs(me, r, b, pv)
    <3>1. b \in BOOLEAN /\ pv \in [0 .. MaxHeight -> Linkable]
      BY <1>2, <2>b DEF LocalType
    <3> QED
      BY <1>2, <3>1, LeaveIs
  <2>3. r.x = Head /\ r.y = Tail /\ r.z = Tail /\ r.after = Tail /\ r.fix = me.fix
    BY LeaveRest
  <2>4. ~Won(r) /\ r.op = me.op
    BY <1>3, <2>b, <2>2 DEF LeftAs, Won, Building, Busy, Searching
  <2>5. SameWon(me, r)
    BY <1>4, <2>4 DEF SameWon
  <2>6. ASSUME NEW W, Told(t, me, W) PROVE Visit(r, W) /\ Clean(t, r) /\ Knows(t, r)
    <3>1. \A l \in 0 .. me.sh - 1 : Inside(W, me.prev[l], l)
      BY <2>6 DEF Told, Visit
    <3>2. \A l \in Level : me.prev[l] \notin stale[t]
      BY <2>6 DEF Told, Clean, Known
    <3> QED
      BY <1>2, <1>3, <1>5, <2>2, <2>3, <2>6, <3>1, <3>2, LeftTold DEF CallIInv
  <2>7. retired \subseteq retired' /\ UNCHANGED <<links, keys, call>>
    BY <2>1 DEF counts, links
  <2> QED
    BY <2>1, <2>5, <2>6, <2>7, TellStill
<1>6. CASE ~Is(s, me.k) /\ CanCas(p, 0, s)
  <2> PICK r : r = LevelUp(t, 1)
    OBVIOUS
  <2> PICK ks : ks = present \cup {me.k}
    OBVIOUS
  <2>1. /\ Put(t, r) /\ next' = [next EXCEPT ![n][0] = s, ![p][0] = n]
        /\ KeysBecome(t, ks) /\ UNCHANGED <<deleting, counts, call>>
    BY <1>6 DEF Link0
  <2>2. UpAs(me, r, 1)
    BY <1>2, <1>3, LevelUpIs
  <2>3. Moves(t, r)
    BY <1>2, <2>1, PutMoves
  <2>4. /\ me.k = Key[n] /\ ~deleting[n][0] /\ ~deleting[p][0] /\ next[p][0] = s
        /\ (p = Head \/ (p \in Node /\ Key[p] < Key[n])) /\ (s = Tail \/ (s \in Node /\ Key[n] < Key[s]))
        /\ \A m \in Linkable, j \in Level : next'[m][j] = next[m][j] \/ (j = 0 /\ m \in {n, p})
        /\ Chain(0)' = Chain(0) \cup {n} /\ p \in Chain(0) \cup {Head}
        /\ \A j \in Level : j # 0 => Chain(j)' = Chain(j)
    <3>1. LinksAt0(me, n, s, p)
      BY <1>1, <1>6, <2>1 DEF LinksAt0
    <3>2. Link0Ready(me, n, s, p) /\ Link0Done(n, s, p)
      BY <3>1, Link0Chains
    <3> QED
      BY <3>2 DEF Link0Ready, Link0Done
  <2>5. deleting' = deleting /\ retired' = retired /\ stale' = stale
    BY <2>1 DEF counts, call
  <2>6. Onward
    <3>1. \A m \in Node, l \in Level : deleting[m][l] => next'[m][l] = next[m][l]
      BY <2>4 DEF Linkable
    <3>2. \A l \in Level : \A m \in Chain(l) : m \in Chain(l)' \/ deleting[m][l]
      BY <2>4
    <3> QED
      BY <2>5, <3>1, <3>2, OnwardChains
  <2>7. ks # present
    <3>1. Key[n] \in Int
      BY <1>3, NodeFacts
    <3>2. Between(p, Key[n], next[p][0])
      BY <2>4 DEF Between
    <3>3. Key[n] \notin present
      BY <2>4, <3>1, <3>2, GapEmpty
    <3> QED
      BY <2>4, <3>3
  <2>8. ASSUME NEW W, NEW V, Told(t, me, W), \A l \in Level : W[l] \subseteq V[l] /\ Chain(l)' \subseteq V[l]
        PROVE  Visit(r, V) /\ Clean(t, r) /\ Knows(t, r) /\ Won(r) /\ r.op = me.op
    <3>1. n \in V[me.i] /\ \A l \in Level : W[l] \subseteq V[l]
      BY <1>2, <1>3, <2>4, <2>8
    <3>2. \A l \in 0 .. me.i - 1 : n \in W[l] /\ l \in Level
      BY <1>3
    <3> PICK j : j = 1
      OBVIOUS
    <3>3. UpAs(me, r, j) /\ r = LevelUp(t, j) /\ j = me.i + 1
      BY <1>3, <2>2
    <3>4. me.pc \in {"link0", "link"}
      BY <1>1
    <3> QED
      BY <1>2, <1>3, <2>8, <3>1, <3>2, <3>3, <3>4, UpTold DEF CallIInv
  <2>9. Won(r) /\ r.op = me.op
    <3> PICK W : Told(t, me, W)
      BY DEF CallIInv
    <3> PICK V : V = [l \in Level |-> W[l] \cup Chain(l)']
      OBVIOUS
    <3>1. \A l \in Level : W[l] \subseteq V[l] /\ Chain(l)' \subseteq V[l]
      OBVIOUS
    <3> QED
      BY <2>8, <3>1
  <2>10. Recorded' /\ Winners' /\ \A u \in Thread : Remembers(u)
    BY <2>1, <2>3, <2>5, <2>7, <2>9, KeysHistory DEF CallIInv
  <2>11. ASSUME NEW W, NEW V, Told(t, me, W), \A l \in Level : W[l] \subseteq V[l] /\ Chain(l)' \subseteq V[l]
         PROVE  Visit(r, V) /\ Clean(t, r)' /\ Knows(t, r)'
    <3>1. Visit(r, V) /\ Clean(t, r) /\ Knows(t, r)
      BY <2>8, <2>11
    <3> QED
      BY <2>6, <2>10, <3>1, KnowsKept
  <2> QED
    BY <2>3, <2>6, <2>9, <2>10, <2>11, TellOn
<1>7. CASE ~Is(s, me.k) /\ ~CanCas(p, 0, s)
  <2> PICK bad : bad = deleting[p][0]
    OBVIOUS
  <2>1. bad \in BOOLEAN
    BY <1>2, <1>3, MarkType
  <2>2. Put(t, Repair(me, 0, bad, "link0")) /\ UNCHANGED <<links, counts, keys, call>>
    BY <1>7 DEF Link0, links
  <2>3. Put(t, Repair(me, me.i, bad, me.pc))
    BY <1>1, <1>3, <2>2
  <2> QED
    BY <1>1, <2>1, <2>2, <2>3, RepairTells
<1> QED
  BY <1>5, <1>6, <1>7

-------------------------------------------------------------------------------
\* the nodes old were retired when t began to visit; no node is retired now
Aged(t, old) ==
    /\ old \in {retired, stale[t]} /\ stale' = [stale EXCEPT ![t] = old]
    /\ retired' = retired

\* A call begins: what it has seen is what is so now, of the keys it is about.
LEMMA BeginHistory ==
  ASSUME ListIInv, Recorded, Winners, NEW t \in Thread, NEW op, NEW ks, BeginCall(t, op, ks),
         NEW r, Moves(t, r), ~Won(r), NEW old, Aged(t, old)
  PROVE  /\ Recorded' /\ Winners'
         /\ \A u \in Thread \ {t} : Remembers(u)
         /\ \A q \in KeySet : q \in ks <=> seen'[t][q] # {}
<1> PICK f : f = [k \in KeySet |-> IF k \in ks THEN {Has(present, k)} ELSE {}]
  OBVIOUS
<1>0. retired' = retired /\ old \in {retired, stale[t]} /\ stale' = [stale EXCEPT ![t] = old]
  BY DEF Aged
<1>1. th[t].pc = "idle" /\ present' = present /\ won' = won /\ seen' = [seen EXCEPT ![t] = f]
  BY DEF BeginCall
<1>2. ~Won(th[t])
  <2>1. th[t].op = "none"
    BY <1>1, NowFacts DEF ThreadInv, Shape
  <2>2. th[t].then = "none"
    BY <1>1, NowFacts DEF ThreadInv, Shape
  <2> QED
    BY <2>1, <2>2 DEF Won, Building, SpliceOps
<1>3. seen'[t] = f /\ \A u \in Thread \ {t} : seen'[u] = seen[u]
  BY <1>1 DEF Recorded
<1>4. ASSUME NEW q \in KeySet
      PROVE  /\ f[q] \in SUBSET BOOLEAN /\ (q \in ks <=> f[q] # {})
             /\ f[q] # {} => IF q \in present THEN TRUE \in f[q] ELSE FALSE \in f[q]
  <2>1. CASE q \notin ks
    BY <2>1
  <2>2. CASE q \in ks /\ q \in present
    <3>1. Has(present, q) = TRUE
      BY <2>2 DEF Has
    <3>2. f[q] = {TRUE}
      BY <2>2, <3>1
    <3> QED
      BY <2>2, <3>2
  <2>3. CASE q \in ks /\ q \notin present
    <3>1. Has(present, q) = FALSE
      BY <2>3 DEF Has
    <3>2. f[q] = {FALSE}
      BY <2>3, <3>1
    <3> QED
      BY <2>3, <3>2
  <2> QED
    BY <2>1, <2>2, <2>3
<1>5. f \in [KeySet -> SUBSET BOOLEAN]
  BY <1>4
<1>6. old \in SUBSET Node /\ old \subseteq retired
  <2>1. retired \subseteq Node
    BY NowFacts DEF Counts
  <2> QED
    BY <1>0, <2>1 DEF Recorded
<1>7. stale' \in [Thread -> SUBSET Node] /\ stale'[t] = old /\ \A u \in Thread \ {t} : stale'[u] = stale[u]
  BY <1>0, <1>6 DEF Recorded
<1>8. Recorded'
  <2>1. seen' \in [Thread -> [KeySet -> SUBSET BOOLEAN]]
    BY <1>1, <1>5 DEF Recorded
  <2>2. \A u \in Thread, q \in KeySet : seen'[u][q] # {} =>
          IF q \in present THEN TRUE \in seen'[u][q] ELSE FALSE \in seen'[u][q]
    BY <1>3, <1>4 DEF Recorded
  <2>3. \A u \in Thread : stale'[u] \subseteq retired
    BY <1>6, <1>7 DEF Recorded
  <2> QED
    BY <1>0, <1>1, <1>7, <2>1, <2>2, <2>3 DEF Recorded
<1>9. Winners'
  <2> SUFFICES ASSUME NEW u \in Thread PROVE u \in won <=> Won(th'[u])
    BY <1>1 DEF Winners
  <2>1. CASE u = t
    <3>1. th'[u] = r
      BY <2>1 DEF Moves
    <3> QED
      BY <1>2, <2>1, <3>1 DEF Winners
  <2>2. CASE u # t
    <3>1. th'[u] = th[u]
      BY <2>2 DEF Moves
    <3> QED
      BY <3>1 DEF Winners
  <2> QED
    BY <2>1, <2>2
<1> QED
  BY <1>3, <1>4, <1>7, <1>8, <1>9 DEF Remembers

\* The nodes that are linked now are a beginning.
LEMMA BeenAll ==
  ListIInv /\ Recorded => \A t \in Thread : \E W : \A op : Been(t, op, W)
<1> SUFFICES ASSUME ListIInv, Recorded, NEW t \in Thread PROVE \E W : \A op : Been(t, op, W)
  OBVIOUS
<1> PICK W : W = [l \in Level |-> Chain(l)]
  OBVIOUS
<1>1. \A l \in Level : Chain(l) \subseteq Node /\ W[l] = Chain(l) /\ W[l] \cap stale[t] = {}
  <2>1. \A l \in Level : \A n \in Chain(l) : n \in Node /\ n \notin retired
    BY ChainLive
  <2> QED
    BY <2>1 DEF Recorded
<1>2. W \in [Level -> SUBSET Node]
  BY <1>1
<1>3. \A op : Been(t, op, W)
  BY <1>1, <1>2, NodeFacts DEF Been
<1> QED
  BY <1>3

\* The same of the state after a step.
LEMMA BeenPrime ==
  ListIInv' /\ Recorded' => \A t \in Thread : \E W : \A op : Been(t, op, W)'
<1>1. (ListIInv /\ Recorded => \A t \in Thread : \E W : \A op : Been(t, op, W))'
  BY BeenAll, PTL
<1> QED
  BY <1>1

\* The threads whose calls go on while another begins or returns.
LEMMA OthersTold ==
  ASSUME ListIInv, ListIInv', CallIInv, Recorded', Onward, NEW t \in Thread, NEW r, Moves(t, r),
         \A u \in Thread \ {t} : Remembers(u)
  PROVE  \A u \in Thread \ {t} : \E W : Told(u, th[u], W)'
<1> SUFFICES ASSUME NEW u \in Thread \ {t} PROVE \E W : Told(u, th[u], W)'
  OBVIOUS
<1> PICK o : o = th[u]
  OBVIOUS
<1>1. ThreadInv(o) /\ \E W : Told(u, o, W)
  BY NowFacts DEF CallIInv
<1>2. \E W : Told(u, o, W)'
  BY <1>1, TellKept DEF CallIInv
<1>3. o = th'[u]
  BY DEF Moves
<1> QED
  BY <1>2, <1>3

\* A call begins with a search from the head.
LEMMA BeginTells ==
  ASSUME ListIInv, ListIInv', CallIInv, Recorded', Winners', Onward, NEW t \in Thread, NEW r, Moves(t, r),
         \A u \in Thread \ {t} : Remembers(u), Starts(t, r)'
  PROVE  CallIInv'
<1>1. \A u \in Thread \ {t} : \E W : Told(u, th[u], W)'
  BY OthersTold
<1>3. PICK W : \A op : Been(t, op, W)'
  BY BeenPrime
<1>5. Visit(r, W)' /\ Clean(t, r)' /\ Knows(t, r)'
  BY HeadPrime
<1> PICK op : op = r.op
  OBVIOUS
<1>6. Been(t, op, W)'
  BY <1>3
<1>7. Told(t, r, W)'
  BY <1>5, <1>6 DEF Told
<1>8. r = th'[t]
  BY DEF Moves
<1> QED
  BY <1>1, <1>7, <1>8 DEF CallIInv

\* The links stay as they are when a call begins.
LEMMA StillOnward ==
  ASSUME ListIInv, UNCHANGED <<links, counts>>
  PROVE  Onward /\ retired' = retired /\ deleting' = deleting /\ \A l \in Level : Chain(l)' = Chain(l)
<1>1. next' = next /\ deleting' = deleting /\ retired' = retired
  BY DEF links, counts
<1>2. \A l \in Level : Chain(l)' = Chain(l)
  BY <1>1, NowFacts, ChainsSame
<1> QED
  BY <1>1, <1>2, OnwardChains

\* Find, Seek, Scan and RefreshAllLinks begin.
LEMMA ReadsTell ==
  ASSUME ListIInv, ListIInv', CallIInv, NEW t \in Thread, NEW name, NEW ks, NEW from,
         NEW op \in {"find", "seek", "scan", "refresh"}, NEW k, NEW mode, NEW i,
         op = "find" => k \in KeySet /\ k \in ks, op \in {"seek", "scan"} => KeySet \subseteq ks,
         op = "seek" => mode # "none",
         NEW r, ReadsAs(IdleThread, r, from, op, k, mode, i), Reads(t, name, ks, r)
  PROVE  CallIInv'
<1> PICK me : me = IdleThread
  OBVIOUS
<1>1. /\ me.n = Tail /\ me.y = Tail /\ me.z = Tail /\ me.sh = 0 /\ me.got = <<>> /\ me.then = "none"
      /\ me.prev = [l \in 0 .. MaxHeight |-> Head] /\ me.nxt = [l \in 0 .. MaxHeight |-> Tail]
  BY DEF IdleThread
<1>2. /\ r.pc = "read" /\ r.op = op /\ r.x = Head /\ r.after = Tail /\ r.k = k /\ r.mode = mode
      /\ r.n = me.n /\ r.y = me.y /\ r.z = me.z /\ r.sh = me.sh /\ r.got = me.got /\ r.then = me.then
      /\ r.prev = me.prev /\ r.nxt = me.nxt
  BY DEF ReadsAs, Locals
<1>3. /\ BeginCall(t, name, ks) /\ stale' = [stale EXCEPT ![t] = retired] /\ Put(t, r)
      /\ UNCHANGED <<links, counts>>
  BY DEF Reads
<1>4. Onward /\ retired' = retired
  BY <1>3, StillOnward
<1>5. Moves(t, r)
  BY <1>3, PutMoves, NowFacts DEF Threads
<1>6. ~Won(r) /\ ~Building(r) /\ r.op \notin SpliceOps
  BY <1>2 DEF Won, Building, SpliceOps
<1> PICK old : old = retired
  OBVIOUS
<1>7. old \in {retired, stale[t]} /\ stale' = [stale EXCEPT ![t] = old]
  BY <1>3
<1>7a. Aged(t, old)
  BY <1>4, <1>7 DEF Aged
<1>7b. Recorded /\ Winners
  BY DEF CallIInv
<1>8. /\ Recorded' /\ Winners' /\ \A u \in Thread \ {t} : Remembers(u)
      /\ \A q \in KeySet : q \in ks <=> seen'[t][q] # {}
  BY <1>3, <1>5, <1>6, <1>7a, <1>7b, BeginHistory
<1>9. Starts(t, r)'
  <2>1. Head \notin stale'[t] /\ Tail \notin stale'[t]
    BY <1>8, NodeFacts DEF Recorded
  <2>2. Asks(t, r)'
    BY <1>2, <1>6, <1>8 DEF Asks
  <2>3. r.sh \in 0 .. MaxHeight
    BY <1>1, <1>2, NodeFacts
  <2>4. r.op # "erase_node"
    BY <1>2
  <2> QED
    BY <1>1, <1>2, <1>6, <2>1, <2>2, <2>3, <2>4 DEF Starts
<1> QED
  BY <1>4, <1>5, <1>8, <1>9, BeginTells

\* The call Find keeps the invariant.
LEMMA FindTells ==
  ASSUME ListIInv, ListIInv', CallIInv, NEW t \in Thread, NEW n \in plan[t].nodes, Find(t, Key[n])
  PROVE  CallIInv'
<1> PICK k, ks : k = Key[n] /\ ks = {k}
  OBVIOUS
<1>1. k \in Int /\ k \in KeySet /\ k \in ks /\ Find(t, k)
  BY BeginFacts, KeyFacts
<1> PICK from, i, op, mode : from = now_height - 1 /\ i = IdleThread.i /\ op = "find" /\ mode = "ge"
  OBVIOUS
<1> PICK r : Reads(t, op, ks, r) /\ ReadsAs(IdleThread, r, from, op, k, mode, i)
  BY <1>1, FindReads
<1>2. op \in {"find", "seek", "scan", "refresh"} /\ op \notin {"seek", "scan"}
  OBVIOUS
<1> QED
  BY <1>1, <1>2, ReadsTell

\* The call Seek keeps the invariant.
LEMMA SeekTells ==
  ASSUME ListIInv, ListIInv', CallIInv, NEW t \in Thread, NEW k \in Int,
         NEW mode \in {"le", "lt", "ge", "gt", "last"}, Seek(t, mode, k)
  PROVE  CallIInv'
<1> PICK from, i, op, ks : from = now_height - 1 /\ i = IdleThread.i /\ op = "seek" /\ ks = KeySet
  OBVIOUS
<1> PICK r : Reads(t, mode, ks, r) /\ ReadsAs(IdleThread, r, from, op, k, mode, i)
  BY SeekReads
<1>2. op \in {"find", "seek", "scan", "refresh"} /\ op # "find" /\ mode # "none" /\ KeySet \subseteq ks
  OBVIOUS
<1> QED
  BY <1>2, ReadsTell

\* The call Scan keeps the invariant.
LEMMA ScanTells ==
  ASSUME ListIInv, ListIInv', CallIInv, NEW t \in Thread, Scan(t)
  PROVE  CallIInv'
<1> PICK me : me = IdleThread
  OBVIOUS
<1> PICK from, i, op, ks, k, mode : from = 0 /\ i = me.i /\ op = "scan" /\ ks = KeySet /\ k = me.k /\ mode = me.mode
  OBVIOUS
<1> PICK r : Reads(t, op, ks, r) /\ ReadsAs(me, r, from, op, k, mode, i)
  BY ScanReads
<1>2. op \in {"find", "seek", "scan", "refresh"} /\ op \notin {"find", "seek"} /\ KeySet \subseteq ks
  OBVIOUS
<1> QED
  BY <1>2, ReadsTell

\* The call RefreshAllLinks keeps the invariant.
LEMMA RefreshTells ==
  ASSUME ListIInv, ListIInv', CallIInv, NEW t \in Thread, RefreshAllLinks(t)
  PROVE  CallIInv'
<1> PICK me : me = IdleThread
  OBVIOUS
<1> PICK from, i, op, ks, k, mode : from = 0 /\ i = now_height /\ op = "refresh" /\ ks = {} /\ k = me.k /\ mode = me.mode
  OBVIOUS
<1> PICK r : Reads(t, op, ks, r) /\ ReadsAs(me, r, from, op, k, mode, i)
  BY RefreshReads
<1>2. op \in {"find", "seek", "scan", "refresh"} /\ op \notin {"find", "seek", "scan"}
  OBVIOUS
<1> QED
  BY <1>2, ReadsTell

\* Erase and EraseNode begin.
LEMMA ErasesTell ==
  ASSUME ListIInv, ListIInv', CallIInv, NEW t \in Thread, NEW me, me = th[t], NEW ks, NEW h \in 1 .. MaxHeight,
         NEW op \in {"erase", "erase_node"}, NEW k \in KeySet, k \in ks, NEW n \in Some \cup {Head},
         op = "erase" => n = me.n,
         op = "erase_node" => n \in Chain(0) /\ ~deleting[n][0] /\ k = Key[n],
         BeginCall(t, op, ks), NEW r, ErasesAs(me, r, h, op, k, n), Put(t, r),
         stale' = [stale EXCEPT ![t] = retired], UNCHANGED <<links, counts>>
  PROVE  CallIInv'
<1>1. /\ r.pc = "read" /\ r.op = op /\ r.k = k /\ r.n = n /\ r.then = "pick" /\ r.x = Head /\ r.after = Tail
      /\ r.sh = h /\ r.prev = [l \in 0 .. MaxHeight |-> Head] /\ r.nxt = [l \in 0 .. MaxHeight |-> Tail]
      /\ r.y = me.y /\ r.z = me.z
  BY DEF ErasesAs
<1>2. me.n \in {Head, Tail} /\ me.y \in {Head, Tail} /\ me.z \in {Head, Tail}
  <2>1. me.pc = "idle"
    BY DEF BeginCall
  <2> QED
    BY <2>1 DEF CallIInv, Told, Clean
<1>3. Onward /\ retired' = retired /\ deleting' = deleting /\ \A l \in Level : Chain(l)' = Chain(l)
  BY StillOnward
<1>4. Moves(t, r)
  BY PutMoves, NowFacts DEF Threads
<1>5. ~Won(r) /\ ~Building(r)
  BY <1>1 DEF Won, Building
<1> PICK old : old = retired
  OBVIOUS
<1>6. old \in {retired, stale[t]} /\ stale' = [stale EXCEPT ![t] = old]
  OBVIOUS
<1>6a. Aged(t, old)
  BY <1>3, <1>6 DEF Aged
<1>6b. Recorded /\ Winners
  BY DEF CallIInv
<1>7. /\ Recorded' /\ Winners' /\ \A u \in Thread \ {t} : Remembers(u)
      /\ \A q \in KeySet : q \in ks <=> seen'[t][q] # {}
  BY <1>4, <1>5, <1>6a, <1>6b, BeginHistory
<1>8. Starts(t, r)'
  <2>1. Head \notin stale'[t] /\ Tail \notin stale'[t] /\ stale'[t] = retired
    BY <1>6, <1>7, NodeFacts DEF Recorded, CallIInv
  <2>2. Asks(t, r)'
    BY <1>1, <1>7 DEF Asks
  <2>3. r.sh \in 0 .. MaxHeight
    BY <1>1, NodeFacts
  <2>4. r.y \notin stale'[t] /\ r.z \notin stale'[t]
    BY <1>1, <1>2, <2>1
  <2>5. CASE op = "erase"
    <3>1. r.n \notin stale'[t] /\ r.op = "erase"
      BY <1>1, <1>2, <2>1, <2>5
    <3> QED
      BY <1>1, <1>5, <2>2, <2>3, <2>4, <3>1 DEF Starts
  <2>6. CASE op = "erase_node"
    <3>1. n \in Node /\ n \notin retired /\ n \in Chain(0) /\ ~deleting[n][0] /\ 0 \in Level
      BY <2>6, ChainLive, NodeFacts
    <3>2. Key[n] \in present
      BY <3>1, KeyPresent
    <3>3. SawIn(t, n)'
      <4>1. present' = present /\ k = Key[n]
        BY <2>6 DEF BeginCall
      <4>2. TRUE \in seen'[t][k]
        BY <1>7, <3>2, <4>1 DEF Recorded
      <4> QED
        BY <1>3, <3>1, <4>1, <4>2 DEF SawIn
    <3>4. r.n \notin stale'[t] /\ SawIn(t, r.n)' /\ r.n \in Node /\ r.n \in Chain(0)'
      BY <1>1, <1>3, <2>1, <3>1, <3>3
    <3>5. r.op = "erase_node"
      BY <1>1, <2>6
    <3> QED
      BY <1>1, <1>5, <2>2, <2>3, <2>4, <3>4, <3>5 DEF Starts
  <2> QED
    BY <2>5, <2>6
<1> QED
  BY <1>3, <1>4, <1>7, <1>8, BeginTells

\* The call Erase keeps the invariant.
LEMMA EraseTells ==
  ASSUME ListIInv, ListIInv', CallIInv, NEW t \in Thread, NEW m \in plan[t].nodes, Erase(t, Key[m])
  PROVE  CallIInv'
<1> PICK me : me = th[t]
  OBVIOUS
<1> PICK k, h, n, ks, op : k = Key[m] /\ h = now_height /\ n = me.n /\ ks = {k} /\ op = "erase"
  OBVIOUS
<1>1. k \in KeySet /\ h \in 1 .. MaxHeight /\ n \in Some \cup {Head} /\ k \in ks /\ op \in {"erase", "erase_node"}
  <2>1. LocalType(me)
    BY OwnerFacts DEF ListIInv, ThreadInv
  <2>2. k \in KeySet
    BY BeginFacts, KeyFacts
  <2> QED
    BY <2>1, <2>2, BeginFacts DEF LocalType
<1>2. Erase(t, k)
  OBVIOUS
<1> PICK r : Put(t, r) /\ ErasesAs(me, r, h, op, k, n)
  BY <1>2, EraseIs
<1>4. BeginCall(t, op, ks) /\ UNCHANGED <<links, counts>> /\ stale' = [stale EXCEPT ![t] = retired]
  BY DEF Erase
<1>5. op # "erase_node"
  OBVIOUS
<1> QED
  BY <1>1, <1>4, <1>5, ErasesTell

\* The call EraseNode keeps the invariant.
LEMMA EraseNodeTells ==
  ASSUME ListIInv, ListIInv', CallIInv, NEW t \in Thread, NEW n \in plan[t].nodes, EraseNode(t, n)
  PROVE  CallIInv'
<1> PICK me : me = th[t]
  OBVIOUS
<1> PICK k, h, ks, op : k = Key[n] /\ h = Larger(height[n], now_height) /\ ks = {k} /\ op = "erase_node"
  OBVIOUS
<1>1. k \in KeySet /\ n \in Node /\ n \in Some \cup {Head} /\ k \in ks /\ op \in {"erase", "erase_node"}
  BY BeginFacts, KeyFacts DEF Some
<1>2. h \in 1 .. MaxHeight
  BY <1>1, LargerIn
<1> PICK r : Put(t, r) /\ ErasesAs(me, r, h, op, k, n)
  BY EraseNodeIs
<1>4. /\ BeginCall(t, op, ks) /\ UNCHANGED <<links, counts>> /\ stale' = [stale EXCEPT ![t] = retired]
      /\ n \in Chain(0) /\ ~deleting[n][0]
  BY DEF EraseNode
<1>5. op # "erase"
  OBVIOUS
<1> QED
  BY <1>1, <1>2, <1>4, <1>5, ErasesTell

\* To prepare a node changes nothing that is linked.
LEMMA PrepareOnward ==
  ASSUME ListIInv, NEW n \in Node, NEW h, Prepare(n, h)
  PROVE  Onward /\ retired' = retired /\ n \notin retired
<1>1. height[n] = 0 /\ deleting' = deleting /\ retired' = retired
  BY DEF Prepare
<1>2. ~WasLinked(n)
  BY <1>1 DEF WasLinked
<1>3. \A m \in Linkable : m # n => next'[m] = next[m]
  BY NowFacts DEF Prepare, Types
<1>4. \A m \in Node, l \in Level : deleting[m][l] => next'[m][l] = next[m][l]
  <2>1. \A m \in Node, l \in Level : deleting[m][l] => m # n
    BY <1>2, NowFacts DEF Marks
  <2> QED
    BY <1>3, <2>1 DEF Linkable
<1>5. \A l \in Level : \A x \in Chain(l) \cup {Head} : next'[x][l] = next[x][l]
  <2>1. \A l \in Level : \A x \in Chain(l) \cup {Head} : x \in Linkable /\ x # n
    BY <1>2, ChainLive, NodeFacts DEF Linkable
  <2> QED
    BY <1>3, <2>1
<1>6. \A l \in Level : Chain(l)' = Chain(l)
  BY <1>5, NowFacts, ChainsSame
<1>7. n \notin retired
  BY <1>2, NowFacts DEF Counts
<1> QED
  BY <1>1, <1>4, <1>6, <1>7, OnwardChains

\* An insert begins with a whole search.
LEMMA WholeTells ==
  ASSUME ListIInv, ListIInv', CallIInv, NEW t \in Thread, NEW me, me = th[t], NEW op, NEW ks,
         BeginCall(t, op, ks), NEW n \in Node, Key[n] \in ks, NEW g, Prepare(n, g),
         NEW h \in 1 .. MaxHeight, Put(t, WholeSearch(Inserting(t, n), h)),
         NEW old, old \in {retired, stale[t]}, stale' = [stale EXCEPT ![t] = old]
  PROVE  CallIInv'
<1> PICK q : q = Inserting(t, n)
  OBVIOUS
<1> PICK r : r = WholeSearch(q, h)
  OBVIOUS
<1>0. me.pc = "idle" /\ DOMAIN me = Locals
  BY BeginFacts DEF BeginCall
<1>1. InsertsAs(me, q, n)
  BY <1>0, InsertingIs
<1>2. WholeAs(q, r, h)
  BY <1>1, WholeSearchIs DEF InsertsAs
<1>3. /\ q.op = "insert" /\ q.k = Key[n] /\ q.n = n /\ q.then = "link0" /\ q.y = me.y /\ q.z = me.z
  BY <1>1 DEF InsertsAs, Locals
<1>4. /\ r.pc = "read" /\ r.x = Head /\ r.after = Tail
      /\ r.sh = h /\ r.prev = [l \in 0 .. MaxHeight |-> Head] /\ r.nxt = [l \in 0 .. MaxHeight |-> Tail]
      /\ r.op = "insert" /\ r.k = Key[n] /\ r.n = n /\ r.then = "link0" /\ r.y = me.y /\ r.z = me.z
  BY <1>2, <1>3 DEF WholeAs, Locals
<1>5. me.y \in {Head, Tail} /\ me.z \in {Head, Tail}
  BY <1>0 DEF CallIInv, Told, Clean
<1>6. Onward /\ retired' = retired /\ n \notin retired
  BY PrepareOnward
<1>7. Moves(t, r)
  BY PutMoves, NowFacts DEF Threads
<1>8. ~Won(r) /\ ~Building(r)
  BY <1>4 DEF Won, Building
<1>8a. Aged(t, old)
  BY <1>6 DEF Aged
<1>8b. Recorded /\ Winners
  BY DEF CallIInv
<1>9. /\ Recorded' /\ Winners' /\ \A u \in Thread \ {t} : Remembers(u)
      /\ \A x \in KeySet : x \in ks <=> seen'[t][x] # {}
  BY <1>7, <1>8, <1>8a, <1>8b, BeginHistory
<1>10. Starts(t, r)'
  <2>1. Head \notin stale'[t] /\ Tail \notin stale'[t] /\ n \notin stale'[t]
    BY <1>6, <1>9, NodeFacts DEF Recorded
  <2>2. Asks(t, r)'
    BY <1>4, <1>9, KeyFacts DEF Asks
  <2>3. r.sh \in 0 .. MaxHeight
    BY <1>4, NodeFacts
  <2> QED
    BY <1>4, <1>5, <1>8, <2>1, <2>2, <2>3 DEF Starts
<1> QED
  BY <1>6, <1>7, <1>9, <1>10, BeginTells

\* The largest height, with a node prepared.
LEMMA HeightIn ==
  ASSUME ListIInv, NEW n, NEW h \in 1 .. MaxHeight, Prepare(n, h)
  PROVE  now_height' \in 1 .. MaxHeight
<1>1. now_height \in 1 .. MaxHeight
  BY DEF ListIInv, Types
<1> QED
  BY <1>1, NodeFacts DEF Prepare, Larger

\* The call Insert keeps the invariant.
LEMMA InsertTells ==
  ASSUME ListIInv, ListIInv', CallIInv, NEW t \in Thread, NEW n \in plan[t].nodes, NEW h \in 1 .. MaxHeight,
         Insert(t, n, h)
  PROVE  CallIInv'
<1> PICK me, g, op, ks, old : me = th[t] /\ g = now_height' /\ op = "insert" /\ ks = {Key[n]} /\ old = retired
  OBVIOUS
<1>1. BeginCall(t, op, ks) /\ Prepare(n, h) /\ n \in Node /\ stale' = [stale EXCEPT ![t] = old]
  BY BeginFacts DEF Insert
<1>2. Put(t, WholeSearch(Inserting(t, n), g)) /\ g \in 1 .. MaxHeight
  BY <1>1, HeightIn DEF Insert
<1>3. old \in {retired, stale[t]} /\ Key[n] \in ks
  OBVIOUS
<1> QED
  BY <1>1, <1>2, <1>3, WholeTells

\* r goes on with the splice that me has left, to insert n
AgainAs(me, r, n, fix) ==
    /\ r.pc = "valid" /\ r.op = "insert" /\ r.k = Key[n] /\ r.n = n /\ r.then = "link0" /\ r.fix = fix
    /\ r.x = me.x /\ r.y = me.y /\ r.z = me.z /\ r.after = me.after
    /\ r.prev = me.prev /\ r.nxt = me.nxt /\ r.sh = me.sh

\* What a thread knows that goes on with the splice it has left.
LEMMA AgainTold ==
  ASSUME Recorded', NEW t \in Thread, NEW me, me.pc = "idle", NEW W, Visit(me, W), Clean(t, me),
         NEW n \in Node, n \notin stale[t], stale'[t] = stale[t], seen'[t][Key[n]] # {},
         NEW fix \in {"partial", "whole"}, NEW r, AgainAs(me, r, n, fix)
  PROVE  Visit(r, W) /\ Clean(t, r)' /\ Knows(t, r)' /\ ~Won(r)
<1>0. /\ r.pc = "valid" /\ r.op = "insert" /\ r.k = Key[n] /\ r.n = n /\ r.then = "link0" /\ r.fix = fix
      /\ r.x = me.x /\ r.y = me.y /\ r.z = me.z /\ r.after = me.after
      /\ r.prev = me.prev /\ r.nxt = me.nxt /\ r.sh = me.sh
  BY DEF AgainAs
<1>1. ~Building(r) /\ ~Won(r)
  BY <1>0 DEF Building, Won
<1>2. Visit(r, W)
  BY <1>0, <1>1 DEF Visit, Searching
<1>3. Clean(t, r)'
  <2>1. Known(r) \subseteq Known(me) \cup {n}
    BY <1>0 DEF Known
  <2> QED
    BY <1>0, <2>1 DEF Clean
<1>4. Knows(t, r)'
  <2>1. Asks(t, r)'
    BY <1>0, KeyFacts DEF Asks
  <2>2. Sights(t, r)'
    BY <1>0 DEF Sights, Reader, Searching
  <2> QED
    BY <1>0, <2>1, <2>2 DEF Knows, Answer
<1> QED
  BY <1>1, <1>2, <1>3, <1>4

\* An insert goes on with the splice the insert before has left.
LEMMA PartTells ==
  ASSUME ListIInv, ListIInv', CallIInv, NEW t \in Thread, NEW me, me = th[t], NEW op, NEW ks,
         BeginCall(t, op, ks), NEW n \in Node, Key[n] \in ks, NEW g, Prepare(n, g),
         NEW fix \in {"partial", "whole"}, Put(t, [Inserting(t, n) EXCEPT !.pc = "valid", !.fix = fix]),
         stale' = stale
  PROVE  CallIInv'
<1> PICK q : q = Inserting(t, n)
  OBVIOUS
<1> PICK r : r = [q EXCEPT !.pc = "valid", !.fix = fix]
  OBVIOUS
<1>0. me.pc = "idle" /\ DOMAIN me = Locals
  BY BeginFacts DEF BeginCall
<1>1. InsertsAs(me, q, n)
  BY <1>0, InsertingIs
<1>2. DOMAIN r = Locals /\ r.pc = "valid" /\ r.fix = fix /\ \A f \in Locals \ {"pc", "fix"} : r[f] = q[f]
  BY <1>1 DEF InsertsAs, Locals
<1>3. /\ q.op = "insert" /\ q.k = Key[n] /\ q.n = n /\ q.then = "link0"
      /\ q.x = me.x /\ q.y = me.y /\ q.z = me.z /\ q.after = me.after
      /\ q.prev = me.prev /\ q.nxt = me.nxt /\ q.sh = me.sh
  BY <1>1 DEF InsertsAs, Locals
<1>4. /\ r.op = "insert" /\ r.k = Key[n] /\ r.n = n /\ r.then = "link0"
      /\ r.x = me.x /\ r.y = me.y /\ r.z = me.z /\ r.after = me.after
      /\ r.prev = me.prev /\ r.nxt = me.nxt /\ r.sh = me.sh
  BY <1>2, <1>3 DEF Locals
<1>5. Onward /\ retired' = retired /\ n \notin retired
  BY PrepareOnward
<1>6. Moves(t, r)
  BY PutMoves, NowFacts DEF Threads
<1>7. ~Won(r)
  BY <1>2, <1>4 DEF Won, Building
<1> PICK old : old = stale[t]
  OBVIOUS
<1>8. old \in {retired, stale[t]} /\ stale' = [stale EXCEPT ![t] = old]
  BY DEF CallIInv, Recorded
<1>8a. Aged(t, old)
  BY <1>5, <1>8 DEF Aged
<1>8b. Recorded /\ Winners
  BY DEF CallIInv
<1>9. /\ Recorded' /\ Winners' /\ \A u \in Thread \ {t} : Remembers(u)
      /\ \A x \in KeySet : x \in ks <=> seen'[t][x] # {}
  BY <1>6, <1>7, <1>8a, <1>8b, BeginHistory
<1>10. \A u \in Thread \ {t} : \E W : Told(u, th[u], W)'
  BY <1>5, <1>6, <1>9, OthersTold
<1>11. \E W : Told(t, r, W)'
  <2> PICK W : Told(t, me, W)
    BY DEF CallIInv
  <2> PICK V : Grown(W, V)
    BY DEF Grown
  <2> PICK name, new : name = me.op /\ new = "insert"
    OBVIOUS
  <2>1. Been(t, name, W) /\ ~Reader(new)
    BY DEF Told, Reader
  <2>2. Been(t, new, V)' /\ \A l \in Level : W[l] \subseteq V[l] /\ Chain(l)' \subseteq V[l]
    BY <1>5, <1>9, <2>1, BeenMeets
  <2>3. Visit(me, V) /\ Clean(t, me)
    BY <2>2, VisitGrows, NowFacts DEF Told
  <2>4. n \notin stale[t] /\ seen'[t][Key[n]] # {}
    BY <1>5, <1>9, KeyFacts DEF CallIInv, Recorded
  <2>4a. AgainAs(me, r, n, fix)
    BY <1>2, <1>4 DEF AgainAs
  <2>4b. stale'[t] = stale[t]
    OBVIOUS
  <2>5. Visit(r, V) /\ Clean(t, r)' /\ Knows(t, r)'
    BY <1>0, <1>9, <2>3, <2>4, <2>4a, <2>4b, AgainTold
  <2>6. Visit(r, V)'
    BY <2>5 DEF Visit
  <2>7. Been(t, r.op, V)'
    BY <1>4, <2>2
  <2> QED
    BY <2>5, <2>6, <2>7 DEF Told
<1>12. r = th'[t]
  BY <1>6 DEF Moves
<1> QED
  BY <1>9, <1>10, <1>11, <1>12 DEF CallIInv

\* The call InsertAgain keeps the invariant.
LEMMA InsertAgainTells ==
  ASSUME ListIInv, ListIInv', CallIInv, NEW t \in Thread, NEW n \in plan[t].nodes, NEW h \in 1 .. MaxHeight,
         NEW fix \in {"partial", "whole"}, InsertAgain(t, n, h, fix)
  PROVE  CallIInv'
<1> PICK me, g, op, ks, old : me = th[t] /\ g = now_height' /\ op = "insert_again" /\ ks = {Key[n]} /\ old = stale[t]
  OBVIOUS
<1>1. BeginCall(t, op, ks) /\ Prepare(n, h) /\ n \in Node /\ stale' = stale
  BY BeginFacts DEF InsertAgain
<1>2. g \in 1 .. MaxHeight
  BY <1>1, HeightIn
<1>3. old \in {retired, stale[t]} /\ Key[n] \in ks /\ stale' = [stale EXCEPT ![t] = old]
  BY <1>1 DEF CallIInv, Recorded
<1>4. CASE me.sh < g
  <2>1. Put(t, WholeSearch(Inserting(t, n), g))
    BY <1>4 DEF InsertAgain
  <2> QED
    BY <1>1, <1>2, <1>3, <2>1, WholeTells
<1>5. CASE ~(me.sh < g)
  <2>1. Put(t, [Inserting(t, n) EXCEPT !.pc = "valid", !.fix = fix])
    BY <1>5 DEF InsertAgain
  <2> QED
    BY <1>1, <1>3, <2>1, PartTells
<1> QED
  BY <1>4, <1>5

\* A thread between calls, with the splice it has left.
LEMMA RestTold ==
  ASSUME NEW t \in Thread, NEW r, r.pc = "idle", r.op = "none", r.then = "none",
         {r.n, r.x, r.y, r.z, r.after} \subseteq {Head, Tail}, stale'[t] \cap Known(r) = {},
         NEW W, \A l \in 0 .. r.sh - 1 : Inside(W, r.prev[l], l)
  PROVE  Visit(r, W) /\ Clean(t, r)' /\ Knows(t, r)' /\ ~Won(r)
<1>1. ~Building(r) /\ ~Won(r)
  BY DEF Building, Won, SpliceOps
<1>2. Visit(r, W)
  BY <1>1 DEF Visit, Searching
<1>3. Clean(t, r)'
  BY DEF Clean, Known
<1>4. Asks(t, r)' /\ Answer(t, r)'
  BY DEF Asks, Answer, SpliceOps
<1>5. Sights(t, r)'
  BY DEF Sights, Reader, Searching
<1> QED
  BY <1>1, <1>2, <1>3, <1>4, <1>5 DEF Knows

\* The history, when a call returns.
LEMMA ReturnHistory ==
  ASSUME Recorded, Winners, NEW t \in Thread, NEW r, Moves(t, r), ~Won(r), retired' = retired, present' = present,
         seen' = [seen EXCEPT ![t] = [k \in KeySet |-> {}]], won' = won \ {t},
         NEW old, old \in {{}, stale[t]}, stale' = [stale EXCEPT ![t] = old]
  PROVE  Recorded' /\ Winners' /\ \A u \in Thread \ {t} : Remembers(u)
<1> PICK f : f = [k \in KeySet |-> {}]
  OBVIOUS
<1>1. f \in [KeySet -> SUBSET BOOLEAN] /\ \A q \in KeySet : f[q] = {}
  OBVIOUS
<1>2. seen' = [seen EXCEPT ![t] = f] /\ seen'[t] = f /\ \A u \in Thread \ {t} : seen'[u] = seen[u]
  BY DEF Recorded
<1>3. old \in SUBSET Node /\ old \subseteq retired
  BY DEF Recorded
<1>4. stale' \in [Thread -> SUBSET Node] /\ stale'[t] = old /\ \A u \in Thread \ {t} : stale'[u] = stale[u]
  BY <1>3 DEF Recorded
<1>5. Recorded'
  <2>1. seen' \in [Thread -> [KeySet -> SUBSET BOOLEAN]]
    BY <1>1, <1>2 DEF Recorded
  <2>2. \A u \in Thread, q \in KeySet : seen'[u][q] # {} =>
          IF q \in present THEN TRUE \in seen'[u][q] ELSE FALSE \in seen'[u][q]
    BY <1>1, <1>2 DEF Recorded
  <2>3. \A u \in Thread : stale'[u] \subseteq retired
    BY <1>3, <1>4 DEF Recorded
  <2> QED
    BY <1>4, <2>1, <2>2, <2>3 DEF Recorded
<1>6. Winners'
  <2> SUFFICES ASSUME NEW u \in Thread PROVE u \in won' <=> Won(th'[u])
    BY DEF Winners
  <2>1. CASE u = t
    <3>1. th'[u] = r
      BY <2>1 DEF Moves
    <3> QED
      BY <2>1, <3>1
  <2>2. CASE u # t
    <3>1. th'[u] = th[u]
      BY <2>2 DEF Moves
    <3> QED
      BY <2>2, <3>1 DEF Winners
  <2> QED
    BY <2>1, <2>2
<1> QED
  BY <1>2, <1>4, <1>5, <1>6 DEF Remembers

\* The step Return keeps the invariant.
LEMMA ReturnTells == ASSUME ListIInv, ListIInv', CallIInv, NEW t \in Thread, Return(t) PROVE CallIInv'
<1> PICK me : me = th[t]
  OBVIOUS
<1> PICK i : i = IdleThread
  OBVIOUS
<1> PICK r : r = [i EXCEPT !.prev = me.prev, !.nxt = me.nxt, !.sh = me.sh]
  OBVIOUS
<1> PICK old : old = IF me.sh > 0 THEN stale[t] ELSE {}
  OBVIOUS
<1>1. /\ Put(t, r) /\ seen' = [seen EXCEPT ![t] = [k \in KeySet |-> {}]] /\ won' = won \ {t}
      /\ UNCHANGED <<links, retired, present>>
  BY DEF Return, Put
<1>2. stale' = [stale EXCEPT ![t] = old] /\ old \in {{}, stale[t]}
  BY DEF Return
<1>3. /\ DOMAIN i = Locals /\ i.pc = "idle" /\ i.op = "none" /\ i.then = "none"
      /\ i.n = Tail /\ i.x = Head /\ i.y = Tail /\ i.z = Tail /\ i.after = Tail
  BY DEF IdleThread, Locals
<1>4. /\ r.pc = "idle" /\ r.op = "none" /\ r.then = "none"
      /\ r.n = Tail /\ r.x = Head /\ r.y = Tail /\ r.z = Tail /\ r.after = Tail
      /\ r.prev = me.prev /\ r.nxt = me.nxt /\ r.sh = me.sh
  BY <1>3 DEF Locals
<1>5. Onward /\ retired' = retired /\ present' = present
  <2>1. next' = next /\ deleting' = deleting /\ retired' = retired /\ present' = present
    BY <1>1 DEF links
  <2>2. \A l \in Level : Chain(l)' = Chain(l)
    BY <2>1, NowFacts, ChainsSame
  <2> QED
    BY <2>1, <2>2, OnwardChains
<1>6. Moves(t, r)
  BY <1>1, PutMoves, NowFacts DEF Threads
<1>7. ~Won(r)
  BY <1>4 DEF Won, Building, SpliceOps
<1>8. Recorded' /\ Winners' /\ \A u \in Thread \ {t} : Remembers(u)
  BY <1>1, <1>2, <1>5, <1>6, <1>7, ReturnHistory DEF CallIInv
<1>9. \A u \in Thread \ {t} : \E W : Told(u, th[u], W)'
  BY <1>5, <1>6, <1>8, OthersTold
<1>10. stale'[t] = old
  BY <1>2 DEF CallIInv, Recorded
<1>11. {r.n, r.x, r.y, r.z, r.after} \subseteq {Head, Tail}
  BY <1>4
<1>12. CASE me.sh > 0
  <2> PICK W : Told(t, me, W)
    BY DEF CallIInv
  <2> PICK V : Grown(W, V)
    BY DEF Grown
  <2> PICK name, new : name = me.op /\ new = "none"
    OBVIOUS
  <2>1. Been(t, name, W) /\ ~Reader(new) /\ stale'[t] = stale[t]
    BY <1>10, <1>12 DEF Told, Reader
  <2>2. Been(t, new, V)' /\ \A l \in Level : W[l] \subseteq V[l] /\ Chain(l)' \subseteq V[l]
    BY <1>5, <1>8, <2>1, BeenMeets
  <2>3. Visit(me, V) /\ Clean(t, me)
    BY <2>2, VisitGrows, NowFacts DEF Told
  <2>4. \A l \in 0 .. r.sh - 1 : Inside(V, r.prev[l], l)
    BY <1>4, <2>3 DEF Visit
  <2>5. stale'[t] \cap Known(r) = {}
    <3>1. Known(r) \subseteq Known(me) \cup {Head, Tail}
      BY <1>4 DEF Known
    <3>2. Head \notin stale'[t] /\ Tail \notin stale'[t]
      BY <1>8, NodeFacts DEF Recorded
    <3> QED
      BY <2>1, <2>3, <3>1, <3>2 DEF Clean
  <2>6. Visit(r, V) /\ Clean(t, r)' /\ Knows(t, r)'
    BY <1>4, <1>11, <2>4, <2>5, RestTold
  <2>7. Visit(r, V)' /\ Been(t, r.op, V)'
    BY <1>4, <2>2, <2>6 DEF Visit
  <2>8. Told(t, r, V)' /\ r = th'[t]
    BY <1>6, <2>6, <2>7 DEF Told, Moves
  <2> QED
    BY <1>8, <1>9, <2>8 DEF CallIInv
<1>13. CASE ~(me.sh > 0)
  <2>2. PICK W : \A op : Been(t, op, W)'
    BY <1>8, BeenPrime
  <2>3. 0 .. r.sh - 1 = {}
    <3>1. me.sh \in 0 .. MaxHeight
      BY NowFacts DEF ThreadInv, LocalType
    <3> QED
      BY <1>4, <1>13, <3>1, NodeFacts
  <2>4. stale'[t] \cap Known(r) = {}
    BY <1>10, <1>13
  <2>5. Visit(r, W) /\ Clean(t, r)' /\ Knows(t, r)'
    BY <1>4, <1>11, <2>3, <2>4, RestTold
  <2> PICK op : op = r.op
    OBVIOUS
  <2>6. Visit(r, W)' /\ Been(t, op, W)'
    BY <2>2, <2>5 DEF Visit
  <2>7. Told(t, r, W)' /\ r = th'[t]
    BY <1>6, <2>5, <2>6 DEF Told, Moves
  <2> QED
    BY <1>8, <1>9, <2>7 DEF CallIInv
<1> QED
  BY <1>12, <1>13

-------------------------------------------------------------------------------
\* Nothing happens.
LEMMA CallStutters == ASSUME ListIInv, ListIInv', CallIInv, UNCHANGED vars PROVE CallIInv'
<1>1. /\ next' = next /\ deleting' = deleting /\ retired' = retired /\ present' = present
      /\ seen' = seen /\ won' = won /\ stale' = stale /\ th' = th
  BY DEF vars, links, counts, keys, call
<1>2. \A l \in Level : Chain(l)' = Chain(l)
  BY <1>1, NowFacts, ChainsSame
<1>3. Onward
  BY <1>1, <1>2, OnwardChains
<1>4. Recorded'
  BY <1>1 DEF CallIInv, Recorded
<1>5. Winners'
  BY <1>1 DEF CallIInv, Winners
<1>6. ASSUME NEW t \in Thread PROVE \E W : Told(t, th[t], W)'
  <2> PICK o : o = th[t]
    OBVIOUS
  <2>1. ThreadInv(o) /\ \E W : Told(t, o, W)
    BY NowFacts DEF CallIInv
  <2>2. Remembers(t)
    BY <1>1 DEF Remembers
  <2>3. \E W : Told(t, o, W)'
    BY <1>3, <1>4, <2>1, <2>2, TellKept DEF CallIInv
  <2>4. o = th'[t]
    BY <1>1
  <2> QED
    BY <2>3, <2>4
<1> QED
  BY <1>4, <1>5, <1>6 DEF CallIInv

\* Every step keeps the invariant.
LEMMA CallStep == ASSUME ListIInv, ListIInv', CallIInv, [Next]_vars PROVE CallIInv'
<1>1. ASSUME NEW t \in Thread, Call(t) PROVE CallIInv'
  <2>1. \A n \in plan[t].nodes : Key[n] \in Int
    BY BeginFacts
  <2>2. CASE \E n \in plan[t].nodes, h \in 1 .. MaxHeight :
               Insert(t, n, h) \/ \E fix \in {"partial", "whole"} : InsertAgain(t, n, h, fix)
    BY <2>2, InsertTells, InsertAgainTells
  <2>3. CASE \E n \in plan[t].nodes : EraseNode(t, n)
    BY <2>3, EraseNodeTells
  <2>4. CASE \E n \in plan[t].nodes : Erase(t, Key[n]) \/ Find(t, Key[n])
    BY <2>4, EraseTells, FindTells
  <2>5. CASE \E n \in plan[t].nodes, mode \in {"le", "lt", "ge", "gt"} : Seek(t, mode, Key[n])
    <3> PICK n \in plan[t].nodes, mode \in {"le", "lt", "ge", "gt"} : Seek(t, mode, Key[n])
      BY <2>5
    <3> PICK k : k = Key[n]
      OBVIOUS
    <3>1. Seek(t, mode, k) /\ k \in Int /\ mode \in {"le", "lt", "ge", "gt", "last"}
      BY <2>1
    <3> QED
      BY <3>1, SeekTells
  <2>6. CASE Seek(t, "last", 0)
    <3> PICK k : k = 0
      OBVIOUS
    <3> PICK mode : mode = "last"
      OBVIOUS
    <3>1. Seek(t, mode, k) /\ k \in Int /\ mode \in {"le", "lt", "ge", "gt", "last"}
      BY <2>6
    <3> QED
      BY <3>1, SeekTells
  <2>7. CASE Scan(t) \/ RefreshAllLinks(t)
    BY <2>7, ScanTells, RefreshTells
  <2> QED
    BY <1>1, <2>2, <2>3, <2>4, <2>5, <2>6, <2>7 DEF Call
<1>2. ASSUME NEW t \in Thread, Step(t) PROVE CallIInv'
  BY <1>2, ReadTells, SkipTells, CheckTells, UnlinkTells, UnrefTells, ProbeTells, ValidateTells, Link0Tells,
     DirtyTells, OwnTells, RefTells, LinkTells, UndoTells, MarkTells, CutTells, CutRefTells,
     ReturnTells DEF Step
<1> QED
  BY <1>1, <1>2, CallStutters DEF Next

\* Before the first call.
LEMMA CallBegins == ASSUME Init, ListIInv PROVE CallIInv
<1>1. /\ th = [t \in Thread |-> IdleThread] /\ seen = [t \in Thread |-> [k \in KeySet |-> {}]]
      /\ won = {} /\ stale = [t \in Thread |-> {}]
  BY DEF Init, InitFrom
<1>2. Recorded
  BY <1>1 DEF Recorded
<1> PICK r : r = IdleThread
  OBVIOUS
<1>3. /\ r.pc = "idle" /\ r.op = "none" /\ r.then = "none" /\ r.sh = 0
      /\ r.n = Tail /\ r.x = Head /\ r.y = Tail /\ r.z = Tail /\ r.after = Tail
  BY DEF IdleThread
<1>4. ~Won(r) /\ ~Building(r)
  BY <1>3 DEF Won, Building, SpliceOps
<1>5. Winners
  BY <1>1, <1>4 DEF Winners
<1>6. ASSUME NEW t \in Thread PROVE \E W : Told(t, th[t], W)
  <2> PICK W : \A op : Been(t, op, W)
    BY <1>2, BeenAll
  <2> PICK op : op = r.op
    OBVIOUS
  <2>1. Been(t, op, W)
    OBVIOUS
  <2>2. Visit(r, W)
    <3>1. 0 .. r.sh - 1 = {}
      BY <1>3
    <3> QED
      BY <1>3, <1>4, <3>1 DEF Visit, Searching
  <2>3. Clean(t, r)
    BY <1>1, <1>3 DEF Clean
  <2>4. Knows(t, r)
    BY <1>3 DEF Knows, Asks, Sights, Answer, SpliceOps, Reader, Searching
  <2>5. Told(t, r, W) /\ r = th[t]
    BY <1>1, <2>1, <2>2, <2>3, <2>4 DEF Told
  <2> QED
    BY <2>5
<1> QED
  BY <1>2, <1>5, <1>6 DEF CallIInv

\* Every reachable state satisfies the invariant.
LEMMA CallIInvHolds == Spec => [](ListIInv /\ CallIInv)
<1>1. Init /\ ListIInv => CallIInv
  BY CallBegins
<1>2. ListIInv /\ ListIInv' /\ CallIInv /\ [Next]_vars => CallIInv'
  BY CallStep
<1> QED
  BY <1>1, <1>2, ListIInvHolds, PTL DEF Spec

-------------------------------------------------------------------------------
\* What the invariant says of the thread t.
LEMMA CallFacts ==
  ASSUME ListIInv, CallIInv, NEW t \in Thread, NEW me, me = th[t]
  PROVE  /\ ThreadInv(me) /\ (t \in won <=> Won(me))
         /\ Clean(t, me) /\ Asks(t, me) /\ Answer(t, me)
<1>1. ThreadInv(me)
  BY NowFacts
<1> PICK W : Told(t, me, W)
  BY DEF CallIInv
<1> QED
  BY <1>1 DEF CallIInv, Winners, Told, Knows

\* Who reports a change has made it, and who reports none has seen why.
LEMMA LinearizableNow == ListIInv /\ CallIInv => Linearizable
<1> SUFFICES ASSUME ListIInv, CallIInv, NEW t \in Thread, NEW me, me = th[t], me.pc = "done"
             PROVE  /\ me.op \in {"insert", "erase", "erase_node"} => (me.res <=> t \in won)
                    /\ me.op = "insert" /\ ~me.res => TRUE \in seen[t][me.k] \/ me.fix # "fresh"
                    /\ me.op \in {"erase", "erase_node"} /\ ~me.res => FALSE \in seen[t][me.k]
                    /\ me.op = "find" => me.res \in seen[t][me.k]
  BY DEF Linearizable
<1>1. ThreadInv(me) /\ (t \in won <=> Won(me)) /\ Answer(t, me)
  BY CallFacts
<1>2. me.op \in SpliceOps => (me.res <=> Won(me))
  <2>1. me.then = "none"
    BY <1>1 DEF ThreadInv, Shape
  <2>2. ~Building(me)
    BY DEF Building, Busy, Searching
  <2>3. me.res \in BOOLEAN
    BY <1>1 DEF ThreadInv, LocalType
  <2> QED
    BY <2>1, <2>2, <2>3 DEF Won
<1>3. me.op \in {"insert", "erase", "erase_node"} => (me.res <=> t \in won)
  BY <1>1, <1>2 DEF SpliceOps
<1> QED
  BY <1>1, <1>3 DEF Answer

\* The nodes a call knows of were not retired before it began.
LEMMA NoStaleNow == ListIInv /\ CallIInv => NoStaleVisit
<1> SUFFICES ASSUME ListIInv, CallIInv, NEW t \in Thread, NEW me, me = th[t], me.pc # "idle"
             PROVE  stale[t] \cap Known(me) = {}
  BY DEF NoStaleVisit, Known
<1> QED
  BY CallFacts DEF Clean

\* What a seek answers.
LEMMA NearestNow == ListIInv /\ CallIInv => SeekIsNearest
<1> SUFFICES ASSUME ListIInv, CallIInv, NEW t \in Thread, NEW me, me = th[t], me.pc = "done", me.op = "seek"
             PROVE  SeekAnswer(t, me)
  BY DEF SeekIsNearest, SeekAnswer
<1> QED
  BY CallFacts DEF Answer

\* What a scan answers.
LEMMA ScanNow == ListIInv /\ CallIInv => ScanSeesAll
<1> SUFFICES ASSUME ListIInv, CallIInv, NEW t \in Thread, NEW me, me = th[t], me.pc = "done", me.op = "scan"
             PROVE  ScanAnswer(t, me)
  BY DEF ScanSeesAll, ScanAnswer, GotKeys
<1> QED
  BY CallFacts DEF Answer

\* A call of insert or erase that reports a change has made it, alone; a refused
\* insert with a fresh splice and a successful find were called, and have not
\* returned, at a moment when the key was in the set, a vain erase or find at
\* one when it was not.  Whatever threads, keys and levels there are.
THEOREM LinearizableHolds == Spec => []Linearizable
BY LinearizableNow, CallIInvHolds, PTL

\* A call never stands on, or looks at, a node retired before its epoch block
\* began, not even by the frozen links of nodes unlinked later: what reclamation
\* by epochs relies on.
THEOREM NoStaleVisitHolds == Spec => []NoStaleVisit
BY NoStaleNow, CallIInvHolds, PTL

\* A seek of an iterator answers a neighbour on the right side that was in the
\* set at some moment of the call, and has overlooked no key that was there all
\* the time.
THEOREM SeekIsNearestHolds == Spec => []SeekIsNearest
BY NearestNow, CallIInvHolds, PTL

\* An iterator goes up, meets every key that was in the set all the time, and
\* none that never was.
THEOREM ScanSeesAllHolds == Spec => []ScanSeesAll
BY ScanNow, CallIInvHolds, PTL

=============================================================================
