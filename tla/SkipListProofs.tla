--------------------------- MODULE SkipListProofs ---------------------------
(***************************************************************************)
(* Proofs about SkipList, for any number of threads, nodes and levels, any *)
(* keys and any plans: ListInv and RefsExact.                              *)
(*                                                                         *)
(* The chain of a level is described by what it is, not by how it is       *)
(* walked: a sorted set of nodes, each of whose links leads to the next of *)
(* the set.  A node a thread has in its hands is either in that set or     *)
(* marked, and the links of a marked node never change.                    *)
(***************************************************************************)
EXTENDS SkipList, FiniteSetTheorems, NaturalsInduction, WellFoundedInduction, TLAPS

Some == Node \cup {Tail}
Searching == {"read", "skip", "check", "unlink", "unref"}
SpliceOps == {"insert", "erase", "erase_node"}
Busy == Searching \cup {"probe", "valid", "link0", "own", "ref", "link", "undo", "mark", "cut", "cutref"}
Locals == {"pc", "op", "k", "n", "i", "prev", "nxt", "sh", "lv", "target", "x", "y", "z", "after",
           "then", "probe", "bad", "res", "mode", "got", "fix", "tight", "alone"}

\* C is the set of nodes linked at level l
IsChain(l, C) ==
    /\ C \subseteq Node
    /\ \A m, n \in C : Key[m] = Key[n] => m = n
    /\ \A x \in C \cup {Head} :
          /\ next[x][l] \in C \cup {Tail}
          /\ x \in C /\ next[x][l] \in C => Key[x] < Key[next[x][l]]
          /\ \A z \in C : (x = Head \/ Key[x] < Key[z]) =>
                next[x][l] \in C /\ Key[next[x][l]] <= Key[z]

(***************************************************************************)
(* The thread with the local variables me has not linked its node and      *)
(* never did; or has it at the levels below i and goes on.                 *)
(***************************************************************************)
Fresh(me) ==
    me.op = "insert" /\ ((me.pc = "done" /\ ~me.res) \/ me.pc = "link0" \/ me.then = "link0")
Building(me) == me.op = "insert" /\ me.pc \in Busy /\ me.pc # "link0" /\ me.then # "link0"
Owner(me) == Fresh(me) \/ Building(me)

\* node n has been linked at level l, or is owned and marked there
Reached(n, l) ==
    \/ n = Head
    \/ /\ n \in Node /\ WasLinked(n)
       /\ l \in Level /\ l < height[n]
       /\ next[n][l] # Head
       /\ n \in Chain(l) \/ deleting[n][l]

ReachedOrTail(n, l) == n = Tail \/ (n \in Node /\ Reached(n, l))

\* node b comes after node a, or not before it
Follows(a, b) == b = Tail \/ (b \in Node /\ (a = Head \/ Key[a] < Key[b]))
NotAfter(a, b) == a = Head \/ (a \in Node /\ b \in Node /\ Key[a] <= Key[b])

(***************************************************************************)
(* The nodes.                                                              *)
(***************************************************************************)
Types ==
    /\ next \in [Linkable -> [Level -> Linkable \cup {Tail}]]
    /\ deleting \in [Linkable -> [Level -> BOOLEAN]]
    /\ height \in [Node -> 0 .. MaxHeight]
    /\ refs \in [Node -> Nat]
    /\ now_height \in 1 .. MaxHeight
    /\ \A n \in Node : height[n] <= now_height
    /\ plan \in [Thread -> [left : Nat, ops : SUBSET STRING, nodes : SUBSET Node]]

Chains == \A l \in Level : IsChain(l, Chain(l))

Links ==
    /\ \A n \in Linkable, l \in Level :
          next[n][l] \in Node => Reached(next[n][l], l) /\ Follows(n, next[n][l])
    /\ \A l \in Level : \A n \in Chain(l) : Reached(n, l)
    /\ \A n \in Node : WasLinked(n) => Reached(n, 0)
    /\ \A n \in Node, l, j \in Level :
          WasLinked(n) /\ l < height[n] /\ next[n][l] # Head /\ j < l => Reached(n, j)

Marks ==
    /\ \A l \in Level : ~deleting[Head][l]
    /\ \A n \in Node, l \in Level : deleting[n][l] => WasLinked(n)
    /\ \A n \in Node, l, j \in Level : deleting[n][l] /\ l < j => deleting[n][j]

\* a node is marked from the top down to level 0, by a thread that goes on
Marking == \A n \in Node : deleting[n][MaxHeight - 1] =>
    deleting[n][0] \/ \E t \in Thread : th[t].pc = "mark" /\ th[t].n = n

\* a node is linked at all its levels, or marked, or an insert goes on with it
Whole == \A n \in Node, l \in Level : WasLinked(n) /\ l < height[n] =>
    \/ n \in Chain(l)
    \/ deleting[n][MaxHeight - 1]
    \/ \E t \in Thread : Building(th[t]) /\ th[t].n = n /\ th[t].i <= l

(***************************************************************************)
(* The threads.                                                            *)
(***************************************************************************)
LocalType(me) ==
    /\ DOMAIN me = Locals
    /\ me.pc \in Busy \cup {"idle", "done"}
    /\ me.op \in SpliceOps \cup {"none", "find", "seek", "scan", "refresh"}
    /\ me.k \in Int /\ me.n \in Some \cup {Head}
    /\ me.i \in Nat /\ me.sh \in 0 .. MaxHeight /\ me.lv \in Nat /\ me.target \in Nat /\ me.probe \in Nat
    /\ me.prev \in [0 .. MaxHeight -> Linkable] /\ me.nxt \in [0 .. MaxHeight -> Some]
    /\ me.x \in Linkable /\ me.y \in Some /\ me.z \in Some /\ me.after \in Some
    /\ me.then \in {"none", "link0", "own", "pick", "cut"}
    /\ me.mode \in {"none", "le", "lt", "ge", "gt", "last"}
    /\ me.bad \in BOOLEAN /\ me.res \in BOOLEAN
    /\ me.fix \in {"fresh", "partial", "whole"} /\ me.tight \in BOOLEAN

\* which steps go with which call, and the levels
Shape(me) ==
    /\ me.pc = "idle" <=> me.op = "none"
    /\ me.pc \in Busy \ (Searching \cup {"probe", "valid"}) => me.then = "none"
    /\ me.pc \in {"idle", "done"} => me.then = "none" /\ me.i = 0
    /\ me.pc = "idle" => me.lv = 0
    /\ me.pc = "done" /\ me.op # "insert" => me.sh = 0
    /\ me.pc \in Busy /\ me.op \notin SpliceOps => me.pc \in Searching /\ me.then = "none"
    /\ me.pc \in {"valid", "link0", "own", "ref", "link", "undo"} => me.op = "insert"
    /\ me.pc \in {"mark", "cut", "cutref"} => me.op \in {"erase", "erase_node"}
    /\ me.pc \in Searching \cup {"probe"} =>
          /\ me.op = "insert" => me.then \in {"link0", "own"} /\ me.target = me.i
          /\ me.op \in {"erase", "erase_node"} => me.then \in {"pick", "cut"}
          /\ me.then = "pick" => me.target = 0
          /\ me.then = "cut" => me.target = 0 \/ me.target = me.i
    /\ me.pc = "valid" => me.then = "link0" /\ me.lv < me.sh
    /\ me.pc \in Searching => me.lv \in Level
    /\ me.pc \in Searching /\ me.op \in SpliceOps => me.target <= me.lv /\ me.lv < me.sh
    /\ me.pc = "probe" => me.target < me.probe /\ me.probe <= me.sh /\ me.then # "pick"
    /\ me.op = "refresh" /\ me.pc \in Busy => me.i \in 1 .. MaxHeight
    /\ me.op = "scan" /\ me.pc \in Busy => me.lv = 0
    /\ me.op = "find" /\ me.pc \in Busy => me.mode = "ge"

\* the nodes a search has in its hands
Hands(me) ==
    /\ me.pc \in Searching => Reached(me.x, me.lv)
    /\ me.pc \in Searching \ {"read"} =>
          me.y \in Node /\ Reached(me.y, me.lv) /\ Follows(me.x, me.y)
    /\ me.pc \in {"unlink", "unref"} => ReachedOrTail(me.z, me.lv) /\ Follows(me.x, me.z)
    /\ me.pc = "unlink" => deleting[me.y][me.lv] /\ next[me.y][me.lv] = me.z

\* the splice
SpliceInv(me) ==
    /\ \A l \in 0 .. me.sh - 1 : Reached(me.prev[l], l) /\ ReachedOrTail(me.nxt[l], l)
    /\ \A l \in me.sh .. MaxHeight : me.prev[l] = Head /\ me.nxt[l] = Tail

KeyOK(n, k) == n = Head \/ (n \in Node /\ Key[n] < k)
Bracket(me, l) == KeyOK(me.prev[l], me.k) /\ ~Before(me.nxt[l], me.k)
Low(me) == IF me.op = "insert" THEN me.i ELSE 0

BracketInv(me) ==
    /\ me.op \in SpliceOps /\ me.pc \in Searching =>
          /\ KeyOK(me.x, me.k)
          /\ ~Before(me.after, me.k)
          /\ \A l \in 0 .. me.sh - 1 :
                (Low(me) <= l /\ (me.lv < l \/ l < me.target)) => Bracket(me, l)
    /\ me.pc \in {"probe", "link0", "own", "ref", "link", "undo", "mark", "cut", "cutref"} =>
          \A l \in 0 .. me.sh - 1 : Low(me) <= l => Bracket(me, l)
    /\ me.pc \in {"ref", "link"} => ~Is(me.nxt[me.i], me.k)

\* the predecessors go back from level to level: of a splice that is kept, and
\* of the levels an insert has not dealt with
NestInv(me) ==
    /\ me.op = "insert" /\ me.pc \in Searching =>
          \A l \in 0 .. me.sh - 1 : me.lv < l => NotAfter(me.prev[l], me.x)
    /\ me.op \in {"none", "insert"} =>
          \A j, l \in 0 .. me.sh - 1 :
              j < l /\ (IF me.pc \in Searching THEN me.lv < j ELSE me.i <= j) =>
                  NotAfter(me.prev[l], me.prev[j])

\* what threads know of the nodes they insert and erase
NodeInv(me) ==
    /\ Owner(me) =>
          /\ me.n \in Node /\ me.k = Key[me.n]
          /\ me.pc # "done" => height[me.n] <= me.sh
    /\ Fresh(me) =>
          /\ height[me.n] > 0 /\ me.i = 0
          /\ refs[me.n] = 1 /\ me.n \notin retired
          /\ \A l \in Level : 0 < l /\ l < height[me.n] => next[me.n][l] = Head
    /\ Building(me) =>
          /\ WasLinked(me.n)
          /\ 0 < me.i /\ me.i < height[me.n]
          /\ \A l \in Level : IF l < me.i THEN Reached(me.n, l) ELSE me.n \notin Chain(l)
          /\ me.pc \in {"ref", "link"} => next[me.n][me.i] = me.nxt[me.i]
    /\ me.op = "erase_node" /\ me.pc \in Busy => me.n \in Node /\ me.k = Key[me.n]
    /\ me.pc = "mark" =>
          /\ me.n \in Node /\ me.k = Key[me.n] /\ Reached(me.n, 0)
          /\ me.i \in Level /\ \A j \in Level : me.i < j => deleting[me.n][j]
    /\ me.pc \in {"cut", "cutref"} \/ me.then = "cut" =>
          /\ me.n \in Node /\ me.k = Key[me.n] /\ WasLinked(me.n)
          /\ deleting[me.n][0]
          /\ me.i < height[me.n] /\ height[me.n] <= me.sh

ThreadInv(me) ==
    /\ LocalType(me) /\ Shape(me)
    /\ Hands(me) /\ SpliceInv(me) /\ BracketInv(me) /\ NestInv(me) /\ NodeInv(me)

Threads == DOMAIN th = Thread /\ \A t \in Thread : ThreadInv(th[t])

Owners == \A t, u \in Thread : Owner(th[t]) /\ Owner(th[u]) /\ th[t].n = th[u].n => t = u

(***************************************************************************)
(* The reference counts: one for each level a node is linked at, and one   *)
(* for each level that a thread has taken it out of, or may link it at.    *)
(***************************************************************************)
Handed(me, n, l) ==
    \/ me.pc = "unref" /\ me.y = n /\ me.lv = l
    \/ me.pc \in {"cutref", "link", "undo"} /\ me.n = n /\ me.i = l

Counted(n) == {l \in Level : n \in Chain(l) \/ \E t \in Thread : Handed(th[t], n, l)}

HandsApart ==
    /\ \A t \in Thread, n \in Node, l \in Level :
          Handed(th[t], n, l) => WasLinked(n) /\ n \notin Chain(l)
    /\ \A t, u \in Thread, n \in Node, l \in Level :
          Handed(th[t], n, l) /\ Handed(th[u], n, l) => t = u
    /\ \A t, u \in Thread, l \in Level :
          Building(th[t]) /\ th[t].i <= l /\ Handed(th[u], th[t].n, l) => t = u

Counts ==
    /\ \A n \in Node : WasLinked(n) => refs[n] = Cardinality(Counted(n)) /\ (n \in retired <=> refs[n] = 0)
    /\ \A n \in retired : n \in Node /\ WasLinked(n)
    /\ \A n \in Node : height[n] = 0 => refs[n] = 0

\* the inductive invariant
ListIInv ==
    /\ Types /\ Threads
    /\ Chains /\ Links /\ Marks /\ Marking /\ Whole
    /\ Owners /\ HandsApart /\ Counts
    /\ SetIsLevel0

-------------------------------------------------------------------------------
\* Nodes are neither the head nor the tail, and have integers for keys.
LEMMA NodeFacts ==
  /\ IsFiniteSet(Node) /\ Head \notin Node /\ Tail \notin Node /\ Head # Tail
  /\ \A n \in Node : Key[n] \in Int
  /\ MaxHeight \in Nat /\ MaxHeight >= 1 /\ Cardinality(Node) \in Nat
  /\ 0 \in Level /\ MaxHeight - 1 \in Level
BY ListAssumption, FS_CardinalityType DEF Level

\* A set of numbers has a least one.
LEMMA Least ==
  ASSUME NEW T \in SUBSET Nat, T # {}
  PROVE  \E x \in T : \A y \in T : x <= y
<1> DEFINE R == OpToRel(<, Nat)
<1>1. \A x, y \in Nat : <<y, x>> \notin R => ~(y < x)
  BY Zenon DEF OpToRel
<1>2. IsWellFoundedOn(R, Nat)
  BY NatLessThanWellFounded
<1> HIDE DEF R
<1>3. PICK x \in T : \A y \in T : <<y, x>> \notin R
  BY <1>2, WFMin
<1>4. x \in Nat /\ \A y \in T : y \in Nat /\ ~(y < x)
  BY <1>1, <1>3
<1>5. \A m, n \in Nat : ~(n < m) => m <= n
  OBVIOUS
<1> QED
  BY <1>4, <1>5

\* one step of the walk along level l, and the walk of its first m + 1 places
Ahead1(l, x) == IF x = Tail THEN Tail ELSE next[x][l]
WalkTo(l, g, m) == g = [i \in 0 .. m |-> IF i = 0 THEN Head ELSE Ahead1(l, g[i - 1])]

\* There is a walk of any length.
LEMMA WalkExists ==
  ASSUME NEW l, NEW N \in Nat
  PROVE  \E g : WalkTo(l, g, N)
<1> SUFFICES ASSUME ~\E g : WalkTo(l, g, N) PROVE FALSE
  OBVIOUS
<1> DEFINE bad == {m \in Nat : ~\E g : WalkTo(l, g, m)}
<1>1. bad \in SUBSET Nat /\ bad # {}
  OBVIOUS
<1>2. PICK m \in bad : \A n \in bad : m <= n
  BY <1>1, Least
<1>3. m \in Nat /\ ~\E g : WalkTo(l, g, m)
  OBVIOUS
<1>4. m # 0
  <2>1. WalkTo(l, [i \in 0 .. 0 |-> Head], 0)
    BY DEF WalkTo
  <2> QED
    BY <1>3, <2>1
<1>5. m - 1 \in Nat /\ m - 1 \notin bad
  BY <1>2, <1>3, <1>4
<1>6. PICK g : WalkTo(l, g, m - 1)
  BY <1>5
<1> DEFINE h == [i \in 0 .. m |-> IF i < m THEN g[i] ELSE Ahead1(l, g[m - 1])]
<1>7. DOMAIN g = 0 .. m - 1
      /\ \A i \in 0 .. m - 1 : g[i] = IF i = 0 THEN Head ELSE Ahead1(l, g[i - 1])
  BY <1>6 DEF WalkTo
<1>8. ASSUME NEW i \in 0 .. m
      PROVE  h[i] = IF i = 0 THEN Head ELSE Ahead1(l, h[i - 1])
  <2>1. CASE i = m
    BY <1>3, <1>4, <2>1
  <2>2. CASE i < m
    <3>1. i \in 0 .. m - 1 /\ (i # 0 => i - 1 \in 0 .. m /\ i - 1 < m)
      BY <1>3, <2>2
    <3> QED
      BY <1>7, <2>2, <3>1
  <2> QED
    BY <1>3, <2>1, <2>2
<1>9. WalkTo(l, h, m)
  <2>1. h = [i \in 0 .. m |-> h[i]]
    OBVIOUS
  <2> HIDE DEF h
  <2>2. [i \in 0 .. m |-> h[i]] = [i \in 0 .. m |-> IF i = 0 THEN Head ELSE Ahead1(l, h[i - 1])]
    BY <1>8
  <2> QED
    BY <2>1, <2>2 DEF WalkTo
<1> QED
  BY <1>3, <1>9

\* Walk(l) is one.
LEMMA WalkIs ==
  ASSUME NEW l
  PROVE  /\ Walk(l)[0] = Head
         /\ \A i \in 1 .. Cardinality(Node) + 1 : Walk(l)[i] = Ahead1(l, Walk(l)[i - 1])
<1> DEFINE N == Cardinality(Node) + 1
           f == CHOOSE f : f = [i \in 0 .. N |->
                  IF i = 0 THEN Head ELSE IF f[i - 1] = Tail THEN Tail ELSE next[f[i - 1]][l]]
<1>1. N \in Nat
  BY NodeFacts
<1>2. Walk(l) = f
  BY DEF Walk
<1>3. \E g : g = [i \in 0 .. N |->
                  IF i = 0 THEN Head ELSE IF g[i - 1] = Tail THEN Tail ELSE next[g[i - 1]][l]]
  BY <1>1, WalkExists DEF WalkTo, Ahead1
<1>4. f = [i \in 0 .. N |->
                  IF i = 0 THEN Head ELSE IF f[i - 1] = Tail THEN Tail ELSE next[f[i - 1]][l]]
  BY <1>3
<1> HIDE DEF f
<1>5. f[0] = Head /\ \A i \in 1 .. N : f[i] = Ahead1(l, f[i - 1])
  BY <1>1, <1>4 DEF Ahead1
<1> QED
  BY <1>1, <1>2, <1>5

\* The nodes of a chain that the walk has met after i steps.
Met(l, C, i) == {y \in C : Walk(l)[i] # Head /\ Key[y] <= Key[Walk(l)[i]]}

\* The walk of a level meets the nodes of the chain one by one.
LEMMA WalkMeets ==
  ASSUME NEW l \in Level, NEW C, IsChain(l, C), NEW m \in 0 .. Cardinality(C)
  PROVE  /\ IsFiniteSet(C) /\ Cardinality(C) \in Nat /\ Cardinality(C) <= Cardinality(Node)
         /\ Walk(l)[m] \in C \cup {Head} /\ (m > 0 => Walk(l)[m] \in C)
         /\ Cardinality(Met(l, C, m)) = m
<1> DEFINE w == Walk(l)
           c == Cardinality(C)
           Good(i) == w[i] \in C \cup {Head} /\ (i > 0 => w[i] \in C) /\ Cardinality(Met(l, C, i)) = i
           bad == {i \in 0 .. c : ~Good(i)}
<1>1. C \subseteq Node /\ Head \notin C /\ Tail \notin C /\ Tail # Head /\ \A n \in C : Key[n] \in Int
  BY NodeFacts DEF IsChain
<1>2. IsFiniteSet(C) /\ c \in Nat /\ c <= Cardinality(Node)
  BY <1>1, NodeFacts, FS_Subset, FS_CardinalityType
<1>3. w[0] = Head /\ \A i \in 1 .. c : w[i] = Ahead1(l, w[i - 1])
  BY <1>2, NodeFacts, WalkIs
<1> HIDE DEF w
<1>4. ASSUME bad # {} PROVE FALSE
  <2>1. bad \in SUBSET Nat
    BY <1>2
  <2>2. PICK i \in bad : \A j \in bad : i <= j
    BY <1>4, <2>1, Least
  <2>3. i \in 0 .. c /\ ~Good(i)
    OBVIOUS
  <2>4. i # 0
    <3>1. Met(l, C, 0) = {}
      BY <1>3 DEF Met, w
    <3>2. Good(0)
      BY <1>3, <3>1, FS_EmptySet
    <3> QED
      BY <2>3, <3>2
  <2> DEFINE x == w[i - 1]
             z == next[x][l]
  <2>5. i - 1 \in 0 .. c /\ i - 1 \notin bad
    BY <1>2, <2>2, <2>3, <2>4
  <2>6. x \in C \cup {Head} /\ Cardinality(Met(l, C, i - 1)) = i - 1
    BY <2>5
  <2>7. Met(l, C, i - 1) \subseteq C /\ IsFiniteSet(Met(l, C, i - 1)) /\ Met(l, C, i - 1) # C
    <3>1. Met(l, C, i - 1) \subseteq C
      BY DEF Met
    <3>2. i - 1 # c
      BY <1>2, <2>3
    <3> QED
      BY <1>2, <2>6, <3>1, <3>2, FS_Subset
  <2>8. PICK y \in C : y \notin Met(l, C, i - 1)
    BY <2>7
  <2>9. x = Head \/ Key[x] < Key[y]
    BY <1>1, <2>6, <2>8 DEF Met, w
  <2>10. z \in C /\ (x \in C => Key[x] < Key[z])
         /\ \A v \in C : (x = Head \/ Key[x] < Key[v]) => Key[z] <= Key[v]
    BY <2>6, <2>9 DEF IsChain
  <2>11. w[i] = z
    BY <1>1, <1>3, <2>3, <2>4, <2>6 DEF Ahead1
  <2>12. Met(l, C, i) = Met(l, C, i - 1) \cup {z}
    <3>1. \A v \in C : v \in Met(l, C, i) <=> Key[v] <= Key[z]
      BY <1>1, <2>10, <2>11 DEF Met, w
    <3>2. \A v \in C : v \in Met(l, C, i - 1) <=> x # Head /\ Key[v] <= Key[x]
      BY DEF Met, w
    <3>3. \A v \in C : Key[v] = Key[z] => v = z
      BY <2>10 DEF IsChain
    <3>4. ASSUME NEW v \in C PROVE v \in Met(l, C, i) <=> v \in Met(l, C, i - 1) \/ v = z
      <4>1. CASE v \in Met(l, C, i - 1)
        <5>1. x \in C /\ Key[v] <= Key[x] /\ Key[x] < Key[z]
          BY <2>6, <2>10, <3>2, <4>1
        <5> QED
          BY <1>1, <2>10, <3>1, <4>1, <5>1
      <4>2. CASE v \notin Met(l, C, i - 1)
        <5>1. Key[z] <= Key[v]
          BY <1>1, <2>6, <2>10, <3>2, <4>2
        <5> QED
          BY <1>1, <2>10, <3>1, <3>3, <4>2, <5>1
      <4> QED
        BY <4>1, <4>2
    <3> QED
      BY <2>10, <3>4 DEF Met
  <2>13. z \notin Met(l, C, i - 1)
    BY <1>1, <2>6, <2>10 DEF Met, w
  <2>14. Cardinality(Met(l, C, i)) = i
    <3>1. Cardinality(Met(l, C, i)) = Cardinality(Met(l, C, i - 1)) + 1
      BY <2>7, <2>12, <2>13, FS_AddElement
    <3>2. i \in Nat
      BY <1>2, <2>3
    <3> QED
      BY <2>6, <3>1, <3>2
  <2> QED
    BY <2>3, <2>10, <2>11, <2>14
<1> QED
  BY <1>2, <1>4 DEF w

\* The walk of a level is the chain, sorted, and then nothing but the tail.
LEMMA WalkOfChain ==
  ASSUME NEW l \in Level, NEW C, IsChain(l, C)
  PROVE  /\ Walk(l)[Cardinality(Node) + 1] = Tail
         /\ \A i \in 1 .. Cardinality(Node) :
               Walk(l)[i + 1] # Tail => Key[Walk(l)[i]] < Key[Walk(l)[i + 1]]
         /\ Chain(l) = C
<1> DEFINE w == Walk(l)
<1> PICK size, all : size = Cardinality(C) /\ all = Cardinality(Node)
  OBVIOUS
<1>1. C \subseteq Node /\ Head \notin C /\ Tail \notin C /\ Tail # Head /\ \A n \in C : Key[n] \in Int
      /\ all \in Nat
  BY NodeFacts DEF IsChain
<1>2. C \in SUBSET Node /\ IsFiniteSet(C) /\ size \in Nat /\ size <= all
  BY <1>1, NodeFacts, FS_Subset, FS_CardinalityType
<1>3. \A i \in 0 .. size : /\ w[i] \in C \cup {Head} /\ (i > 0 => w[i] \in C)
                        /\ Cardinality(Met(l, C, i)) = i
  BY WalkMeets
<1>4. w[0] = Head /\ \A i \in 1 .. all + 1 : w[i] = Ahead1(l, w[i - 1])
  BY WalkIs
<1> HIDE DEF w
<1>5. Met(l, C, size) = C
  <2>1. Met(l, C, size) \subseteq C
    BY DEF Met
  <2>2. Cardinality(Met(l, C, size)) = size
    BY <1>2, <1>3
  <2> QED
    BY <1>2, <2>1, <2>2, FS_Subset
<1>6. w[size + 1] = Tail
  <2>1. w[size] \in C \cup {Head} /\ w[size + 1] = next[w[size]][l]
    BY <1>1, <1>2, <1>3, <1>4 DEF Ahead1
  <2>2. next[w[size]][l] \in C \cup {Tail} /\ (w[size] \in C /\ next[w[size]][l] \in C => Key[w[size]] < Key[next[w[size]][l]])
    BY <2>1 DEF IsChain
  <2>3. next[w[size]][l] \notin C
    <3> SUFFICES ASSUME next[w[size]][l] \in C PROVE FALSE
      OBVIOUS
    <3>1. w[size] # Head /\ Key[next[w[size]][l]] <= Key[w[size]]
      BY <1>5 DEF Met, w
    <3>2. Key[w[size]] \in Int /\ Key[next[w[size]][l]] \in Int
      BY <1>1, <2>1, <3>1
    <3> QED
      BY <2>1, <2>2, <3>1, <3>2
  <2> QED
    BY <2>1, <2>2, <2>3
<1>7. \A i \in size + 1 .. all + 1 : w[i] = Tail
  <2> DEFINE bad == {i \in size + 1 .. all + 1 : w[i] # Tail}
  <2> SUFFICES ASSUME bad # {} PROVE FALSE
    OBVIOUS
  <2>1. bad \in SUBSET Nat
    BY <1>1, <1>2
  <2>2. PICK i \in bad : \A j \in bad : i <= j
    BY <2>1, Least
  <2>3. i \in size + 1 .. all + 1 /\ w[i] # Tail /\ i # size + 1
    BY <1>6
  <2>4. i - 1 \in size + 1 .. all + 1 /\ i - 1 \notin bad /\ i \in 1 .. all + 1
    BY <1>1, <1>2, <2>2, <2>3
  <2>5. w[i - 1] = Tail /\ w[i] = Ahead1(l, w[i - 1])
    BY <1>4, <2>4
  <2> QED
    BY <2>3, <2>5 DEF Ahead1
<1>8. \A i \in 1 .. all : w[i + 1] # Tail => i \in 1 .. size /\ w[i] \in C /\ w[i + 1] \in C
  <2> SUFFICES ASSUME NEW i \in 1 .. all, w[i + 1] # Tail PROVE i \in 1 .. size /\ w[i] \in C /\ w[i + 1] \in C
    OBVIOUS
  <2>1. i + 1 \notin size + 1 .. all + 1
    BY <1>7
  <2>2. i + 1 \in 0 .. size /\ i \in 0 .. size /\ i > 0 /\ i + 1 > 0
    BY <1>1, <1>2, <2>1
  <2> QED
    BY <1>1, <1>2, <1>3, <2>2
<1>9. \A i \in 1 .. all : w[i + 1] # Tail => Key[w[i]] < Key[w[i + 1]]
  <2> SUFFICES ASSUME NEW i \in 1 .. all, w[i + 1] # Tail PROVE Key[w[i]] < Key[w[i + 1]]
    OBVIOUS
  <2>1. w[i] \in C /\ w[i + 1] \in C /\ i + 1 \in 1 .. all + 1 /\ (i + 1) - 1 = i
    BY <1>1, <1>8
  <2>2. w[i + 1] = next[w[i]][l]
    BY <1>1, <1>4, <2>1 DEF Ahead1
  <2> QED
    BY <2>1, <2>2 DEF IsChain
<1>10. \A y \in C : \E i \in 1 .. size : w[i] = y
  <2> SUFFICES ASSUME NEW y \in C PROVE \E i \in 1 .. size : w[i] = y
    OBVIOUS
  <2> DEFINE T == {i \in 0 .. size : y \in Met(l, C, i)}
  <2>1. T \in SUBSET Nat /\ T # {}
    BY <1>2, <1>5
  <2>2. PICK i \in T : \A j \in T : i <= j
    BY <2>1, Least
  <2>3. i \in 0 .. size /\ y \in Met(l, C, i) /\ i # 0
    BY <1>4 DEF Met, w
  <2>4. i - 1 \in 0 .. size /\ y \notin Met(l, C, i - 1) /\ i \in 1 .. all + 1 /\ i > 0
    BY <1>1, <1>2, <2>2, <2>3
  <2>5. w[i] = next[w[i - 1]][l] /\ w[i - 1] \in C \cup {Head} /\ w[i] \in C
    BY <1>1, <1>3, <1>4, <2>3, <2>4 DEF Ahead1
  <2>6. w[i - 1] = Head \/ Key[w[i - 1]] < Key[y]
    BY <1>1, <2>4, <2>5 DEF Met, w
  <2>7. Key[w[i]] <= Key[y]
    BY <2>5, <2>6 DEF IsChain
  <2>8. Key[y] <= Key[w[i]]
    BY <2>3 DEF Met, w
  <2>9. w[i] = y
    BY <1>1, <2>5, <2>7, <2>8 DEF IsChain
  <2> QED
    BY <2>3, <2>4, <2>9
<1>11. Chain(l) = C
  <2>1. Chain(l) = {w[i] : i \in 1 .. all + 1} \ {Tail}
    BY DEF Chain, w
  <2>2. \A i \in 1 .. all + 1 : w[i] # Tail => w[i] \in C
    BY <1>1, <1>2, <1>3, <1>7
  <2>3. \A y \in C : \E i \in 1 .. all + 1 : w[i] = y
    BY <1>1, <1>2, <1>10
  <2> QED
    BY <1>1, <2>1, <2>2, <2>3
<1>12. w[all + 1] = Tail
  BY <1>1, <1>2, <1>7
<1> QED
  BY <1>9, <1>11, <1>12 DEF w

\* The chain of a level is the set that is sorted and closed.
LEMMA ChainIs == \A l \in Level : \A C : IsChain(l, C) => Chain(l) = C
BY WalkOfChain

\* The levels are sorted.
LEMMA SortedHolds == Chains => Sorted
BY WalkOfChain DEF Chains, Sorted

-------------------------------------------------------------------------------
\* What is the chain after a step.
LEMMA ChainPrime == \A l \in Level : \A C : IsChain(l, C)' => Chain(l)' = C
<1>1. (\A l \in Level : \A C : IsChain(l, C) => Chain(l) = C)'
  BY ChainIs, PTL
<1> QED
  BY <1>1 DEF Level

\* A step that changes no link of the chain keeps it.
LEMMA ChainSame ==
  ASSUME NEW l \in Level, NEW C, IsChain(l, C),
         \A x \in C \cup {Head} : next'[x][l] = next[x][l]
  PROVE  IsChain(l, C)' /\ Chain(l)' = C
<1>1. IsChain(l, C)'
  BY DEF IsChain
<1> QED
  BY <1>1, ChainPrime

\* Taking y out between x and its successor leaves a chain.
LEMMA ChainRemove ==
  ASSUME NEW l \in Level, NEW C, IsChain(l, C),
         NEW x \in C \cup {Head}, NEW y \in C, next[x][l] = y,
         next'[x][l] = next[y][l],
         \A v \in C \cup {Head} : v # x => next'[v][l] = next[v][l]
  PROVE  IsChain(l, C \ {y})' /\ Chain(l)' = C \ {y}
<1> DEFINE D == C \ {y}
<1>1. /\ C \subseteq Node /\ Head \notin C /\ Tail \notin C /\ Tail # Head
      /\ \A n \in C : Key[n] \in Int
  BY NodeFacts DEF IsChain
<1>2. x # y /\ (x \in C => Key[x] < Key[y])
  BY <1>1 DEF IsChain
<1>3. /\ D \subseteq Node /\ \A m, n \in D : Key[m] = Key[n] => m = n
  BY DEF IsChain
<1>4. ASSUME NEW v \in D \cup {Head}
      PROVE  /\ next'[v][l] \in D \cup {Tail}
             /\ v \in D /\ next'[v][l] \in D => Key[v] < Key[next'[v][l]]
             /\ \A z \in D : (v = Head \/ Key[v] < Key[z]) =>
                   next'[v][l] \in D /\ Key[next'[v][l]] <= Key[z]
  <2>1. CASE v = x
    <3>1. next'[v][l] = next[y][l]
      BY <2>1
    <3>2. next[y][l] \in C \cup {Tail} /\ (next[y][l] \in C => Key[y] < Key[next[y][l]])
      BY DEF IsChain
    <3>3. next[y][l] # y
      BY <1>1, <3>2
    <3>4. \A z \in D : (v = Head \/ Key[v] < Key[z]) => Key[y] < Key[z]
      <4> SUFFICES ASSUME NEW z \in D, v = Head \/ Key[v] < Key[z] PROVE Key[y] < Key[z]
        OBVIOUS
      <4>1. Key[y] <= Key[z]
        BY <2>1 DEF IsChain
      <4>2. Key[y] # Key[z]
        BY DEF IsChain
      <4> QED
        BY <1>1, <4>1, <4>2
    <3>5. \A z \in D : Key[y] < Key[z] => next[y][l] \in C /\ Key[next[y][l]] <= Key[z]
      BY DEF IsChain
    <3>6. v \in D /\ next[y][l] \in D => Key[v] < Key[next[y][l]]
      BY <1>1, <1>2, <2>1, <3>2
    <3> QED
      BY <3>1, <3>2, <3>3, <3>4, <3>5, <3>6
  <2>2. CASE v # x
    <3>1. next'[v][l] = next[v][l] /\ v \in C \cup {Head}
      BY <2>2
    <3>2. next[v][l] # y
      <4> SUFFICES ASSUME next[v][l] = y PROVE FALSE
        OBVIOUS
      <4>1. v \in C => Key[v] < Key[y]
        BY <3>1 DEF IsChain
      <4>2. CASE v = Head
        <5>1. x \in C /\ Key[x] < Key[y]
          BY <1>2, <2>2, <4>2
        <5>2. Key[y] <= Key[x]
          BY <3>1, <4>2, <5>1 DEF IsChain
        <5> QED
          BY <1>1, <5>1, <5>2
      <4>3. CASE v \in C /\ x = Head
        <5>1. Key[y] <= Key[v]
          BY <4>3 DEF IsChain
        <5> QED
          BY <1>1, <4>1, <4>3, <5>1
      <4>4. CASE v \in C /\ x \in C /\ Key[x] < Key[v]
        <5>1. Key[y] <= Key[v]
          BY <4>4 DEF IsChain
        <5> QED
          BY <1>1, <4>1, <4>4, <5>1
      <4>5. CASE v \in C /\ x \in C /\ Key[v] < Key[x]
        <5>1. Key[y] <= Key[x]
          BY <4>5 DEF IsChain
        <5> QED
          BY <1>1, <1>2, <4>5, <5>1
      <4>6. v \in C /\ x \in C => Key[v] # Key[x]
        BY <2>2 DEF IsChain
      <4> QED
        BY <1>1, <3>1, <4>2, <4>3, <4>4, <4>5, <4>6
    <3>3. /\ next[v][l] \in C \cup {Tail}
          /\ v \in C /\ next[v][l] \in C => Key[v] < Key[next[v][l]]
          /\ \A z \in C : (v = Head \/ Key[v] < Key[z]) =>
                next[v][l] \in C /\ Key[next[v][l]] <= Key[z]
      BY <3>1 DEF IsChain
    <3> QED
      BY <3>1, <3>2, <3>3
  <2> QED
    BY <2>1, <2>2
<1> HIDE DEF D
<1>5. IsChain(l, D)'
  BY <1>3, <1>4 DEF IsChain
<1> QED
  BY <1>5, ChainPrime DEF D

\* Putting n between p and its successor s leaves a chain, if the keys ascend.
LEMMA ChainInsert ==
  ASSUME NEW l \in Level, NEW C, IsChain(l, C),
         NEW p \in C \cup {Head}, NEW n \in Node, n \notin C, NEW s, next[p][l] = s,
         p = Head \/ Key[p] < Key[n], s = Tail \/ Key[n] < Key[s],
         next'[p][l] = n, next'[n][l] = s,
         \A v \in C \cup {Head} : v # p => next'[v][l] = next[v][l]
  PROVE  IsChain(l, C \cup {n})' /\ Chain(l)' = C \cup {n}
<1> DEFINE D == C \cup {n}
<1>1. /\ C \subseteq Node /\ Head \notin C /\ Tail \notin C /\ Tail # Head
      /\ \A m \in D : Key[m] \in Int
      /\ n # Head /\ n # Tail
  BY NodeFacts DEF IsChain
<1>2. s \in C \cup {Tail} /\ (s \in C => Key[n] < Key[s])
  BY <1>1 DEF IsChain
<1>3. ASSUME NEW m \in C
      PROVE  \/ p # Head /\ Key[m] <= Key[p] /\ Key[m] < Key[n]
             \/ s \in C /\ Key[s] <= Key[m] /\ Key[n] < Key[m] /\ (p = Head \/ Key[p] < Key[m])
  <2>1. CASE p = Head \/ Key[p] < Key[m]
    <3>1. s \in C /\ Key[s] <= Key[m]
      BY <2>1 DEF IsChain
    <3> QED
      BY <1>1, <1>2, <2>1, <3>1
  <2>2. CASE p # Head /\ ~(Key[p] < Key[m])
    BY <1>1, <2>2
  <2> QED
    BY <2>1, <2>2
<1>4. /\ D \subseteq Node /\ \A m, k \in D : Key[m] = Key[k] => m = k
  <2>1. \A m \in C : Key[m] # Key[n]
    BY <1>1, <1>3
  <2>2. \A m, k \in C : Key[m] = Key[k] => m = k
    BY DEF IsChain
  <2> QED
    BY <1>1, <2>1, <2>2
<1>5. ASSUME NEW v \in D \cup {Head}
      PROVE  /\ next'[v][l] \in D \cup {Tail}
             /\ v \in D /\ next'[v][l] \in D => Key[v] < Key[next'[v][l]]
             /\ \A z \in D : (v = Head \/ Key[v] < Key[z]) =>
                   next'[v][l] \in D /\ Key[next'[v][l]] <= Key[z]
  <2>1. CASE v = n
    <3>1. \A z \in C : Key[n] < Key[z] => s \in C /\ Key[s] <= Key[z]
      BY <1>1, <1>3
    <3> QED
      BY <1>1, <1>2, <2>1, <3>1
  <2>2. CASE v = p /\ v # n
    <3>1. \A z \in C : (v = Head \/ Key[v] < Key[z]) => Key[n] <= Key[z]
      BY <1>1, <1>3, <2>2
    <3> QED
      BY <1>1, <2>2, <3>1
  <2>3. CASE v # p /\ v # n
    <3>1. next'[v][l] = next[v][l] /\ v \in C \cup {Head}
      BY <2>3
    <3>2. /\ next[v][l] \in C \cup {Tail}
          /\ v \in C /\ next[v][l] \in C => Key[v] < Key[next[v][l]]
          /\ \A z \in C : (v = Head \/ Key[v] < Key[z]) =>
                next[v][l] \in C /\ Key[next[v][l]] <= Key[z]
      BY <3>1 DEF IsChain
    <3>3. v = Head \/ Key[v] < Key[n] => next[v][l] \in C /\ Key[next[v][l]] <= Key[n]
      <4> SUFFICES ASSUME v = Head \/ Key[v] < Key[n]
                   PROVE  next[v][l] \in C /\ Key[next[v][l]] <= Key[n]
        OBVIOUS
      <4>1. p \in C /\ (v = Head \/ Key[v] < Key[p])
        <5>1. CASE v = Head
          BY <2>3, <5>1
        <5>2. CASE v \in C
          <6>1. p # Head /\ Key[v] <= Key[p]
            BY <1>1, <1>3, <5>2
          <6>2. Key[v] # Key[p]
            BY <2>3, <5>2, <6>1 DEF IsChain
          <6> QED
            BY <1>1, <5>2, <6>1, <6>2
        <5> QED
          BY <3>1, <5>1, <5>2
      <4>2. next[v][l] \in C /\ Key[next[v][l]] <= Key[p]
        BY <3>2, <4>1
      <4> QED
        BY <1>1, <4>1, <4>2
    <3>4. /\ next'[v][l] \in D \cup {Tail}
          /\ v \in D /\ next'[v][l] \in D => Key[v] < Key[next'[v][l]]
      BY <1>1, <2>3, <3>1, <3>2
    <3>5. \A z \in D : (v = Head \/ Key[v] < Key[z]) =>
              next'[v][l] \in D /\ Key[next'[v][l]] <= Key[z]
      BY <3>1, <3>2, <3>3
    <3> QED
      BY <3>4, <3>5
  <2> QED
    BY <2>1, <2>2, <2>3
<1> HIDE DEF D
<1>6. IsChain(l, D)'
  BY <1>4, <1>5 DEF IsChain
<1> QED
  BY <1>6, ChainPrime DEF D

-------------------------------------------------------------------------------
\* A node was linked once it has a height and nobody has it as a fresh one.
LEMMA WasLinkedIs ==
  \A n \in Node : WasLinked(n) <=> height[n] > 0 /\ \A t \in Thread : th[t].n = n => ~Fresh(th[t])
BY DEF WasLinked, Fresh, Refused

\* From a node reached at a level the thread can go on, and down.
LEMMA ReachFacts ==
  ASSUME Types, Chains, Links, NEW n, NEW l \in Level, Reached(n, l)
  PROVE  /\ n \in Linkable
         /\ ReachedOrTail(next[n][l], l) /\ Follows(n, next[n][l]) /\ next[n][l] \in Some
         /\ \A j \in Level : j <= l => Reached(n, j)
<1>1. n \in Linkable
  BY DEF Reached, Linkable
<1>2. next[n][l] \in Some
  <2>1. CASE n = Head
    <3>1. IsChain(l, Chain(l))
      BY DEF Chains
    <3> QED
      BY <2>1, <3>1 DEF IsChain, Some
  <2>2. CASE n # Head
    BY <1>1, <2>2 DEF Reached, Types, Some, Linkable
  <2> QED
    BY <2>1, <2>2
<1>3. ReachedOrTail(next[n][l], l) /\ Follows(n, next[n][l])
  BY <1>1, <1>2 DEF Links, ReachedOrTail, Follows, Some
<1>4. ASSUME NEW j \in Level, j <= l PROVE Reached(n, j)
  <2>1. CASE n = Head
    BY <2>1 DEF Reached
  <2>2. CASE n # Head /\ j = l
    BY <2>2
  <2>3. CASE n # Head /\ j # l
    <3>1. j < l
      BY <1>4, <2>3, NodeFacts DEF Level
    <3>2. n \in Node /\ WasLinked(n) /\ l < height[n] /\ next[n][l] # Head
      BY <2>3 DEF Reached
    <3> QED
      BY <3>1, <3>2 DEF Links
  <2> QED
    BY <2>1, <2>2, <2>3
<1> QED
  BY <1>1, <1>2, <1>3, <1>4

\* What a search step leaves as it is.
Goes(me, r) ==
    /\ Fresh(r) <=> Fresh(me)
    /\ Building(r) <=> Building(me)
    /\ Owner(me) => r.n = me.n /\ r.i = me.i
    /\ r.pc \notin {"unref", "cutref", "link", "undo"}

\* Going ahead on a level.
LEMMA AheadOK ==
  ASSUME Types, Chains, Links, NEW me, ThreadInv(me), me.pc \in Searching,
         NEW y, y # Tail, ReachedOrTail(y, me.lv), Follows(me.x, y),
         me.op \in SpliceOps => Before(y, me.k)
  PROVE  ThreadInv(Ahead(me, y)) /\ Goes(me, Ahead(me, y))
<1> DEFINE r == Ahead(me, y)
<1>1. y \in Node /\ Reached(y, me.lv) /\ LocalType(me)
  BY DEF ReachedOrTail, ThreadInv
<1>2. LocalType(r) /\ r.pc = "read" /\ r.x = y
      /\ r.op = me.op /\ r.k = me.k /\ r.n = me.n /\ r.i = me.i /\ r.prev = me.prev /\ r.nxt = me.nxt
      /\ r.sh = me.sh /\ r.lv = me.lv /\ r.target = me.target /\ r.after = me.after
      /\ r.then = me.then /\ r.probe = me.probe /\ r.res = me.res /\ r.mode = me.mode
  BY <1>1 DEF LocalType, Locals, Ahead, Some, Linkable, Busy, Searching
<1> HIDE DEF r
<1>3. Shape(r)
  BY <1>2 DEF ThreadInv, Shape, Busy, Searching, SpliceOps
<1>4. Hands(r)
  BY <1>1, <1>2 DEF Hands
<1>5. SpliceInv(r)
  BY <1>2 DEF ThreadInv, SpliceInv
<1>6. BracketInv(r)
  BY <1>1, <1>2 DEF ThreadInv, BracketInv, Low, Bracket, KeyOK, Before, Searching
<1>7. NestInv(r)
  <2>1. me.op = "insert" => \A l \in 0 .. me.sh - 1 : me.lv < l => NotAfter(me.prev[l], y)
    <3> SUFFICES ASSUME me.op = "insert", NEW l \in 0 .. me.sh - 1, me.lv < l PROVE NotAfter(me.prev[l], y)
      OBVIOUS
    <3>1. NotAfter(me.prev[l], me.x)
      BY DEF ThreadInv, NestInv
    <3>2. me.x = Head \/ Key[me.x] < Key[y]
      BY <1>1, NodeFacts DEF Follows
    <3> QED
      BY <1>1, <3>1, <3>2, NodeFacts DEF NotAfter
  <2> QED
    BY <1>2, <2>1 DEF ThreadInv, NestInv, Searching
<1>8. Goes(me, r)
  BY <1>2 DEF Goes, Fresh, Building, Owner, Busy, Searching, ThreadInv, Shape, SpliceOps
<1>9. NodeInv(r)
  BY <1>2, <1>8 DEF ThreadInv, NodeInv, Goes, Owner, Busy, Searching
<1> QED
  BY <1>2, <1>3, <1>4, <1>5, <1>6, <1>7, <1>8, <1>9 DEF ThreadInv, r

\* The local variables at the end of a call that is no insert, or of one that
\* has linked its node.
LEMMA DoneOK ==
  ASSUME NEW me, ThreadInv(me), me.pc \in Busy, NEW b \in BOOLEAN, me.op = "insert" => b,
         NEW r, r.pc = "done", r.op = me.op, r.k = me.k, r.i = 0, r.sh = 0, r.res = b,
         r.then = "none", r.prev = [l \in 0 .. MaxHeight |-> Head],
         r.nxt = [l \in 0 .. MaxHeight |-> Tail], LocalType(r)
  PROVE  ThreadInv(r) /\ ~Owner(r) /\ (me.op # "insert" => Goes(me, r))
<1>1. me.op # "none"
  BY DEF ThreadInv, Shape, Busy, Searching
<1>2. Shape(r)
  BY <1>1 DEF Shape, Busy, Searching, SpliceOps
<1>3. Hands(r)
  BY DEF Hands, Searching
<1>4. SpliceInv(r)
  BY NodeFacts DEF SpliceInv
<1>5. BracketInv(r) /\ NestInv(r)
  BY NodeFacts DEF BracketInv, NestInv, Searching, SpliceOps
<1>6. ~Fresh(r) /\ ~Building(r)
  BY DEF Fresh, Building, Busy, Searching
<1>7. NodeInv(r)
  BY <1>6 DEF NodeInv, Owner, Busy, Searching
<1> QED
  BY <1>2, <1>3, <1>4, <1>5, <1>6, <1>7 DEF ThreadInv, Goes, Owner, Fresh, Building

\* The end of such a call, also with a node found.
LEMMA FinishOK ==
  ASSUME NEW me, ThreadInv(me), me.pc \in Busy, NEW b \in BOOLEAN, me.op = "insert" => b
  PROVE  /\ ThreadInv(Finish(me, b)) /\ ~Owner(Finish(me, b))
         /\ me.op # "insert" => Goes(me, Finish(me, b))
         /\ me.op # "insert" =>
               \A m \in {"none", "le", "lt", "ge", "gt", "last"}, n \in Some \cup {Head} :
                  LET r == [Finish(me, b) EXCEPT !.mode = m, !.n = n] IN ThreadInv(r) /\ Goes(me, r)
<1> DEFINE f == Finish(me, b)
<1>1. /\ f.pc = "done" /\ f.op = me.op /\ f.k = me.k /\ f.i = 0 /\ f.sh = 0 /\ f.res = b
      /\ f.then = "none" /\ f.prev = [l \in 0 .. MaxHeight |-> Head]
      /\ f.nxt = [l \in 0 .. MaxHeight |-> Tail] /\ LocalType(f)
  BY NodeFacts DEF ThreadInv, LocalType, Finish, Done, IdleThread, Locals, Linkable, Some
<1> HIDE DEF f
<1>2. ThreadInv(f) /\ ~Owner(f) /\ (me.op # "insert" => Goes(me, f))
  BY <1>1, DoneOK
<1>3. ASSUME NEW m \in {"none", "le", "lt", "ge", "gt", "last"}, NEW n \in Some \cup {Head},
             me.op # "insert"
      PROVE  ThreadInv([f EXCEPT !.mode = m, !.n = n]) /\ Goes(me, [f EXCEPT !.mode = m, !.n = n])
  <2> DEFINE r == [f EXCEPT !.mode = m, !.n = n]
  <2>1. /\ r.pc = "done" /\ r.op = me.op /\ r.k = me.k /\ r.i = 0 /\ r.sh = 0 /\ r.res = b
        /\ r.then = "none" /\ r.prev = [l \in 0 .. MaxHeight |-> Head]
        /\ r.nxt = [l \in 0 .. MaxHeight |-> Tail] /\ LocalType(r)
    BY <1>1 DEF LocalType, Locals
  <2> HIDE DEF r
  <2>2. ThreadInv(r) /\ Goes(me, r)
    BY <1>3, <2>1, DoneOK
  <2> QED
    BY <2>2 DEF r
<1> QED
  BY <1>2, <1>3 DEF f

\* A search with a splice, when the walk has come to y.
LEMMA CameSpliceOK ==
  ASSUME Types, Chains, Links, NEW me, ThreadInv(me), me.pc \in Searching, me.op \in SpliceOps,
         NEW y, ReachedOrTail(y, me.lv), Follows(me.x, y)
  PROVE  ThreadInv(CameSplice(me, y)) /\ Goes(me, CameSplice(me, y))
<1>1. CASE StillBefore(me, y)
  BY <1>1, AheadOK DEF StillBefore, CameSplice, Before
<1> DEFINE found == [me EXCEPT !.prev[me.lv] = me.x, !.nxt[me.lv] = y]
           end == [found EXCEPT !.then = "none", !.lv = 0, !.target = 0,
                                !.x = Head, !.y = Tail, !.z = Tail, !.after = Tail]
<1>2. /\ y \in Some /\ LocalType(me) /\ Shape(me) /\ me.lv \in Level /\ me.target \in Nat /\ me.lv \in Nat
      /\ me.target <= me.lv /\ me.lv < me.sh /\ me.sh \in 0 .. MaxHeight
      /\ Reached(me.x, me.lv) /\ KeyOK(me.x, me.k) /\ ~Before(me.after, me.k)
  BY DEF ThreadInv, Shape, Hands, BracketInv, ReachedOrTail, Some, LocalType
<1>3. me.op = "insert" => me.target = me.i
  BY DEF ThreadInv, Shape
<1>0. me.lv \in 0 .. MaxHeight /\ (\A l \in 0 .. me.sh - 1 : l \in 0 .. MaxHeight) /\ MaxHeight \in Nat
      /\ me.prev \in [0 .. MaxHeight -> Linkable] /\ me.nxt \in [0 .. MaxHeight -> Some]
  BY <1>2, NodeFacts DEF LocalType
<1>4. /\ LocalType(found) /\ found.prev = [me.prev EXCEPT ![me.lv] = me.x]
      /\ found.nxt = [me.nxt EXCEPT ![me.lv] = y]
      /\ found.pc = me.pc
      /\ found.op = me.op /\ found.k = me.k /\ found.n = me.n /\ found.i = me.i
      /\ found.sh = me.sh /\ found.lv = me.lv /\ found.target = me.target
      /\ found.then = me.then /\ found.x = me.x /\ found.after = me.after
  BY <1>2 DEF LocalType, Locals
<1> HIDE DEF found
<1>a. \A l \in 0 .. me.sh - 1 :
         /\ found.prev[l] = IF l = me.lv THEN me.x ELSE me.prev[l]
         /\ found.nxt[l] = IF l = me.lv THEN y ELSE me.nxt[l]
  BY <1>0, <1>4
<1>5. SpliceInv(found)
  BY <1>2, <1>4 DEF ThreadInv, SpliceInv, LocalType
<1>6. ASSUME ~StillBefore(me, y) PROVE ~Before(y, me.k)
  BY <1>2, <1>6 DEF StillBefore
<1>7. ASSUME ~StillBefore(me, y)
      PROVE  \A l \in 0 .. me.sh - 1 : (Low(me) <= l /\ (me.lv <= l \/ l < me.target)) => Bracket(found, l)
  <2> SUFFICES ASSUME NEW l \in 0 .. me.sh - 1, Low(me) <= l, me.lv <= l \/ l < me.target
               PROVE  Bracket(found, l)
    OBVIOUS
  <2>1. CASE l = me.lv
    BY <1>2, <1>4, <1>6, <1>7, <1>a, <2>1 DEF Bracket
  <2>2. CASE l # me.lv
    <3>1. Bracket(me, l)
      BY <1>2, <2>2 DEF ThreadInv, BracketInv
    <3>2. found.prev[l] = me.prev[l] /\ found.nxt[l] = me.nxt[l]
      BY <1>a, <2>2
    <3> QED
      BY <1>4, <3>1, <3>2 DEF Bracket
  <2> QED
    BY <2>1, <2>2
<1>8. ASSUME me.op = "insert"
      PROVE  \A j, l \in 0 .. me.sh - 1 : me.lv <= j /\ j < l => NotAfter(found.prev[l], found.prev[j])
  <2> SUFFICES ASSUME NEW j \in 0 .. me.sh - 1, NEW l \in 0 .. me.sh - 1, me.lv <= j, j < l
               PROVE  NotAfter(found.prev[l], found.prev[j])
    OBVIOUS
  <2>1. found.prev[l] = me.prev[l] /\ (j # me.lv => found.prev[j] = me.prev[j])
        /\ (j = me.lv => found.prev[j] = me.x)
    <3>1. l # me.lv
      BY <1>2
    <3> QED
      BY <1>a, <3>1
  <2>2. CASE j = me.lv
    BY <1>8, <2>1, <2>2 DEF ThreadInv, NestInv
  <2>3. CASE j # me.lv
    <3>1. me.lv < j
      BY <1>2, <2>3
    <3> QED
      BY <1>8, <2>1, <3>1, <2>3 DEF ThreadInv, NestInv
  <2> QED
    BY <2>2, <2>3
<1>9. CASE ~StillBefore(me, y) /\ me.lv > me.target
  <2> DEFINE r == Down(found, y)
  <2>1. CameSplice(me, y) = r
    BY <1>9 DEF CameSplice, found
  <2>2. me.lv - 1 \in Level /\ me.lv - 1 \in Nat
    BY <1>0, <1>2, <1>9 DEF Level
  <2>3. LocalType(r) /\ r.pc = "read" /\ r.lv = me.lv - 1 /\ r.after = y
        /\ r.op = me.op /\ r.k = me.k /\ r.n = me.n /\ r.i = me.i /\ r.prev = found.prev
        /\ r.nxt = found.nxt /\ r.sh = me.sh /\ r.target = me.target /\ r.then = me.then
        /\ r.x = me.x
    <3>1. /\ DOMAIN r = Locals /\ r.pc = "read" /\ r.lv = me.lv - 1 /\ r.after = y /\ r.y = Tail /\ r.z = Tail
          /\ r.op = found.op /\ r.k = found.k /\ r.n = found.n /\ r.i = found.i /\ r.prev = found.prev
          /\ r.nxt = found.nxt /\ r.sh = found.sh /\ r.target = found.target /\ r.then = found.then
          /\ r.x = found.x /\ r.probe = found.probe /\ r.bad = found.bad /\ r.res = found.res
          /\ r.mode = found.mode /\ r.fix = found.fix /\ r.tight = found.tight
      BY <1>4 DEF LocalType, Locals, Down
    <3> HIDE DEF r
    <3> QED
      BY <1>2, <1>4, <2>2, <3>1 DEF LocalType, Busy, Searching, Some
  <2> HIDE DEF r
  <2>4. Shape(r)
    BY <1>2, <1>9, <2>2, <2>3 DEF Shape, Busy, Searching, SpliceOps
  <2>5. Hands(r)
    <3>1. Reached(me.x, me.lv - 1)
      BY <1>2, <2>2, ReachFacts
    <3> QED
      BY <2>3, <3>1 DEF Hands
  <2>6. SpliceInv(r)
    BY <1>4, <1>5, <2>3 DEF SpliceInv
  <2>7. BracketInv(r)
    <3>1. \A l \in 0 .. me.sh - 1 : (Low(me) <= l /\ (me.lv - 1 < l \/ l < me.target)) => Bracket(r, l)
      <4> SUFFICES ASSUME NEW l \in 0 .. me.sh - 1, Low(me) <= l, me.lv - 1 < l \/ l < me.target
                   PROVE  Bracket(r, l)
        OBVIOUS
      <4>1. me.lv <= l \/ l < me.target
        BY <1>2
      <4>2. Bracket(found, l)
        BY <1>7, <1>9, <4>1
      <4> QED
        BY <1>4, <2>3, <4>2 DEF Bracket
    <3>2. Low(r) = Low(me)
      BY <2>3 DEF Low
    <3> QED
      BY <1>2, <1>6, <1>9, <2>3, <3>1, <3>2 DEF BracketInv, Searching
  <2>8. NestInv(r)
    <3>1. me.op = "insert" => \A l \in 0 .. me.sh - 1 : me.lv - 1 < l => NotAfter(r.prev[l], me.x)
      <4> SUFFICES ASSUME me.op = "insert", NEW l \in 0 .. me.sh - 1, me.lv - 1 < l
                   PROVE  NotAfter(r.prev[l], me.x)
        OBVIOUS
      <4>1. CASE l = me.lv
        <5>1. r.prev[l] = me.x
          BY <1>a, <2>3, <4>1
        <5> QED
          BY <1>2, <5>1, NodeFacts DEF NotAfter, Reached
      <4>2. CASE l # me.lv
        <5>1. me.lv < l /\ r.prev[l] = me.prev[l]
          BY <1>2, <1>a, <2>3, <4>2
        <5> QED
          BY <5>1 DEF ThreadInv, NestInv
      <4> QED
        BY <4>1, <4>2
    <3>2. me.op = "insert" =>
            \A j, l \in 0 .. me.sh - 1 : me.lv - 1 < j /\ j < l => NotAfter(r.prev[l], r.prev[j])
      <4> SUFFICES ASSUME me.op = "insert", NEW j \in 0 .. me.sh - 1, NEW l \in 0 .. me.sh - 1,
                          me.lv - 1 < j, j < l
                   PROVE  NotAfter(r.prev[l], r.prev[j])
        OBVIOUS
      <4>1. me.lv <= j
        BY <1>2
      <4> QED
        BY <1>8, <2>3, <4>1
    <3> QED
      BY <2>3, <3>1, <3>2 DEF NestInv, Searching, SpliceOps
  <2>9. Goes(me, r)
    BY <2>3 DEF Goes, Fresh, Building, Owner, Busy, Searching
  <2>10. NodeInv(r)
    BY <2>3, <2>9 DEF ThreadInv, NodeInv, Goes, Owner, Busy, Searching
  <2> QED
    BY <2>1, <2>3, <2>4, <2>5, <2>6, <2>7, <2>8, <2>9, <2>10 DEF ThreadInv
<1>10. CASE ~StillBefore(me, y) /\ ~(me.lv > me.target)
  <2>1. me.lv = me.target
    BY <1>2, <1>10
  <2>2. LocalType(end) /\ end.pc = me.pc /\ end.then = "none" /\ end.lv = 0 /\ end.target = 0
        /\ end.op = me.op /\ end.k = me.k /\ end.n = me.n /\ end.i = me.i /\ end.prev = found.prev
        /\ end.nxt = found.nxt /\ end.sh = me.sh
    <3>1. /\ DOMAIN end = Locals /\ end.then = "none" /\ end.lv = 0 /\ end.target = 0
          /\ end.x = Head /\ end.y = Tail /\ end.z = Tail /\ end.after = Tail /\ end.pc = found.pc
          /\ end.op = found.op /\ end.k = found.k /\ end.n = found.n /\ end.i = found.i
          /\ end.prev = found.prev /\ end.nxt = found.nxt /\ end.sh = found.sh
          /\ end.probe = found.probe /\ end.bad = found.bad /\ end.res = found.res
          /\ end.mode = found.mode /\ end.fix = found.fix /\ end.tight = found.tight
      BY <1>4 DEF LocalType, Locals
    <3> HIDE DEF end
    <3> QED
      BY <1>4, <3>1 DEF LocalType, Some, Linkable
  <2> HIDE DEF end
  <2>3. SpliceInv(end)
    BY <1>4, <1>5, <2>2 DEF SpliceInv
  <2>4. \A l \in 0 .. me.sh - 1 : Low(me) <= l => Bracket(end, l)
    <3> SUFFICES ASSUME NEW l \in 0 .. me.sh - 1, Low(me) <= l PROVE Bracket(end, l)
      OBVIOUS
    <3>1. Bracket(found, l)
      BY <1>2, <1>7, <1>10, <2>1
    <3> QED
      BY <1>4, <2>2, <3>1 DEF Bracket
  <2>5. me.op = "insert" =>
           \A j, l \in 0 .. me.sh - 1 : me.i <= j /\ j < l => NotAfter(end.prev[l], end.prev[j])
    BY <1>3, <1>8, <2>1, <2>2
  <2>6. CASE me.then = "pick"
    <3>1. me.op \in {"erase", "erase_node"} /\ CameSplice(me, y) = PickNode(end, y)
      BY <1>10, <2>6 DEF CameSplice, found, end, ThreadInv, Shape, SpliceOps
    <3>2. CASE Is(y, me.k) /\ (me.op = "erase_node" => y = me.n)
      <4> DEFINE r == [end EXCEPT !.pc = "mark", !.n = y, !.i = MaxHeight - 1]
      <4>1. CameSplice(me, y) = r
        BY <2>2, <3>1, <3>2 DEF PickNode
      <4>2. y \in Node /\ me.k = Key[y] /\ Reached(y, me.lv)
        BY <1>2, <3>2 DEF Is, Some, ReachedOrTail
      <4>3. LocalType(r) /\ r.pc = "mark" /\ r.n = y /\ r.i = MaxHeight - 1 /\ r.then = "none"
            /\ r.op = me.op /\ r.k = me.k /\ r.prev = end.prev /\ r.nxt = end.nxt /\ r.sh = me.sh
        BY <2>2, <4>2, NodeFacts DEF LocalType, Locals, Busy, Some, Level
      <4> HIDE DEF r
      <4>4. Shape(r) /\ Hands(r)
        BY <3>1, <4>3 DEF Shape, Hands, Searching, Busy, SpliceOps
      <4>5. SpliceInv(r)
        BY <2>2, <2>3, <4>3 DEF SpliceInv
      <4>6. BracketInv(r) /\ NestInv(r)
        <5>1. Low(r) = Low(me) /\ \A l \in 0 .. me.sh - 1 : Bracket(end, l) => Bracket(r, l)
          BY <2>2, <3>1, <4>3 DEF Bracket, Low
        <5> QED
          BY <2>4, <3>1, <4>3, <5>1 DEF BracketInv, NestInv, Searching
      <4>7. Goes(me, r)
        BY <3>1, <4>3 DEF Goes, Fresh, Building, Owner
      <4>8. NodeInv(r)
        <5>1. Reached(y, 0) /\ MaxHeight - 1 \in Level /\ \A j \in Level : ~(MaxHeight - 1 < j)
          BY <1>2, <4>2, ReachFacts, NodeFacts DEF Level
        <5> QED
          BY <3>1, <4>2, <4>3, <5>1 DEF NodeInv, Owner, Fresh, Building
      <4> QED
        BY <4>1, <4>3, <4>4, <4>5, <4>6, <4>7, <4>8 DEF ThreadInv
    <3>3. CASE ~(Is(y, me.k) /\ (me.op = "erase_node" => y = me.n))
      <4>1. CameSplice(me, y) = Finish(end, FALSE) /\ Finish(end, FALSE) = Finish(me, FALSE)
        BY <2>2, <3>1, <3>3 DEF PickNode, Finish
      <4> QED
        BY <3>1, <4>1, FinishOK DEF Busy
    <3> QED
      BY <3>2, <3>3
  <2>7. CASE me.then # "pick"
    <3> DEFINE r == [end EXCEPT !.pc = me.then]
    <3>1. CameSplice(me, y) = r
      BY <1>10, <2>7 DEF CameSplice, found, end
    <3>2. /\ me.op = "insert" => me.then \in {"link0", "own"}
          /\ me.op \in {"erase", "erase_node"} => me.then = "cut"
          /\ me.op \in {"insert", "erase", "erase_node"}
      BY <2>7 DEF ThreadInv, Shape, SpliceOps
    <3>3. LocalType(r) /\ r.pc = me.then /\ r.n = me.n /\ r.i = me.i /\ r.then = "none"
          /\ r.op = me.op /\ r.k = me.k /\ r.prev = end.prev /\ r.nxt = end.nxt /\ r.sh = me.sh
      BY <2>2, <3>2 DEF LocalType, Locals, Busy
    <3> HIDE DEF r
    <3>4. Shape(r) /\ Hands(r)
      BY <3>2, <3>3 DEF Shape, Hands, Searching, Busy, SpliceOps
    <3>5. SpliceInv(r)
      BY <2>2, <2>3, <3>3 DEF SpliceInv
    <3>6. BracketInv(r)
      <4>1. Low(r) = Low(me) /\ \A l \in 0 .. me.sh - 1 : Bracket(end, l) => Bracket(r, l)
        BY <2>2, <3>3 DEF Bracket, Low
      <4> QED
        BY <2>4, <3>2, <3>3, <4>1 DEF BracketInv, Searching
    <3>7. NestInv(r)
      BY <2>5, <3>2, <3>3 DEF NestInv, Searching
    <3>8. Goes(me, r)
      BY <3>2, <3>3 DEF Goes, Fresh, Building, Owner, Busy, Searching
    <3>9. NodeInv(r)
      BY <3>2, <3>3, <3>8 DEF ThreadInv, NodeInv, Goes, Owner, Busy, Searching
    <3> QED
      BY <3>1, <3>3, <3>4, <3>5, <3>6, <3>7, <3>8, <3>9 DEF ThreadInv
  <2> QED
    BY <2>6, <2>7
<1> QED
  BY <1>1, <1>9, <1>10

\* Fields that no invariant is about may be anything.
LEMMA GotIsFree ==
  ASSUME NEW me, ThreadInv(me), NEW g
  PROVE  LET r == [me EXCEPT !.got = g] IN
         ThreadInv(r) /\ (Owner(r) <=> Owner(me)) /\ \A m : Goes(m, me) => Goes(m, r)
<1> DEFINE r == [me EXCEPT !.got = g]
<1>1. /\ DOMAIN r = Locals /\ r.pc = me.pc /\ r.x = me.x /\ r.lv = me.lv /\ r.y = me.y /\ r.z = me.z
      /\ r.op = me.op /\ r.k = me.k /\ r.n = me.n /\ r.i = me.i /\ r.prev = me.prev /\ r.nxt = me.nxt
      /\ r.sh = me.sh /\ r.then = me.then /\ r.mode = me.mode /\ r.target = me.target
      /\ r.after = me.after /\ r.probe = me.probe /\ r.bad = me.bad /\ r.res = me.res
      /\ r.fix = me.fix /\ r.tight = me.tight
  BY DEF ThreadInv, LocalType, Locals
<1> HIDE DEF r
<1>2. LocalType(r)
  BY <1>1 DEF ThreadInv, LocalType
<1>3. Shape(r)
  BY <1>1 DEF ThreadInv, Shape
<1>4. Hands(r) /\ SpliceInv(r)
  BY <1>1 DEF ThreadInv, Hands, SpliceInv
<1>5. BracketInv(r)
  BY <1>1 DEF ThreadInv, BracketInv, Bracket, Low
<1>6. NestInv(r)
  BY <1>1 DEF ThreadInv, NestInv
<1>7. (Fresh(r) <=> Fresh(me)) /\ (Building(r) <=> Building(me)) /\ (Owner(r) <=> Owner(me))
  BY <1>1 DEF Owner, Fresh, Building
<1>8. NodeInv(r)
  BY <1>1, <1>7 DEF ThreadInv, NodeInv
<1>9. \A m : Goes(m, me) => Goes(m, r)
  BY <1>1, <1>7 DEF Goes
<1> QED
  BY <1>2, <1>3, <1>4, <1>5, <1>6, <1>7, <1>8, <1>9 DEF ThreadInv, r

\* A scan goes on.
LEMMA ScanOK ==
  ASSUME Types, Chains, Links, NEW me, ThreadInv(me), me.pc \in Searching, me.op = "scan",
         NEW y, ReachedOrTail(y, me.lv), Follows(me.x, y)
  PROVE  ThreadInv(CameScan(me, y)) /\ Goes(me, CameScan(me, y))
<1>1. me.op \notin SpliceOps /\ me.op # "insert" /\ me.pc \in Busy
  BY DEF SpliceOps, Busy
<1>2. CASE y # Tail
  <2>1. ThreadInv(Ahead(me, y)) /\ Goes(me, Ahead(me, y))
    BY <1>1, <1>2, AheadOK
  <2>2. \E g : CameScan(me, y) = [Ahead(me, y) EXCEPT !.got = g]
    BY <1>2 DEF CameScan
  <2> QED
    BY <2>1, <2>2, GotIsFree
<1>3. CASE y = Tail
  <2>1. ThreadInv(Finish(me, TRUE)) /\ Goes(me, Finish(me, TRUE))
    BY <1>1, FinishOK
  <2> DEFINE f == Finish(me, TRUE)
  <2>2. \E g : CameScan(me, y) = [f EXCEPT !.got = g]
    BY <1>3 DEF CameScan
  <2>3. ThreadInv(f) /\ Goes(me, f)
    BY <2>1
  <2> HIDE DEF f
  <2> QED
    BY <2>2, <2>3, GotIsFree
<1> QED
  BY <1>2, <1>3

\* A search without a splice goes ahead from y at level 0, or down a level.
LEMMA WalkOK ==
  ASSUME Types, Chains, Links, NEW me, ThreadInv(me), me.pc \in Searching, me.op \notin SpliceOps
  PROVE  /\ \A n \in Linkable, l \in Level : Reached(n, l) /\ (me.op = "scan" => l = 0) =>
               LET r == [Ahead(me, n) EXCEPT !.lv = l] IN ThreadInv(r) /\ Goes(me, r)
         /\ \A y \in Some : me.lv > 0 => ThreadInv(Down(me, y)) /\ Goes(me, Down(me, y))
<1>0. LocalType(me) /\ Shape(me) /\ me.lv \in Level /\ Reached(me.x, me.lv) /\ me.then = "none"
  BY DEF ThreadInv, Shape, Hands, Busy, Searching
<1>1. ASSUME NEW r, r.pc = "read", Reached(r.x, r.lv), r.lv \in Level, me.op = "scan" => r.lv = 0,
             r.op = me.op, r.k = me.k, r.n = me.n, r.i = me.i, r.prev = me.prev, r.nxt = me.nxt,
             r.sh = me.sh, r.then = me.then, r.mode = me.mode, LocalType(r)
      PROVE  ThreadInv(r) /\ Goes(me, r)
  <2>1. Shape(r)
    BY <1>0, <1>1 DEF Shape, Busy, Searching, SpliceOps
  <2>2. Hands(r)
    BY <1>1 DEF Hands
  <2>3. SpliceInv(r)
    BY <1>1 DEF ThreadInv, SpliceInv
  <2>4. BracketInv(r) /\ NestInv(r)
    BY <1>0, <1>1 DEF BracketInv, NestInv, Searching, SpliceOps, Shape
  <2>5. Goes(me, r)
    BY <1>0, <1>1 DEF Goes, Fresh, Building, Owner, Busy, Searching, SpliceOps
  <2>6. NodeInv(r)
    BY <1>0, <1>1, <2>5 DEF NodeInv, Owner, Fresh, Building, Busy, Searching, SpliceOps
  <2> QED
    BY <1>1, <2>1, <2>2, <2>3, <2>4, <2>5, <2>6 DEF ThreadInv
<1>2. ASSUME NEW n \in Linkable, NEW l \in Level, Reached(n, l), me.op = "scan" => l = 0
      PROVE  LET r == [Ahead(me, n) EXCEPT !.lv = l] IN ThreadInv(r) /\ Goes(me, r)
  <2> DEFINE r == [Ahead(me, n) EXCEPT !.lv = l]
  <2>1. /\ DOMAIN r = Locals /\ r.pc = "read" /\ r.x = n /\ r.lv = l /\ r.y = Tail /\ r.z = Tail
        /\ r.op = me.op /\ r.k = me.k /\ r.n = me.n /\ r.i = me.i /\ r.prev = me.prev /\ r.nxt = me.nxt
        /\ r.sh = me.sh /\ r.then = me.then /\ r.mode = me.mode /\ r.target = me.target
        /\ r.after = me.after /\ r.probe = me.probe /\ r.bad = me.bad /\ r.res = me.res
        /\ r.fix = me.fix /\ r.tight = me.tight
    BY <1>0 DEF LocalType, Locals, Ahead
  <2> HIDE DEF r
  <2>2. LocalType(r)
    BY <1>0, <2>1, NodeFacts DEF LocalType, Busy, Searching, Some, Level
  <2>3. ThreadInv(r) /\ Goes(me, r)
    BY <1>1, <1>2, <2>1, <2>2
  <2> QED
    BY <2>3 DEF r
<1>3. ASSUME NEW y \in Some, me.lv > 0
      PROVE  ThreadInv(Down(me, y)) /\ Goes(me, Down(me, y))
  <2> DEFINE r == Down(me, y)
  <2>1. /\ DOMAIN r = Locals /\ r.pc = "read" /\ r.x = me.x /\ r.lv = me.lv - 1 /\ r.y = Tail /\ r.z = Tail
        /\ r.op = me.op /\ r.k = me.k /\ r.n = me.n /\ r.i = me.i /\ r.prev = me.prev /\ r.nxt = me.nxt
        /\ r.sh = me.sh /\ r.then = me.then /\ r.mode = me.mode /\ r.target = me.target
        /\ r.after = y /\ r.probe = me.probe /\ r.bad = me.bad /\ r.res = me.res
        /\ r.fix = me.fix /\ r.tight = me.tight
    BY <1>0 DEF LocalType, Locals, Down
  <2> HIDE DEF r
  <2>2. me.lv - 1 \in Level /\ me.lv - 1 \in Nat /\ me.lv - 1 <= me.lv
    BY <1>0, <1>3, NodeFacts DEF Level
  <2>3. Reached(me.x, me.lv - 1)
    BY <1>0, <2>2, ReachFacts
  <2>4. LocalType(r)
    BY <1>0, <2>1, <2>2 DEF LocalType, Busy, Searching, Some
  <2>5. me.op = "scan" => me.lv = 0
    BY DEF ThreadInv, Shape, Busy
  <2>6. ThreadInv(r) /\ Goes(me, r)
    BY <1>1, <1>3, <2>1, <2>2, <2>3, <2>4, <2>5
  <2> QED
    BY <2>6 DEF r
<1> QED
  BY <1>2, <1>3

\* Whatever the call, the thread goes on well when the walk has come to y.
LEMMA CameOK ==
  ASSUME Types, Chains, Links, NEW me, ThreadInv(me), me.pc \in Searching,
         NEW y, ReachedOrTail(y, me.lv), Follows(me.x, y)
  PROVE  ThreadInv(Came(me, y)) /\ Goes(me, Came(me, y))
<1> USE DEF SpliceOps
<1>0. /\ LocalType(me) /\ Shape(me) /\ me.lv \in Level /\ me.lv \in Nat /\ 0 \in Level
      /\ Reached(me.x, me.lv) /\ me.x \in Linkable /\ y \in Some /\ me.pc \in Busy
      /\ me.op \in {"insert", "erase", "erase_node", "find", "seek", "scan", "refresh"}
  BY NodeFacts, ReachFacts DEF ThreadInv, Shape, Hands, Busy, Searching, LocalType, ReachedOrTail, Some
<1>1. CASE me.op \in {"insert", "erase", "erase_node"}
  BY <1>1, CameSpliceOK DEF Came
<1>2. ASSUME y # Tail PROVE y \in Linkable /\ Reached(y, me.lv) /\ Reached(y, 0)
  <2>1. y \in Node /\ Reached(y, me.lv)
    BY <1>2 DEF ReachedOrTail
  <2>2. Reached(y, 0)
    BY <1>0, <2>1, NodeFacts, ReachFacts DEF Level
  <2> QED
    BY <2>1, <2>2 DEF Linkable
<1>3. ASSUME me.op \notin SpliceOps, NEW n \in Some \cup {Head}
      PROVE  ThreadInv(Found(me, n)) /\ Goes(me, Found(me, n))
  <2>1. (IF me.op = "find" THEN Is(n, me.k) ELSE n \notin {Head, Tail}) \in BOOLEAN
    BY DEF Is
  <2>2. me.mode \in {"none", "le", "lt", "ge", "gt", "last"}
    BY <1>0 DEF LocalType
  <2> QED
    BY <1>0, <1>3, <2>1, <2>2, FinishOK DEF Found
<1>4. ASSUME me.op \notin SpliceOps, y # Tail
      PROVE  ThreadInv(Ahead(me, y)) /\ Goes(me, Ahead(me, y))
  BY <1>4, AheadOK
<1>5. ASSUME me.op \notin SpliceOps, me.lv > 0
      PROVE  ThreadInv(Down(me, y)) /\ Goes(me, Down(me, y))
  BY <1>0, <1>5, WalkOK
<1>6. \A a : Before(a, me.k) => a # Tail
  BY DEF Before
<1>7. \A a : Is(a, me.k) => a # Tail
  BY DEF Is
<1>8. CASE me.op \in {"find", "seek"} /\ me.mode # "last"
  <2>1. Came(me, y) = CameNear(me, y)
    BY <1>8 DEF Came
  <2>2. y # Tail => LET r == [Ahead(me, y) EXCEPT !.lv = 0] IN ThreadInv(r) /\ Goes(me, r)
    BY <1>0, <1>2, <1>8, WalkOK
  <2>3. y \in Some \cup {Head} /\ me.x \in Some \cup {Head}
    BY <1>0 DEF Some, Linkable
  <2> QED
    BY <1>3, <1>4, <1>5, <1>6, <1>7, <1>8, <2>1, <2>2, <2>3 DEF CameNear, StillBefore
<1>9. CASE me.op = "seek" /\ me.mode = "last"
  <2>1. Came(me, y) = CameLast(me, y)
    BY <1>9 DEF Came
  <2>2. me.x \in Some \cup {Head}
    BY <1>0 DEF Some, Linkable
  <2> QED
    BY <1>3, <1>4, <1>5, <1>9, <2>1, <2>2 DEF CameLast
<1>10. CASE me.op = "scan"
  <2>1. Came(me, y) = CameScan(me, y)
    BY <1>10 DEF Came
  <2> QED
    BY <2>1, ScanOK, <1>10
<1>11. CASE me.op = "refresh"
  <2>1. Came(me, y) = CameRefresh(me, y)
    BY <1>11 DEF Came
  <2>2. ASSUME me.lv < me.i - 1
        PROVE  LET r == [Ahead(me, Head) EXCEPT !.lv = @ + 1] IN ThreadInv(r) /\ Goes(me, r)
    <3>1. me.i \in 1 .. MaxHeight /\ me.lv + 1 \in Level /\ MaxHeight \in Nat
      BY <1>0, <1>11, <2>2, NodeFacts DEF Shape, Level
    <3>2. Reached(Head, me.lv + 1) /\ Head \in Linkable
      BY DEF Reached, Linkable
    <3>3. Ahead(me, Head).lv = me.lv /\ DOMAIN Ahead(me, Head) = Locals
      BY <1>0 DEF Ahead, LocalType, Locals
    <3>4. [Ahead(me, Head) EXCEPT !.lv = @ + 1] = [Ahead(me, Head) EXCEPT !.lv = me.lv + 1]
      BY <3>3
    <3> QED
      BY <1>11, <3>1, <3>2, <3>4, WalkOK
  <2>3. ThreadInv(Finish(me, TRUE)) /\ Goes(me, Finish(me, TRUE))
    BY <1>0, <1>11, FinishOK
  <2> QED
    <3>1. CASE y # Tail
      BY <1>4, <1>11, <2>1, <3>1 DEF CameRefresh
    <3>2. CASE y = Tail /\ me.lv < me.i - 1
      <4>1. Came(me, y) = [Ahead(me, Head) EXCEPT !.lv = @ + 1]
        BY <2>1, <3>2 DEF CameRefresh
      <4> QED
        BY <2>2, <3>2, <4>1
    <3>3. CASE y = Tail /\ ~(me.lv < me.i - 1)
      BY <2>1, <2>3, <3>3 DEF CameRefresh
    <3> QED
      BY <3>1, <3>2, <3>3
<1>12. me.op = "find" => me.mode # "last"
  BY DEF ThreadInv, Shape, Busy
<1> QED
  BY <1>0, <1>1, <1>8, <1>9, <1>10, <1>11, <1>12

\* The thread goes on well from the successor of a marked node, or from that of
\* an unmarked one.
LEMMA SkipCheckOK ==
  ASSUME Types, Chains, Links, NEW me, ThreadInv(me), me.pc \in Searching,
         NEW y, ReachedOrTail(y, me.lv), Follows(me.x, y)
  PROVE  /\ ThreadInv(SkipFrom(me, y)) /\ Goes(me, SkipFrom(me, y))
         /\ ThreadInv(CheckNext(me, y)) /\ Goes(me, CheckNext(me, y))
<1>1. CASE y = Tail
  BY <1>1, CameOK DEF SkipFrom, CheckNext
<1>2. CASE y # Tail
  <2>1. y \in Node /\ Reached(y, me.lv)
    BY <1>2 DEF ReachedOrTail
  <2>2. ASSUME NEW p \in {"skip", "check"}, NEW r, r = [me EXCEPT !.pc = p, !.y = y, !.z = Tail]
        PROVE  ThreadInv(r) /\ Goes(me, r)
    <3>1. LocalType(r) /\ r.pc = p /\ r.x = me.x /\ r.lv = me.lv /\ r.y = y
          /\ r.op = me.op /\ r.k = me.k /\ r.n = me.n /\ r.i = me.i /\ r.prev = me.prev /\ r.nxt = me.nxt
          /\ r.sh = me.sh /\ r.then = me.then /\ r.mode = me.mode /\ r.target = me.target
          /\ r.after = me.after /\ r.probe = me.probe /\ r.res = me.res
      BY <2>1, <2>2 DEF ThreadInv, LocalType, Locals, Busy, Searching, Some
    <3>2. Shape(r)
      BY <3>1 DEF ThreadInv, Shape, Busy, Searching, SpliceOps
    <3>3. Hands(r)
      BY <2>1, <3>1 DEF ThreadInv, Hands, Searching
    <3>4. SpliceInv(r)
      BY <3>1 DEF ThreadInv, SpliceInv
    <3>5. BracketInv(r)
      BY <3>1 DEF ThreadInv, BracketInv, Bracket, Low, Searching
    <3>6. NestInv(r)
      BY <3>1 DEF ThreadInv, NestInv, Searching
    <3>7. Goes(me, r)
      BY <3>1 DEF Goes, Fresh, Building, Owner, Busy, Searching
    <3>8. NodeInv(r)
      BY <3>1, <3>7 DEF ThreadInv, NodeInv, Goes, Owner, Busy, Searching
    <3> QED
      BY <3>1, <3>2, <3>3, <3>4, <3>5, <3>6, <3>7, <3>8 DEF ThreadInv
  <2> QED
    BY <1>2, <2>2 DEF SkipFrom, CheckNext
<1> QED
  BY <1>1, <1>2

\* A search of the levels from .. to of a splice that is good above and below.
LEMMA SearchOK ==
  ASSUME Types, Chains, Links, NEW me, ThreadInv(me), me.op \in SpliceOps,
         me.pc \in Busy \ Searching, me.pc # "mark",
         NEW from \in Level, NEW to \in Level, to <= from, from < me.sh,
         NEW before, Reached(before, from), KeyOK(before, me.k),
         NEW after \in Some, ~Before(after, me.k),
         me.op = "insert" => \A l \in 0 .. me.sh - 1 : from < l => NotAfter(me.prev[l], before),
         \A l \in 0 .. me.sh - 1 : (Low(me) <= l /\ (from < l \/ l < to)) => Bracket(me, l),
         me.op = "insert" => to = me.i,
         NEW then \in {"link0", "own", "cut"},
         me.op = "insert" => (then = "link0" <=> "link0" \in {me.pc, me.then}),
         me.op = "insert" <=> then \in {"link0", "own"},
         then = "cut" => me.pc = "cut" \/ me.then = "cut",
         then = "cut" => to = 0 \/ to = me.i,
         NEW r, LocalType(r), r.pc = "read", r.lv = from, r.target = to, r.x = before, r.after = after,
         r.then = then, r.op = me.op, r.k = me.k, r.n = me.n, r.i = me.i, r.prev = me.prev,
         r.nxt = me.nxt, r.sh = me.sh, r.res = me.res
  PROVE  ThreadInv(r) /\ Goes(me, r)
<1>2. LocalType(r) /\ r.pc = "read" /\ r.x = before /\ r.lv = from /\ r.target = to /\ r.after = after
      /\ r.op = me.op /\ r.k = me.k /\ r.n = me.n /\ r.i = me.i /\ r.prev = me.prev /\ r.nxt = me.nxt
      /\ r.sh = me.sh /\ r.then = then /\ r.res = me.res
  OBVIOUS
<1>3. Shape(r)
  BY <1>2 DEF ThreadInv, Shape, Busy, Searching, SpliceOps
<1>4. Hands(r) /\ SpliceInv(r)
  BY <1>2 DEF ThreadInv, Hands, SpliceInv, Searching
<1>5. BracketInv(r)
  BY <1>2 DEF BracketInv, Bracket, Low, Searching
<1>6. NestInv(r)
  <2>1. me.op = "insert" =>
          \A j, l \in 0 .. me.sh - 1 : from < j /\ j < l => NotAfter(me.prev[l], me.prev[j])
    <3> SUFFICES ASSUME me.op = "insert", NEW j \in 0 .. me.sh - 1, NEW l \in 0 .. me.sh - 1, from < j, j < l
                 PROVE  NotAfter(me.prev[l], me.prev[j])
      OBVIOUS
    <3>1. me.i <= j
      BY NodeFacts DEF Level
    <3> QED
      BY <3>1 DEF ThreadInv, NestInv
  <2> QED
    BY <1>2, <2>1 DEF NestInv, Searching, SpliceOps
<1>7. Goes(me, r)
  BY <1>2 DEF Goes, Fresh, Building, Owner, Busy, Searching
<1>8. NodeInv(r)
  BY <1>2, <1>7 DEF ThreadInv, NodeInv, Goes, Owner, Busy, Searching
<1> QED
  BY <1>2, <1>3, <1>4, <1>5, <1>6, <1>7, <1>8 DEF ThreadInv

\* Searching a level again after a failed compare-exchange.
LEMMA RepairOK ==
  ASSUME Types, Chains, Links, NEW me, ThreadInv(me), me.pc \in {"link0", "own", "undo", "cut"},
         NEW bad \in BOOLEAN, NEW then \in {"link0", "own", "cut"},
         me.pc \in {"own", "undo"} => then = "own",
         me.pc \in {"link0", "cut"} => then = me.pc
  PROVE  LET r == Repair(me, me.i, bad, then) IN
         ThreadInv(r) /\ Goes(me, r) /\ r.res = me.res
<1>1. /\ LocalType(me) /\ Shape(me) /\ me.op \in SpliceOps /\ me.pc \in Busy \ Searching
      /\ me.pc \in {"link0", "own", "undo"} => me.op = "insert"
      /\ me.pc = "cut" => me.op \in {"erase", "erase_node"}
      /\ me.then = "none" /\ me.sh \in 0 .. MaxHeight /\ me.i \in Nat
  BY DEF ThreadInv, LocalType, Shape, Busy, Searching, SpliceOps
<1>2. me.i < me.sh /\ me.i \in Level
  <2>1. CASE me.pc = "link0"
    <3>1. Fresh(me) /\ Owner(me)
      BY <1>1, <2>1 DEF Fresh, Owner
    <3>2. me.i = 0 /\ me.n \in Node /\ height[me.n] > 0 /\ height[me.n] <= me.sh
      BY <2>1, <3>1 DEF ThreadInv, NodeInv
    <3> QED
      BY <1>1, <3>2, NodeFacts DEF Types, Level
  <2>2. CASE me.pc \in {"own", "undo"}
    <3>1. Building(me) /\ Owner(me)
      BY <1>1, <2>2 DEF Building, Owner, Busy
    <3>2. me.n \in Node /\ me.i < height[me.n] /\ height[me.n] <= me.sh
      BY <2>2, <3>1 DEF ThreadInv, NodeInv
    <3> QED
      BY <1>1, <3>2, NodeFacts DEF Types, Level
  <2>3. CASE me.pc = "cut"
    <3>1. me.n \in Node /\ me.i < height[me.n] /\ height[me.n] <= me.sh
      BY <2>3 DEF ThreadInv, NodeInv
    <3> QED
      BY <1>1, <3>1, NodeFacts DEF Types, Level
  <2> QED
    BY <2>1, <2>2, <2>3
<1>3. \A l \in 0 .. me.sh - 1 : Low(me) <= l => Bracket(me, l)
  BY DEF ThreadInv, BracketInv
<1>4. Low(me) <= me.i /\ me.i \in 0 .. me.sh - 1
  BY <1>1, <1>2 DEF Low
<1>5. CASE bad
  <2> DEFINE r == [me EXCEPT !.pc = "probe", !.probe = me.i + 1, !.target = me.i, !.then = then]
  <2>1. Repair(me, me.i, bad, then) = r
    BY <1>5 DEF Repair
  <2>2. LocalType(r) /\ r.pc = "probe" /\ r.target = me.i /\ r.probe = me.i + 1
        /\ r.op = me.op /\ r.k = me.k /\ r.n = me.n /\ r.i = me.i /\ r.prev = me.prev /\ r.nxt = me.nxt
        /\ r.sh = me.sh /\ r.then = then /\ r.mode = me.mode /\ r.res = me.res
    BY <1>1 DEF LocalType, Locals, Busy
  <2> HIDE DEF r
  <2>3. Shape(r)
    BY <1>1, <1>2, <2>2 DEF Shape, Busy, Searching, SpliceOps
  <2>4. Hands(r) /\ SpliceInv(r)
    BY <2>2 DEF ThreadInv, Hands, SpliceInv, Searching
  <2>5. BracketInv(r)
    BY <1>3, <2>2 DEF BracketInv, Bracket, Low, Searching
  <2>6. NestInv(r)
    BY <1>1, <2>2 DEF ThreadInv, NestInv, Searching
  <2>7. Goes(me, r)
    BY <1>1, <2>2 DEF Goes, Fresh, Building, Owner, Busy, Searching
  <2>8. NodeInv(r)
    BY <1>1, <2>2, <2>7 DEF ThreadInv, NodeInv, Goes, Owner, Busy, Searching
  <2> QED
    BY <2>1, <2>2, <2>3, <2>4, <2>5, <2>6, <2>7, <2>8 DEF ThreadInv
<1>6. CASE ~bad
  <2> DEFINE r == Repair(me, me.i, bad, then)
  <2>1. /\ DOMAIN r = Locals /\ r.pc = "read" /\ r.lv = me.i /\ r.target = me.i /\ r.x = me.prev[me.i]
        /\ r.after = Tail /\ r.then = then /\ r.y = me.y /\ r.z = me.z
        /\ r.op = me.op /\ r.k = me.k /\ r.n = me.n /\ r.i = me.i /\ r.prev = me.prev /\ r.nxt = me.nxt
        /\ r.sh = me.sh /\ r.probe = me.probe /\ r.bad = me.bad /\ r.res = me.res /\ r.mode = me.mode
        /\ r.fix = me.fix /\ r.tight = me.tight
    BY <1>1, <1>6 DEF Repair, Search, LocalType, Locals
  <2> HIDE DEF r
  <2>2. Reached(me.prev[me.i], me.i) /\ KeyOK(me.prev[me.i], me.k) /\ Tail \in Some /\ ~Before(Tail, me.k)
    BY <1>3, <1>4 DEF ThreadInv, SpliceInv, Bracket, Before, Some
  <2>3. me.op = "insert" => \A l \in 0 .. me.sh - 1 : me.i < l => NotAfter(me.prev[l], me.prev[me.i])
    BY <1>1, <1>4 DEF ThreadInv, NestInv, Searching
  <2>4. LocalType(r)
    BY <1>1, <2>1, <2>2 DEF LocalType, Busy, Searching, KeyOK, Linkable
  <2>5. me.op = "insert" => (then = "link0" <=> "link0" \in {me.pc, me.then})
    BY <1>1
  <2>6. me.op = "insert" <=> then \in {"link0", "own"}
    BY <1>1
  <2>7. then = "cut" => me.pc = "cut"
    BY <1>1
  <2> PICK i, before : i = me.i /\ before = me.prev[me.i]
    OBVIOUS
  <2>8. ThreadInv(r) /\ Goes(me, r)
    <3>1. \A l \in 0 .. me.sh - 1 : (Low(me) <= l /\ (i < l \/ l < i)) => Bracket(me, l)
      BY <1>3
    <3>2. me.op = "insert" => \A l \in 0 .. me.sh - 1 : i < l => NotAfter(me.prev[l], before)
      BY <2>3
    <3>3. i \in Level /\ i <= i /\ i < me.sh /\ Reached(before, i) /\ KeyOK(before, me.k)
      BY <1>1, <1>2, <2>2
    <3>4. r.lv = i /\ r.target = i /\ r.x = before
      BY <2>1
    <3> QED
      BY <1>1, <2>1, <2>2, <2>4, <2>5, <2>6, <2>7, <3>1, <3>2, <3>3, <3>4, SearchOK
  <2> QED
    BY <2>1, <2>8 DEF r
<1> QED
  BY <1>5, <1>6

\* refresh_splice goes up a level or begins to search below it.
LEMMA ProbeOK ==
  ASSUME Types, Chains, Links, NEW me, ThreadInv(me), me.pc = "probe"
  PROVE  /\ LET r == [me EXCEPT !.probe = @ + 1] IN
            me.prev[me.probe] # Head => ThreadInv(r) /\ Goes(me, r)
         /\ LET r == [Search(me, me.probe - 1, me.target, me.prev[me.probe], me.nxt[me.probe])
                        EXCEPT !.probe = 0]
            IN  ThreadInv(r) /\ Goes(me, r)
<1> PICK j, p, s : j = me.probe /\ p = me.prev[j] /\ s = me.nxt[j]
  OBVIOUS
<1>1. /\ LocalType(me) /\ Shape(me) /\ me.op \in SpliceOps /\ me.pc \in Busy \ Searching
      /\ me.sh \in 0 .. MaxHeight /\ me.i \in Nat /\ j \in Nat /\ me.target \in Nat
      /\ me.target < j /\ j <= me.sh /\ me.then \in {"link0", "own", "cut"}
      /\ me.op = "insert" <=> me.then \in {"link0", "own"}
      /\ me.op = "insert" => me.target = me.i
      /\ me.then = "cut" => me.target = 0 \/ me.target = me.i
      /\ MaxHeight \in Nat
  BY NodeFacts DEF ThreadInv, LocalType, Shape, Busy, Searching, SpliceOps
<1>2. /\ p \in Linkable /\ s \in Some /\ j \in 0 .. MaxHeight
      /\ j = me.sh => p = Head /\ s = Tail
      /\ j < me.sh => j \in 0 .. me.sh - 1 /\ Reached(p, j)
  BY <1>1 DEF ThreadInv, SpliceInv, LocalType
<1>3. \A l \in 0 .. me.sh - 1 : Low(me) <= l => Bracket(me, l)
  BY DEF ThreadInv, BracketInv
<1>4. ASSUME p # Head
      PROVE  LET r == [me EXCEPT !.probe = @ + 1] IN ThreadInv(r) /\ Goes(me, r)
  <2>1. j < me.sh
    BY <1>1, <1>2, <1>4
  <2> DEFINE r == [me EXCEPT !.probe = @ + 1]
  <2>2. LocalType(r) /\ r.pc = "probe" /\ r.target = me.target /\ r.probe = j + 1
        /\ r.op = me.op /\ r.k = me.k /\ r.n = me.n /\ r.i = me.i /\ r.prev = me.prev /\ r.nxt = me.nxt
        /\ r.sh = me.sh /\ r.then = me.then /\ r.mode = me.mode /\ r.res = me.res
    BY <1>1 DEF LocalType, Locals, Busy
  <2> HIDE DEF r
  <2>3. Shape(r)
    BY <1>1, <2>1, <2>2 DEF Shape, Busy, Searching, SpliceOps
  <2>4. Hands(r) /\ SpliceInv(r)
    BY <2>2 DEF ThreadInv, Hands, SpliceInv, Searching
  <2>5. BracketInv(r)
    BY <1>3, <2>2 DEF BracketInv, Bracket, Low, Searching
  <2>6. NestInv(r)
    BY <1>1, <2>2 DEF ThreadInv, NestInv, Searching
  <2>7. Goes(me, r)
    BY <1>1, <2>2 DEF Goes, Fresh, Building, Owner, Busy, Searching
  <2>8. NodeInv(r)
    BY <1>1, <2>2, <2>7 DEF ThreadInv, NodeInv, Goes, Owner, Busy, Searching
  <2> QED
    BY <2>2, <2>3, <2>4, <2>5, <2>6, <2>7, <2>8 DEF ThreadInv, r
<1>5. LET r == [Search(me, j - 1, me.target, p, s) EXCEPT !.probe = 0] IN ThreadInv(r) /\ Goes(me, r)
  <2> DEFINE r == [Search(me, j - 1, me.target, p, s) EXCEPT !.probe = 0]
  <2>1. /\ DOMAIN r = Locals /\ r.pc = "read" /\ r.lv = j - 1 /\ r.target = me.target /\ r.x = p
        /\ r.after = s /\ r.then = me.then /\ r.y = me.y /\ r.z = me.z
        /\ r.op = me.op /\ r.k = me.k /\ r.n = me.n /\ r.i = me.i /\ r.prev = me.prev /\ r.nxt = me.nxt
        /\ r.sh = me.sh /\ r.probe = 0 /\ r.bad = me.bad /\ r.res = me.res /\ r.mode = me.mode
        /\ r.fix = me.fix /\ r.tight = me.tight
    BY <1>1 DEF Search, LocalType, Locals
  <2> HIDE DEF r
  <2> PICK from, to, then : from = j - 1 /\ to = me.target /\ then = me.then
    OBVIOUS
  <2>2. from \in Level /\ to \in Level /\ to <= from /\ from < me.sh /\ from \in Nat /\ from <= j
    BY <1>1 DEF Level
  <2>3. LocalType(r)
    BY <1>1, <1>2, <2>1, <2>2 DEF LocalType, Busy, Searching
  <2>4. Low(me) <= j
    BY <1>1 DEF Low
  <2>5. Reached(p, from) /\ KeyOK(p, me.k) /\ ~Before(s, me.k)
    <3>1. CASE j = me.sh
      BY <1>2, <3>1 DEF Reached, KeyOK, Before
    <3>2. CASE j < me.sh
      <4>1. Bracket(me, j) /\ j \in Level
        BY <1>1, <1>2, <1>3, <2>4, <3>2 DEF Level
      <4> QED
        BY <1>2, <2>2, <3>2, <4>1, ReachFacts DEF Bracket
    <3> QED
      BY <1>1, <3>1, <3>2
  <2>6. me.op = "insert" => \A l \in 0 .. me.sh - 1 : from < l => NotAfter(me.prev[l], p)
    <3> SUFFICES ASSUME me.op = "insert", NEW l \in 0 .. me.sh - 1, from < l PROVE NotAfter(me.prev[l], p)
      OBVIOUS
    <3>1. CASE l = j
      <4>1. p = Head \/ (p \in Node /\ Key[p] \in Int)
        BY <1>2, NodeFacts DEF Linkable
      <4> QED
        BY <3>1, <4>1 DEF NotAfter
    <3>2. CASE l # j
      <4>1. j < l /\ j \in 0 .. me.sh - 1 /\ me.i <= j
        BY <1>1, <2>2, <3>2
      <4> QED
        BY <1>1, <4>1 DEF ThreadInv, NestInv, Searching
    <3> QED
      BY <3>1, <3>2
  <2>7. \A l \in 0 .. me.sh - 1 : (Low(me) <= l /\ (from < l \/ l < to)) => Bracket(me, l)
    BY <1>3
  <2>8. /\ me.op = "insert" => (then = "link0" <=> "link0" \in {me.pc, me.then})
        /\ me.op = "insert" <=> then \in {"link0", "own"}
        /\ then = "cut" => me.pc = "cut" \/ me.then = "cut"
        /\ then = "cut" => to = 0 \/ to = me.i
        /\ me.op = "insert" => to = me.i
        /\ then \in {"link0", "own", "cut"}
    BY <1>1
  <2>9. r.lv = from /\ r.target = to /\ r.then = then
    BY <2>1
  <2>10. ThreadInv(r) /\ Goes(me, r)
    BY <1>1, <1>2, <2>1, <2>2, <2>3, <2>5, <2>6, <2>7, <2>8, <2>9, SearchOK
  <2> QED
    BY <2>10 DEF r
<1> QED
  BY <1>4, <1>5

\* So may the fields bad and tight.
LEMMA BadIsFree ==
  ASSUME NEW me, ThreadInv(me), NEW a \in BOOLEAN, NEW b \in BOOLEAN
  PROVE  LET r == [me EXCEPT !.bad = a, !.tight = b] IN
         ThreadInv(r) /\ (Owner(r) <=> Owner(me)) /\ \A m : Goes(m, me) => Goes(m, r)
<1> DEFINE r == [me EXCEPT !.bad = a, !.tight = b]
<1>1. /\ DOMAIN r = Locals /\ r.pc = me.pc /\ r.x = me.x /\ r.lv = me.lv /\ r.y = me.y /\ r.z = me.z
      /\ r.op = me.op /\ r.k = me.k /\ r.n = me.n /\ r.i = me.i /\ r.prev = me.prev /\ r.nxt = me.nxt
      /\ r.sh = me.sh /\ r.then = me.then /\ r.mode = me.mode /\ r.target = me.target
      /\ r.after = me.after /\ r.probe = me.probe /\ r.bad = a /\ r.res = me.res
      /\ r.fix = me.fix /\ r.tight = b
  BY DEF ThreadInv, LocalType, Locals
<1> HIDE DEF r
<1>2. LocalType(r)
  BY <1>1 DEF ThreadInv, LocalType
<1>3. Shape(r)
  BY <1>1 DEF ThreadInv, Shape
<1>4. Hands(r) /\ SpliceInv(r)
  BY <1>1 DEF ThreadInv, Hands, SpliceInv
<1>5. BracketInv(r)
  BY <1>1 DEF ThreadInv, BracketInv, Bracket, Low
<1>6. NestInv(r)
  BY <1>1 DEF ThreadInv, NestInv
<1>7. (Fresh(r) <=> Fresh(me)) /\ (Building(r) <=> Building(me)) /\ (Owner(r) <=> Owner(me))
  BY <1>1 DEF Owner, Fresh, Building
<1>8. NodeInv(r)
  BY <1>1, <1>7 DEF ThreadInv, NodeInv
<1>9. \A m : Goes(m, me) => Goes(m, r)
  BY <1>1, <1>7 DEF Goes
<1> QED
  BY <1>2, <1>3, <1>4, <1>5, <1>6, <1>7, <1>8, <1>9 DEF ThreadInv, r

\* The next level to cut, or the end of the erase.
LEMMA CutNextOK ==
  ASSUME Types, NEW me, ThreadInv(me), me.pc \in {"cut", "cutref"}
  PROVE  LET r == CutNext(me) IN ThreadInv(r) /\ Goes(me, r)
<1>1. /\ LocalType(me) /\ Shape(me) /\ me.op \in {"erase", "erase_node"} /\ me.pc \in Busy
      /\ me.then = "none" /\ me.i \in Nat
  BY DEF ThreadInv, LocalType, Shape, Busy, Searching, SpliceOps
<1>2. CASE me.i = 0
  BY <1>1, <1>2, FinishOK DEF CutNext
<1>3. CASE me.i # 0
  <2> DEFINE r == [me EXCEPT !.pc = "cut", !.i = @ - 1]
  <2>1. LocalType(r) /\ r.pc = "cut" /\ r.i = me.i - 1
        /\ r.op = me.op /\ r.k = me.k /\ r.n = me.n /\ r.prev = me.prev /\ r.nxt = me.nxt
        /\ r.sh = me.sh /\ r.then = me.then
    BY <1>1, <1>3 DEF LocalType, Locals, Busy
  <2> HIDE DEF r
  <2>2. Shape(r)
    BY <1>1, <2>1 DEF Shape, Busy, Searching, SpliceOps
  <2>3. Hands(r) /\ SpliceInv(r)
    BY <2>1 DEF ThreadInv, Hands, SpliceInv, Searching
  <2>4. BracketInv(r) /\ NestInv(r)
    BY <1>1, <2>1 DEF ThreadInv, BracketInv, NestInv, Bracket, Low, Searching
  <2>5. Goes(me, r)
    BY <1>1, <2>1 DEF Goes, Fresh, Building, Owner
  <2>6. \A n \in Node : height[n] \in Int
    BY NodeFacts DEF Types
  <2>7. me.n \in Node /\ me.k = Key[me.n] /\ WasLinked(me.n) /\ deleting[me.n][0]
        /\ me.i < height[me.n] /\ height[me.n] <= me.sh
    BY DEF ThreadInv, NodeInv
  <2>8. me.i - 1 < height[me.n]
    BY <1>1, <2>6, <2>7
  <2>9. NodeInv(r)
    BY <1>1, <2>1, <2>7, <2>8 DEF NodeInv, Owner, Fresh, Building
  <2> QED
    BY <1>3, <2>1, <2>2, <2>3, <2>4, <2>5, <2>9 DEF ThreadInv, CutNext, r
<1> QED
  BY <1>2, <1>3

\* Whoever has won the race for level 0 begins to cut.
LEMMA BeginCutOK ==
  ASSUME Types, NEW me, ThreadInv(me), me.pc = "mark", deleting[me.n][0]
  PROVE  LET r == BeginCut(me, height[me.n]) IN ThreadInv(r) /\ Goes(me, r)
<1> PICK h : h = height[me.n]
  OBVIOUS
<1>1. /\ LocalType(me) /\ Shape(me) /\ me.op \in {"erase", "erase_node"} /\ me.then = "none"
      /\ me.n \in Node /\ me.k = Key[me.n] /\ Reached(me.n, 0)
      /\ me.sh \in 0 .. MaxHeight /\ MaxHeight \in Nat
  BY NodeFacts DEF ThreadInv, LocalType, Shape, NodeInv, Busy, Searching, SpliceOps
<1>2. WasLinked(me.n) /\ h \in 1 .. MaxHeight
  BY <1>1, NodeFacts DEF Reached, WasLinked, Types
<1>3. CASE h > me.sh
  <2> DEFINE r == [WholeSearch(me, h) EXCEPT !.then = "cut", !.i = h - 1]
  <2>1. /\ DOMAIN r = Locals /\ r.pc = "read" /\ r.lv = h - 1 /\ r.target = 0 /\ r.x = Head
        /\ r.after = Tail /\ r.then = "cut" /\ r.y = me.y /\ r.z = me.z
        /\ r.op = me.op /\ r.k = me.k /\ r.n = me.n /\ r.i = h - 1
        /\ r.prev = [l \in 0 .. MaxHeight |-> Head] /\ r.nxt = [l \in 0 .. MaxHeight |-> Tail]
        /\ r.sh = h /\ r.probe = me.probe /\ r.bad = me.bad /\ r.res = me.res /\ r.mode = me.mode
        /\ r.fix = me.fix /\ r.tight = me.tight
    BY <1>1 DEF WholeSearch, Search, IdleThread, LocalType, Locals
  <2> HIDE DEF r
  <2>2. h - 1 \in Level /\ h - 1 \in Nat /\ h \in 0 .. MaxHeight
    BY <1>1, <1>2 DEF Level
  <2>3. LocalType(r)
    BY <1>1, <2>1, <2>2 DEF LocalType, Busy, Searching, Some, Linkable
  <2>4. Shape(r)
    BY <1>1, <2>1, <2>2 DEF Shape, Busy, Searching, SpliceOps
  <2>5. Hands(r)
    BY <2>1 DEF Hands, Reached, Searching
  <2>6. SpliceInv(r)
    BY <2>1, <2>2, NodeFacts DEF SpliceInv, Reached, ReachedOrTail
  <2>7. BracketInv(r) /\ NestInv(r)
    <3>1. \A l \in 0 .. h - 1 : ~(h - 1 < l) /\ ~(l < 0)
      BY <1>2
    <3> QED
      BY <1>1, <2>1, <3>1 DEF BracketInv, NestInv, KeyOK, Before, Low, Searching
  <2>8. Goes(me, r)
    BY <1>1, <2>1 DEF Goes, Fresh, Building, Owner
  <2>9. NodeInv(r)
    BY <1>1, <1>2, <2>1, <2>2 DEF NodeInv, Owner, Fresh, Building
  <2> QED
    BY <1>3, <2>1, <2>3, <2>4, <2>5, <2>6, <2>7, <2>8, <2>9 DEF ThreadInv, BeginCut, r
<1>4. CASE ~(h > me.sh)
  <2> DEFINE r == [me EXCEPT !.pc = "cut", !.i = h - 1]
  <2>1. LocalType(r) /\ r.pc = "cut" /\ r.i = h - 1
        /\ r.op = me.op /\ r.k = me.k /\ r.n = me.n /\ r.prev = me.prev /\ r.nxt = me.nxt
        /\ r.sh = me.sh /\ r.then = me.then
    BY <1>1, <1>2 DEF LocalType, Locals, Busy
  <2> HIDE DEF r
  <2>2. Shape(r)
    BY <1>1, <2>1 DEF Shape, Busy, Searching, SpliceOps
  <2>3. Hands(r) /\ SpliceInv(r)
    BY <2>1 DEF ThreadInv, Hands, SpliceInv, Searching
  <2>4. BracketInv(r) /\ NestInv(r)
    BY <1>1, <2>1 DEF ThreadInv, BracketInv, NestInv, Bracket, Low, Searching
  <2>5. Goes(me, r)
    BY <1>1, <2>1 DEF Goes, Fresh, Building, Owner
  <2>6. NodeInv(r)
    BY <1>1, <1>2, <1>4, <2>1 DEF NodeInv, Owner, Fresh, Building
  <2> QED
    BY <1>4, <2>1, <2>2, <2>3, <2>4, <2>5, <2>6 DEF ThreadInv, BeginCut, r
<1> QED
  BY <1>3, <1>4

\* Above l is a level at which the splice has another node: the top one has it.
LEMMA PastIs ==
  ASSUME NEW me, LocalType(me), NEW l \in 0 .. me.sh - 1, NEW ahead, ahead[me.sh] # ahead[l]
  PROVE  Past(me, ahead, l) \in l + 1 .. me.sh
<1>1. me.sh \in Nat /\ l \in Nat /\ l < me.sh
  BY NodeFacts DEF LocalType
<1> PICK sh : sh = me.sh
  OBVIOUS
<1> DEFINE T == {m \in l + 1 .. sh : ahead[m] # ahead[l]}
<1>2. T \in SUBSET Nat /\ sh \in T
  BY <1>1
<1>3. PICK m \in T : \A j \in T : m <= j
  BY <1>2, Least
<1>4. \A j \in l .. m - 1 : ahead[j] = ahead[l]
  <2> SUFFICES ASSUME NEW j \in l .. m - 1 PROVE ahead[j] = ahead[l]
    OBVIOUS
  <2>1. m \in l + 1 .. sh /\ m \in Int /\ j \in Int /\ l <= j /\ j <= m - 1
    BY <1>1
  <2>2. j \notin T
    <3> SUFFICES ASSUME j \in T PROVE FALSE
      OBVIOUS
    <3>1. m <= j
      BY <1>3
    <3> QED
      BY <2>1, <3>1
  <2>3. j # l => j \in l + 1 .. sh
    BY <1>1, <2>1
  <2> QED
    BY <2>2, <2>3
<1>5. \E q \in l + 1 .. sh : ahead[q] # ahead[l] /\ \A j \in l .. q - 1 : ahead[j] = ahead[l]
  BY <1>4
<1>6. sh \in l + 1 .. sh
  BY <1>1
<1> QED
  BY <1>5, <1>6 DEF Past

\* What is not after a node before the key is before the key.
LEMMA BackOK ==
  ASSUME NEW a, NEW b, NEW k \in Int, NotAfter(a, b), KeyOK(b, k)
  PROVE  KeyOK(a, k)
<1>1. CASE a = Head
  BY <1>1 DEF KeyOK
<1>2. CASE a # Head
  <2>1. a \in Node /\ b \in Node /\ Key[a] <= Key[b]
    BY <1>2 DEF NotAfter
  <2>2. Key[b] < k /\ Key[a] \in Int /\ Key[b] \in Int
    BY <2>1, NodeFacts DEF KeyOK
  <2> QED
    BY <2>1, <2>2 DEF KeyOK
<1> QED
  BY <1>1, <1>2

\* The splice of the last insert is taken over, level by level, or searched
\* again from a level whose nodes bracket the key.
LEMMA RecomputeOK ==
  ASSUME Types, Chains, Links, NEW me, ThreadInv(me), me.pc = "valid",
         NEW up \in 0 .. me.sh,
         up < me.sh => Bracket(me, up)
  PROVE  LET r == Recompute(me, up) IN ThreadInv(r) /\ Goes(me, r)
<1> PICK sh, k : sh = me.sh /\ k = me.k
  OBVIOUS
<1>1. /\ LocalType(me) /\ Shape(me) /\ me.op = "insert" /\ me.then = "link0" /\ me.lv < sh
      /\ sh \in 0 .. MaxHeight /\ MaxHeight \in Nat /\ sh \in Nat /\ up \in Nat /\ up <= sh
      /\ me.pc \in Busy \ Searching /\ me.op \in SpliceOps /\ sh > 0 /\ me.lv \in Nat
  BY NodeFacts DEF ThreadInv, LocalType, Shape, Busy, Searching, SpliceOps
<1>2. Fresh(me) /\ ~Building(me) /\ Owner(me) /\ me.i = 0 /\ Low(me) = 0
  <2>1. Fresh(me) /\ ~Building(me) /\ Owner(me)
    BY <1>1 DEF Fresh, Building, Owner
  <2> QED
    BY <1>1, <2>1 DEF ThreadInv, NodeInv, Low
<1>3. \A j, l \in 0 .. sh - 1 : j < l => NotAfter(me.prev[l], me.prev[j])
  BY <1>1, <1>2 DEF ThreadInv, NestInv, Searching
<1>4. /\ me.prev[sh] = Head /\ me.nxt[sh] = Tail
      /\ \A l \in 0 .. sh - 1 : Reached(me.prev[l], l)
      /\ \A l \in 0 .. sh : me.nxt[l] \in Some
  BY <1>1 DEF ThreadInv, SpliceInv, LocalType
<1> DEFINE wrong == {i \in up + 1 .. me.sh - 1 : Before(me.nxt[i], me.k)}
           h == IF wrong = {} THEN up ELSE 1 + CHOOSE i \in wrong : \A j \in wrong : j <= i
<1>5. h \in up .. sh /\ \A i \in wrong : i < h
  <2>1. CASE wrong = {}
    BY <1>1, <2>1
  <2>2. CASE wrong # {}
    <3> DEFINE T == {sh - i : i \in wrong}
    <3>0. \A i \in wrong : i \in Int /\ i <= sh - 1 /\ sh - i \in Nat
      BY <1>1
    <3>1. T \in SUBSET Nat /\ T # {}
      BY <2>2, <3>0
    <3>2. PICK x \in T : \A y \in T : x <= y
      BY <3>1, Least
    <3>3. PICK w \in wrong : x = sh - w
      OBVIOUS
    <3>4. \A j \in wrong : j <= w
      <4> SUFFICES ASSUME NEW j \in wrong PROVE j <= w
        OBVIOUS
      <4>1. sh - j \in T /\ sh - w <= sh - j
        BY <3>2, <3>3
      <4>2. j \in Int /\ w \in Int
        BY <1>1
      <4> QED
        BY <1>1, <4>1, <4>2
    <3> PICK c : c = CHOOSE i \in wrong : \A j \in wrong : j <= i
      OBVIOUS
    <3>5. c \in wrong /\ \A j \in wrong : j <= c
      BY <3>4
    <3>6. h = 1 + c
      BY <2>2
    <3>7. c \in up + 1 .. sh - 1 /\ \A i \in wrong : i \in Int
      BY <1>1, <3>5
    <3> QED
      BY <1>1, <3>5, <3>6, <3>7
  <2> QED
    BY <2>1, <2>2
<1>6. Recompute(me, up) = IF h = 0 THEN [me EXCEPT !.pc = "link0", !.then = "none", !.lv = 0]
                          ELSE Search(me, h - 1, 0, me.prev[h], me.nxt[h])
  BY DEF Recompute
<1> PICK g : g = h
  <2> HIDE DEF h
  <2> QED
    OBVIOUS
<1>7. g \in Nat /\ up <= g /\ g <= sh
      /\ \A i \in 0 .. sh - 1 : g <= i => ~Before(me.nxt[i], k)
  <2>1. g \in up .. sh /\ \A i \in wrong : i < g
    BY <1>5
  <2> SUFFICES ASSUME NEW i \in 0 .. sh - 1, g <= i PROVE ~Before(me.nxt[i], k)
    BY <1>1, <2>1
  <2>2. CASE i = up
    BY <1>1, <2>2 DEF Bracket
  <2>3. CASE i # up
    <3>1. i \in up + 1 .. sh - 1 /\ ~(i < g)
      BY <1>1, <2>1, <2>3
    <3> QED
      BY <2>1, <3>1
  <2> QED
    BY <2>2, <2>3
<1> HIDE DEF h
<1>8. \A l \in 0 .. sh - 1 : g <= l => Bracket(me, l)
  <2> SUFFICES ASSUME NEW l \in 0 .. sh - 1, g <= l PROVE Bracket(me, l)
    OBVIOUS
  <2>1. Bracket(me, up) /\ up <= l /\ up \in 0 .. sh - 1
    BY <1>1, <1>7
  <2>2. CASE l = up
    BY <2>1, <2>2
  <2>3. CASE l # up
    <3>1. NotAfter(me.prev[l], me.prev[up])
      BY <1>1, <1>3, <2>1, <2>3
    <3>2. KeyOK(me.prev[up], k)
      BY <2>1 DEF Bracket
    <3>4. KeyOK(me.prev[l], k)
      BY <3>1, <3>2, <1>1, BackOK DEF LocalType
    <3> QED
      BY <1>7, <3>4 DEF Bracket
  <2> QED
    BY <2>2, <2>3
<1>9. CASE g = 0
  <2> DEFINE r == [me EXCEPT !.pc = "link0", !.then = "none", !.lv = 0]
  <2>1. LocalType(r) /\ r.pc = "link0" /\ r.then = "none"
        /\ r.op = me.op /\ r.k = me.k /\ r.n = me.n /\ r.i = me.i /\ r.prev = me.prev /\ r.nxt = me.nxt
        /\ r.sh = me.sh
    BY <1>1 DEF LocalType, Locals, Busy
  <2> HIDE DEF r
  <2>2. Shape(r)
    BY <1>1, <2>1 DEF Shape, Busy, Searching, SpliceOps
  <2>3. Hands(r) /\ SpliceInv(r)
    BY <2>1 DEF ThreadInv, Hands, SpliceInv, Searching
  <2>4. BracketInv(r)
    BY <1>8, <1>9, <2>1 DEF BracketInv, Bracket, Low, Searching
  <2>5. NestInv(r)
    BY <1>1, <2>1 DEF ThreadInv, NestInv, Searching
  <2>6. Goes(me, r)
    BY <1>1, <1>2, <2>1 DEF Goes, Fresh, Building, Owner
  <2>7. NodeInv(r)
    BY <1>1, <1>2, <2>1, <2>6 DEF ThreadInv, NodeInv, Goes, Owner, Busy, Searching
  <2> QED
    BY <1>6, <1>9, <2>1, <2>2, <2>3, <2>4, <2>5, <2>6, <2>7 DEF ThreadInv, r
<1>10. CASE g # 0
  <2> DEFINE r == Search(me, g - 1, 0, me.prev[g], me.nxt[g])
  <2>1. /\ DOMAIN r = Locals /\ r.pc = "read" /\ r.lv = g - 1 /\ r.target = 0 /\ r.x = me.prev[g]
        /\ r.after = me.nxt[g] /\ r.then = me.then /\ r.y = me.y /\ r.z = me.z
        /\ r.op = me.op /\ r.k = me.k /\ r.n = me.n /\ r.i = me.i /\ r.prev = me.prev /\ r.nxt = me.nxt
        /\ r.sh = me.sh /\ r.probe = me.probe /\ r.bad = me.bad /\ r.res = me.res /\ r.mode = me.mode
        /\ r.fix = me.fix /\ r.tight = me.tight
    BY <1>1 DEF Search, LocalType, Locals
  <2> HIDE DEF r
  <2> PICK from, to, p, s : from = g - 1 /\ to = 0 /\ p = me.prev[g] /\ s = me.nxt[g]
    OBVIOUS
  <2>2. from \in Level /\ to \in Level /\ to <= from /\ from < me.sh /\ from \in Nat /\ from <= g /\ from < g
    BY <1>1, <1>7, <1>10 DEF Level
  <2>3. Reached(p, from) /\ KeyOK(p, k) /\ ~Before(s, k) /\ s \in Some /\ p \in Linkable
    <3>1. CASE g = sh
      BY <1>4, <3>1 DEF Reached, KeyOK, Before, Some, Linkable
    <3>2. CASE g < sh
      <4>1. Bracket(me, g) /\ g \in Level /\ g \in 0 .. sh - 1
        BY <1>1, <1>7, <1>8, <3>2 DEF Level
      <4>2. Reached(p, g)
        BY <1>4, <4>1
      <4>3. Reached(p, from) /\ p \in Linkable
        BY <2>2, <4>1, <4>2, ReachFacts
      <4>4. s \in Some
        BY <1>1, <1>4, <1>7
      <4> QED
        BY <4>1, <4>3, <4>4 DEF Bracket
    <3> QED
      BY <1>1, <1>7, <3>1, <3>2
  <2>4. LocalType(r)
    BY <1>1, <2>1, <2>2, <2>3 DEF LocalType, Busy, Searching
  <2>5. me.op = "insert" => \A l \in 0 .. me.sh - 1 : from < l => NotAfter(me.prev[l], p)
    <3> SUFFICES ASSUME NEW l \in 0 .. sh - 1, from < l PROVE NotAfter(me.prev[l], p)
      OBVIOUS
    <3>1. CASE l = g
      <4>1. p = Head \/ (p \in Node /\ Key[p] \in Int)
        BY <2>3, NodeFacts DEF Linkable
      <4> QED
        BY <3>1, <4>1 DEF NotAfter
    <3>2. CASE l # g
      <4>1. g < l /\ g \in 0 .. sh - 1
        BY <1>1, <1>7, <2>2, <3>2
      <4> QED
        BY <1>3, <4>1
    <3> QED
      BY <3>1, <3>2
  <2>6. \A l \in 0 .. me.sh - 1 : (Low(me) <= l /\ (from < l \/ l < to)) => Bracket(me, l)
    <3> SUFFICES ASSUME NEW l \in 0 .. sh - 1, from < l \/ l < to PROVE Bracket(me, l)
      OBVIOUS
    <3>1. g <= l
      BY <1>7, <2>2
    <3> QED
      BY <1>8, <3>1
  <2>7. /\ r.lv = from /\ r.target = to /\ r.x = p /\ r.after = s /\ to = me.i /\ me.pc # "mark"
        /\ me.then = "link0"
    BY <1>1, <1>2, <2>1
  <2>8. ThreadInv(r) /\ Goes(me, r)
    BY <1>1, <2>1, <2>2, <2>3, <2>4, <2>5, <2>6, <2>7, SearchOK
  <2> QED
    BY <1>6, <1>10, <2>8 DEF r
<1> QED
  BY <1>9, <1>10

\* A step of the validation of a splice.
LEMMA ValidateOK ==
  ASSUME Types, Chains, Links, NEW me, ThreadInv(me), me.pc = "valid",
         NEW l, l = me.lv, NEW up,
         \/ up = l + 1
         \/ up = Past(me, me.prev, l) /\ me.prev[l] # Head
         \/ up = Past(me, me.nxt, l) /\ me.nxt[l] # Tail
         \/ up = l /\ Bracket(me, l)
  PROVE  LET r == IF l < up /\ up < me.sh THEN [me EXCEPT !.lv = up] ELSE Recompute(me, up)
         IN  ThreadInv(r) /\ Goes(me, r)
<1> PICK sh : sh = me.sh
  OBVIOUS
<1>1. /\ LocalType(me) /\ Shape(me) /\ me.op = "insert" /\ me.then = "link0" /\ l < sh
      /\ sh \in 0 .. MaxHeight /\ MaxHeight \in Nat /\ sh \in Nat /\ l \in Nat
  BY NodeFacts DEF ThreadInv, LocalType, Shape, Busy, Searching, SpliceOps
<1>2. me.prev[sh] = Head /\ me.nxt[sh] = Tail
  BY <1>1 DEF ThreadInv, SpliceInv
<1>3. up \in l .. sh /\ (up = l => Bracket(me, l))
  <2>0. l \in 0 .. me.sh - 1
    BY <1>1
  <2>1. CASE up = l + 1
    BY <1>1, <2>1
  <2>2. CASE up = Past(me, me.prev, l) /\ me.prev[l] # Head
    <3>1. up \in l + 1 .. me.sh
      BY <1>1, <1>2, <2>0, <2>2, PastIs
    <3> QED
      BY <1>1, <3>1
  <2>3. CASE up = Past(me, me.nxt, l) /\ me.nxt[l] # Tail
    <3>1. up \in l + 1 .. me.sh
      BY <1>1, <1>2, <2>0, <2>3, PastIs
    <3> QED
      BY <1>1, <3>1
  <2>4. CASE up = l /\ Bracket(me, l)
    BY <1>1, <2>4
  <2> QED
    BY <2>1, <2>2, <2>3, <2>4
<1>4. CASE l < up /\ up < sh
  <2> DEFINE r == [me EXCEPT !.lv = up]
  <2>1. LocalType(r) /\ r.pc = "valid" /\ r.lv = up /\ r.then = me.then
        /\ r.op = me.op /\ r.k = me.k /\ r.n = me.n /\ r.i = me.i /\ r.prev = me.prev /\ r.nxt = me.nxt
        /\ r.sh = me.sh
    BY <1>1, <1>3 DEF LocalType, Locals, Busy
  <2> HIDE DEF r
  <2>2. Shape(r)
    BY <1>1, <1>4, <2>1 DEF Shape, Busy, Searching, SpliceOps
  <2>3. Hands(r) /\ SpliceInv(r)
    BY <2>1 DEF ThreadInv, Hands, SpliceInv, Searching
  <2>4. BracketInv(r)
    BY <2>1 DEF BracketInv, Searching
  <2>5. NestInv(r)
    BY <1>1, <2>1 DEF ThreadInv, NestInv, Searching
  <2>6. Goes(me, r)
    BY <1>1, <2>1 DEF Goes, Fresh, Building, Owner
  <2>7. NodeInv(r)
    BY <1>1, <2>1, <2>6 DEF ThreadInv, NodeInv, Goes, Owner, Busy, Searching
  <2> QED
    BY <1>4, <2>1, <2>2, <2>3, <2>4, <2>5, <2>6, <2>7 DEF ThreadInv, r
<1>5. CASE ~(l < up /\ up < sh)
  <2>1. up \in 0 .. me.sh /\ (up < me.sh => Bracket(me, up))
    BY <1>1, <1>3, <1>5
  <2>2. LET r == Recompute(me, up) IN ThreadInv(r) /\ Goes(me, r)
    BY <2>1, RecomputeOK
  <2> QED
    BY <1>5, <2>2
<1> QED
  BY <1>4, <1>5

\* the local variables r of an insert that ends as b with the splice prev, or none
LeftAs(me, r, b, prev) ==
    /\ LocalType(r) /\ r.pc = "done" /\ r.op = me.op /\ r.k = me.k /\ r.n = me.n
    /\ r.i = 0 /\ r.res = b /\ r.then = "none"
    /\ \/ /\ r.sh = 0 /\ r.prev = [l \in 0 .. MaxHeight |-> Head]
          /\ r.nxt = [l \in 0 .. MaxHeight |-> Tail]
       \/ r.sh = me.sh /\ r.prev = prev /\ r.nxt = me.nxt

\* What an insert leaves behind.
LEMMA LeaveIs ==
  ASSUME NEW t, LocalType(th[t]), NEW b \in BOOLEAN, NEW prev \in [0 .. MaxHeight -> Linkable],
         NEW r, r = Leave(t, b, prev)
  PROVE  LeftAs(th[t], r, b, prev)
<1> PICK me : me = th[t]
  OBVIOUS
<1> DEFINE f == Finish(me, b)
<1>1. /\ f.pc = "done" /\ f.op = me.op /\ f.k = me.k /\ f.i = 0 /\ f.sh = 0 /\ f.res = b
      /\ f.then = "none" /\ f.prev = [l \in 0 .. MaxHeight |-> Head]
      /\ f.nxt = [l \in 0 .. MaxHeight |-> Tail] /\ LocalType(f)
  BY NodeFacts DEF LocalType, Finish, Done, IdleThread, Locals, Linkable, Some
<1> HIDE DEF f
<1> DEFINE e == [f EXCEPT !.n = me.n, !.fix = me.fix, !.alone = me.alone]
<1>2. /\ DOMAIN e = Locals /\ e.pc = f.pc /\ e.x = f.x /\ e.lv = f.lv /\ e.y = f.y /\ e.z = f.z
      /\ e.op = f.op /\ e.k = f.k /\ e.n = me.n /\ e.i = f.i /\ e.prev = f.prev /\ e.nxt = f.nxt
      /\ e.sh = f.sh /\ e.then = f.then /\ e.mode = f.mode /\ e.target = f.target
      /\ e.after = f.after /\ e.probe = f.probe /\ e.bad = f.bad /\ e.res = f.res
      /\ e.fix = me.fix /\ e.tight = f.tight
  BY <1>1 DEF LocalType, Locals
<1> HIDE DEF e
<1>3. LocalType(e)
  BY <1>1, <1>2 DEF LocalType
<1> DEFINE q == [e EXCEPT !.prev = prev, !.nxt = me.nxt, !.sh = me.sh]
<1>4. /\ DOMAIN q = Locals /\ q.pc = e.pc /\ q.x = e.x /\ q.lv = e.lv /\ q.y = e.y /\ q.z = e.z
      /\ q.op = e.op /\ q.k = e.k /\ q.n = e.n /\ q.i = e.i /\ q.prev = prev /\ q.nxt = me.nxt
      /\ q.sh = me.sh /\ q.then = e.then /\ q.mode = e.mode /\ q.target = e.target
      /\ q.after = e.after /\ q.probe = e.probe /\ q.bad = e.bad /\ q.res = e.res
      /\ q.fix = e.fix /\ q.tight = e.tight
  BY <1>3 DEF LocalType, Locals
<1>5. r = IF Reuses(t) /\ me.tight THEN q ELSE e
  BY DEF Leave, q, e, f
<1> HIDE DEF q
<1>6. LocalType(q)
  BY <1>3, <1>4 DEF LocalType
<1>7. r = q \/ r = e
  BY <1>5
<1> QED
  BY <1>1, <1>2, <1>3, <1>4, <1>6, <1>7 DEF LeftAs

\* The local variables at the end of an insert.
LEMMA LeftOK ==
  ASSUME NEW me, LocalType(me), me.op = "insert", NEW b \in BOOLEAN,
         NEW prev,
         \A l \in 0 .. me.sh - 1 : Reached(prev[l], l) /\ ReachedOrTail(me.nxt[l], l),
         \A l \in me.sh .. MaxHeight : prev[l] = Head /\ me.nxt[l] = Tail,
         \A j, l \in 0 .. me.sh - 1 : j < l => NotAfter(prev[l], prev[j]),
         ~b => /\ me.n \in Node /\ me.k = Key[me.n] /\ height[me.n] > 0
               /\ refs[me.n] = 1 /\ me.n \notin retired
               /\ \A l \in Level : 0 < l /\ l < height[me.n] => next[me.n][l] = Head,
         NEW r, LeftAs(me, r, b, prev)
  PROVE  ThreadInv(r) /\ ~Building(r) /\ (Fresh(r) <=> ~b)
<1> USE DEF LeftAs
<1>1. Shape(r)
  BY DEF Shape, Busy, Searching, SpliceOps
<1>2. Hands(r)
  BY DEF Hands, Searching
<1>3. SpliceInv(r)
  <2>1. CASE r.sh = me.sh /\ r.prev = prev /\ r.nxt = me.nxt
    BY <2>1 DEF SpliceInv
  <2>2. CASE r.sh = 0 /\ r.prev = [l \in 0 .. MaxHeight |-> Head] /\ r.nxt = [l \in 0 .. MaxHeight |-> Tail]
    BY <2>2, NodeFacts DEF SpliceInv
  <2> QED
    BY <2>1, <2>2
<1>4. BracketInv(r)
  BY DEF BracketInv, Searching
<1>5. NestInv(r)
  <2>1. \A j, l \in 0 .. r.sh - 1 : j < l => NotAfter(r.prev[l], r.prev[j])
    <3>1. CASE r.sh = me.sh /\ r.prev = prev /\ r.nxt = me.nxt
      BY <3>1
    <3>2. CASE r.sh = 0
      BY <3>2
    <3> QED
      BY <3>1, <3>2
  <2> QED
    BY <2>1 DEF NestInv, Searching
<1>6. ~Building(r) /\ (Fresh(r) <=> ~b)
  BY DEF Building, Fresh, Busy, Searching
<1>7. NodeInv(r)
  BY <1>6 DEF NodeInv, Owner, Busy, Searching
<1> QED
  BY <1>1, <1>2, <1>3, <1>4, <1>5, <1>6, <1>7 DEF ThreadInv

\* the local variables r of an insert that goes on to level i, or ends
UpAs(me, r, i) ==
    IF i = height[me.n]
    THEN LeftAs(me, r, TRUE, [l \in 0 .. MaxHeight |-> IF l < i THEN me.n ELSE me.prev[l]])
    ELSE r = [me EXCEPT !.pc = "own", !.i = i]

\* That is what LevelUp does.
LEMMA LevelUpIs ==
  ASSUME NEW t, LocalType(th[t]), th[t].n \in Node, NEW i
  PROVE  UpAs(th[t], LevelUp(t, i), i)
<1> PICK me, n : me = th[t] /\ n = th[t].n
  OBVIOUS
<1>1. CASE i = height[me.n]
  <2> PICK prev : prev = [l \in 0 .. MaxHeight |-> IF l < i THEN me.n ELSE me.prev[l]]
    OBVIOUS
  <2>1. prev \in [0 .. MaxHeight -> Linkable]
    BY DEF LocalType, Linkable
  <2>2. LevelUp(t, i) = Leave(t, TRUE, prev)
    BY <1>1 DEF LevelUp
  <2>3. LeftAs(th[t], Leave(t, TRUE, prev), TRUE, prev)
    BY <2>1, LeaveIs
  <2> QED
    BY <1>1, <2>2, <2>3 DEF UpAs
<1>2. CASE i # height[me.n]
  BY <1>2 DEF UpAs, LevelUp
<1> QED
  BY <1>1, <1>2

\* An insert that has linked its node at level i - 1.
LEMMA LevelUpOK ==
  ASSUME Types, NEW me, LocalType(me), Shape(me), SpliceInv(me), BracketInv(me), NestInv(me),
         me.pc \in {"link0", "link"}, NEW n \in Node, n = me.n, me.k = Key[n], WasLinked(n),
         NEW i, i = me.i + 1, i <= height[n], height[n] <= me.sh,
         \A l \in Level : IF l < i THEN Reached(n, l) ELSE n \notin Chain(l),
         NEW r, UpAs(me, r, i)
  PROVE  /\ ThreadInv(r) /\ ~Fresh(r) /\ r.n = n
         /\ Building(r) <=> i < height[n]
         /\ Building(r) => r.i = i
         /\ r.pc \in {"own", "done"}
<1>1. /\ me.op = "insert" /\ me.then = "none" /\ me.i \in Nat /\ i \in Nat /\ i > 0
      /\ me.sh \in 0 .. MaxHeight /\ MaxHeight \in Nat /\ height[n] \in 0 .. MaxHeight
  BY NodeFacts DEF Shape, LocalType, Busy, Searching, Types
<1>2. /\ \A l \in 0 .. me.sh - 1 : i <= l => Bracket(me, l)
      /\ \A j, l \in 0 .. me.sh - 1 : i <= j /\ j < l => NotAfter(me.prev[l], me.prev[j])
  <2>1. Low(me) = me.i
    BY <1>1 DEF Low
  <2>2. \A l \in Nat : i <= l => me.i <= l
    BY <1>1
  <2>3. \A l \in 0 .. me.sh - 1 : l \in Nat /\ (me.i <= l => Bracket(me, l))
    BY <1>1, <2>1 DEF BracketInv
  <2>4. \A j, l \in 0 .. me.sh - 1 : me.i <= j /\ j < l => NotAfter(me.prev[l], me.prev[j])
    BY <1>1 DEF NestInv, Searching
  <2> QED
    BY <2>2, <2>3, <2>4
<1>3. CASE i = height[n]
  <2> PICK prev : prev = [l \in 0 .. MaxHeight |-> IF l < i THEN n ELSE me.prev[l]]
    OBVIOUS
  <2>1. LeftAs(me, r, TRUE, prev)
    BY <1>3 DEF UpAs
  <2>2. \A l \in 0 .. MaxHeight : prev[l] = IF l < i THEN n ELSE me.prev[l]
    OBVIOUS
  <2>3. \A l \in 0 .. me.sh - 1 : Reached(prev[l], l) /\ ReachedOrTail(me.nxt[l], l)
    <3> SUFFICES ASSUME NEW l \in 0 .. me.sh - 1
                 PROVE  Reached(prev[l], l) /\ ReachedOrTail(me.nxt[l], l)
      OBVIOUS
    <3>1. l \in 0 .. MaxHeight /\ l \in Level
      BY <1>1 DEF Level
    <3>2. Reached(me.prev[l], l) /\ ReachedOrTail(me.nxt[l], l)
      BY DEF SpliceInv
    <3> QED
      BY <2>2, <3>1, <3>2
  <2>4. \A l \in me.sh .. MaxHeight : prev[l] = Head /\ me.nxt[l] = Tail
    <3> SUFFICES ASSUME NEW l \in me.sh .. MaxHeight PROVE prev[l] = Head /\ me.nxt[l] = Tail
      OBVIOUS
    <3>1. l \in 0 .. MaxHeight /\ ~(l < i)
      BY <1>1, <1>3
    <3> QED
      BY <2>2, <3>1 DEF SpliceInv
  <2>5. \A j, l \in 0 .. me.sh - 1 : j < l => NotAfter(prev[l], prev[j])
    <3> SUFFICES ASSUME NEW j \in 0 .. me.sh - 1, NEW l \in 0 .. me.sh - 1, j < l
                 PROVE  NotAfter(prev[l], prev[j])
      OBVIOUS
    <3>1. j \in 0 .. MaxHeight /\ l \in 0 .. MaxHeight /\ j \in Nat /\ l \in Nat
      BY <1>1
    <3>2. CASE i <= j
      <4>1. ~(j < i) /\ ~(l < i)
        BY <1>1, <3>1, <3>2
      <4>2. NotAfter(me.prev[l], me.prev[j])
        BY <1>2, <3>2
      <4> QED
        BY <2>2, <3>1, <4>1, <4>2
    <3>3. CASE j < i /\ i <= l
      <4>1. KeyOK(me.prev[l], me.k)
        BY <1>2, <3>3 DEF Bracket
      <4>2. prev[l] = me.prev[l] /\ prev[j] = n
        BY <1>1, <2>2, <3>1, <3>3
      <4> QED
        BY <4>1, <4>2, NodeFacts DEF KeyOK, NotAfter
    <3>4. CASE l < i
      <4>1. prev[l] = n /\ prev[j] = n
        BY <1>1, <2>2, <3>1, <3>4
      <4> QED
        BY <4>1, NodeFacts DEF NotAfter
    <3> QED
      BY <1>1, <3>1, <3>2, <3>3, <3>4
  <2>6. ThreadInv(r) /\ ~Building(r) /\ ~Fresh(r)
    BY <1>1, <2>1, <2>3, <2>4, <2>5, LeftOK
  <2> QED
    BY <1>1, <1>3, <2>1, <2>6 DEF LeftAs
<1>4. CASE i # height[n]
  <2>1. r = [me EXCEPT !.pc = "own", !.i = i]
    BY <1>4 DEF UpAs
  <2>2. LocalType(r) /\ r.pc = "own" /\ r.i = i
        /\ r.op = me.op /\ r.k = me.k /\ r.n = me.n /\ r.prev = me.prev /\ r.nxt = me.nxt
        /\ r.sh = me.sh /\ r.then = me.then
    BY <1>1, <2>1 DEF LocalType, Locals, Busy
  <2>3. Shape(r)
    BY <1>1, <2>2 DEF Shape, Busy, Searching, SpliceOps
  <2>4. Hands(r) /\ SpliceInv(r)
    BY <2>2 DEF Hands, SpliceInv, Searching
  <2>5. BracketInv(r)
    BY <1>1, <1>2, <2>2 DEF BracketInv, Bracket, Low, Searching
  <2>6. NestInv(r)
    BY <1>1, <1>2, <2>2 DEF NestInv, Searching
  <2>7. Building(r) /\ ~Fresh(r)
    BY <1>1, <2>2 DEF Building, Fresh, Busy
  <2>8. NodeInv(r)
    BY <1>1, <1>4, <2>2, <2>7 DEF NodeInv, Owner
  <2> QED
    BY <1>1, <1>4, <2>2, <2>3, <2>4, <2>5, <2>6, <2>7, <2>8 DEF ThreadInv
<1> QED
  BY <1>3, <1>4

\* A call that only reads begins.
LEMMA StartReadOK ==
  ASSUME NEW me, ThreadInv(me), me.pc = "idle",
         NEW from \in Level, NEW op \in {"find", "seek", "scan", "refresh"}, NEW i,
         op = "refresh" => i \in 1 .. MaxHeight, op = "scan" => from = 0,
         NEW r, LocalType(r), r.pc = "read", r.op = op, r.lv = from, r.x = Head, r.i = i, r.then = "none",
         op = "find" => r.mode = "ge",
         r.prev = me.prev, r.nxt = me.nxt, r.sh = me.sh
  PROVE  ThreadInv(r) /\ ~Fresh(r) /\ ~Building(r)
<1>1. Shape(r)
  BY DEF Shape, Busy, Searching, SpliceOps
<1>2. Hands(r)
  BY DEF Hands, Searching, Reached
<1>3. SpliceInv(r)
  BY DEF ThreadInv, SpliceInv
<1>4. BracketInv(r) /\ NestInv(r)
  BY DEF BracketInv, NestInv, Searching, SpliceOps
<1>5. ~Fresh(r) /\ ~Building(r)
  BY DEF Fresh, Building
<1>6. NodeInv(r)
  BY <1>5 DEF NodeInv, Owner
<1> QED
  BY <1>1, <1>2, <1>3, <1>4, <1>5, <1>6 DEF ThreadInv

\* An erase begins.
LEMMA StartEraseOK ==
  ASSUME NEW h \in 1 .. MaxHeight, NEW r, LocalType(r), r.pc = "read", r.op \in {"erase", "erase_node"},
         r.lv = h - 1, r.target = 0, r.x = Head, r.after = Tail, r.then = "pick", r.sh = h,
         r.prev = [l \in 0 .. MaxHeight |-> Head], r.nxt = [l \in 0 .. MaxHeight |-> Tail],
         r.op = "erase_node" => r.n \in Node /\ r.k = Key[r.n]
  PROVE  ThreadInv(r) /\ ~Fresh(r) /\ ~Building(r)
<1>0. h \in Nat /\ MaxHeight \in Nat /\ h - 1 \in Level /\ h \in 0 .. MaxHeight
  BY NodeFacts DEF Level
<1>1. Shape(r)
  BY <1>0 DEF Shape, Busy, Searching, SpliceOps
<1>2. Hands(r)
  BY DEF Hands, Searching, Reached
<1>3. SpliceInv(r)
  BY <1>0 DEF SpliceInv, Reached, ReachedOrTail
<1>4. BracketInv(r) /\ NestInv(r)
  <2>1. \A l \in 0 .. h - 1 : ~(h - 1 < l) /\ ~(l < 0)
    BY <1>0
  <2> QED
    BY <1>0, <2>1 DEF BracketInv, NestInv, KeyOK, Before, Low, Searching
<1>5. ~Fresh(r) /\ ~Building(r)
  BY DEF Fresh, Building
<1>6. NodeInv(r)
  BY <1>5 DEF NodeInv, Owner, Busy, Searching
<1> QED
  BY <1>1, <1>2, <1>3, <1>4, <1>5, <1>6 DEF ThreadInv

\* An insert begins, with a fresh splice or the one that is left.
LEMMA StartInsertOK ==
  ASSUME Types, NEW me, ThreadInv(me), me.pc = "idle",
         NEW n \in Node, height[n] > 0, refs[n] = 1, n \notin retired,
         \A l \in Level : 0 < l /\ l < height[n] => next[n][l] = Head,
         NEW r, LocalType(r), r.op = "insert", r.k = Key[n], r.n = n, r.i = 0, r.then = "link0",
         \/ /\ r.pc = "read" /\ r.lv = r.sh - 1 /\ r.target = 0 /\ r.x = Head /\ r.after = Tail
            /\ r.sh = now_height
            /\ r.prev = [l \in 0 .. MaxHeight |-> Head] /\ r.nxt = [l \in 0 .. MaxHeight |-> Tail]
         \/ /\ r.pc = "valid" /\ r.lv = 0
            /\ r.sh = me.sh /\ r.sh >= now_height /\ r.prev = me.prev /\ r.nxt = me.nxt
  PROVE  ThreadInv(r) /\ Fresh(r) /\ ~Building(r)
<1>0. /\ now_height \in 1 .. MaxHeight /\ height[n] <= now_height /\ MaxHeight \in Nat
      /\ height[n] \in Nat /\ r.sh \in 0 .. MaxHeight
  BY NodeFacts DEF Types, LocalType
<1>1. Fresh(r) /\ ~Building(r) /\ Owner(r)
  BY DEF Fresh, Building, Owner
<1>2. CASE r.pc = "read"
  <2>0. r.sh = now_height /\ r.lv = r.sh - 1 /\ r.sh - 1 \in Level /\ r.sh \in 0 .. MaxHeight
    BY <1>0, <1>2 DEF Level
  <2>1. Shape(r)
    BY <1>0, <1>2, <2>0 DEF Shape, Busy, Searching, SpliceOps
  <2>2. Hands(r)
    BY <1>2 DEF Hands, Searching, Reached
  <2>3. SpliceInv(r)
    BY <1>0, <1>2, <2>0 DEF SpliceInv, Reached, ReachedOrTail
  <2>4. BracketInv(r) /\ NestInv(r)
    <3>1. \A l \in 0 .. r.sh - 1 : ~(r.sh - 1 < l) /\ ~(l < 0)
      BY <1>0
    <3>2. \A l \in 0 .. r.sh - 1 : ~(r.lv < l) /\ ~(l < r.target)
      BY <1>2, <2>0, <3>1
    <3> QED
      BY <1>2, <3>2 DEF BracketInv, NestInv, KeyOK, Before, Low, Searching
  <2>5. NodeInv(r)
    BY <1>0, <1>1, <1>2, <2>0 DEF NodeInv, Busy, Searching
  <2> QED
    BY <1>1, <2>1, <2>2, <2>3, <2>4, <2>5 DEF ThreadInv
<1>3. CASE r.pc = "valid"
  <2>1. Shape(r)
    BY <1>0, <1>3 DEF Shape, Busy, Searching, SpliceOps
  <2>2. Hands(r)
    BY <1>3 DEF Hands, Searching
  <2>3. SpliceInv(r)
    BY <1>3 DEF ThreadInv, SpliceInv
  <2>4. BracketInv(r)
    BY <1>3 DEF BracketInv, Searching
  <2>5. NestInv(r)
    <3>1. me.op = "none" /\ me.i = 0 /\ me.pc \notin Searching
      BY DEF ThreadInv, Shape, Searching
    <3> QED
      BY <1>3, <3>1 DEF ThreadInv, NestInv, Searching
  <2>6. NodeInv(r)
    BY <1>0, <1>1, <1>3 DEF NodeInv, Busy, Searching
  <2> QED
    BY <1>1, <1>3, <2>1, <2>2, <2>3, <2>4, <2>5, <2>6 DEF ThreadInv
<1> QED
  BY <1>2, <1>3

\* A thread between two calls, with the splice that is left.
LEMMA ReturnOK ==
  ASSUME NEW me, ThreadInv(me), me.pc = "done"
  PROVE  LET r == [IdleThread EXCEPT !.prev = me.prev, !.nxt = me.nxt, !.sh = me.sh]
         IN  ThreadInv(r) /\ ~Fresh(r) /\ ~Building(r) /\ r.pc = "idle"
<1> DEFINE r == [IdleThread EXCEPT !.prev = me.prev, !.nxt = me.nxt, !.sh = me.sh]
<1>0. /\ LocalType(me) /\ Shape(me) /\ me.i = 0 /\ me.pc \notin Searching /\ me.op # "none"
      /\ me.op # "insert" => me.sh = 0
  BY DEF ThreadInv, Shape, Searching, LocalType
<1>1. /\ LocalType(r) /\ r.pc = "idle" /\ r.op = "none" /\ r.i = 0 /\ r.then = "none" /\ r.lv = 0
      /\ r.prev = me.prev /\ r.nxt = me.nxt /\ r.sh = me.sh
  BY <1>0 DEF IdleThread, LocalType, Locals, Linkable, Some
<1> HIDE DEF r
<1>2. Shape(r)
  BY <1>1 DEF Shape, Busy, Searching, SpliceOps
<1>3. Hands(r) /\ SpliceInv(r)
  BY <1>1 DEF ThreadInv, Hands, SpliceInv, Searching
<1>4. BracketInv(r)
  BY <1>1 DEF BracketInv, Searching
<1>5. NestInv(r)
  BY <1>0, <1>1 DEF ThreadInv, NestInv, Searching
<1>6. ~Fresh(r) /\ ~Building(r)
  BY <1>1 DEF Fresh, Building
<1>7. NodeInv(r)
  BY <1>1, <1>6 DEF NodeInv, Owner, Busy, Searching
<1> QED
  BY <1>1, <1>2, <1>3, <1>4, <1>5, <1>6, <1>7 DEF ThreadInv, r

-------------------------------------------------------------------------------
\* a step that keeps what has been linked and what has been marked
Keeps ==
    /\ \A n \in Node : WasLinked(n) => WasLinked(n)' /\ height'[n] = height[n]
    /\ \A n \in Node, l \in Level : deleting[n][l] => deleting'[n][l] /\ next'[n][l] = next[n][l]
    /\ \A l \in Level : \A n : Reached(n, l) => Reached(n, l)'

\* a step that leaves alone what is not linked, the node own excepted
LeavesAlone(own) ==
    /\ \A n \in Node : n # own /\ ~WasLinked(n) =>
          height'[n] = height[n] /\ refs'[n] = refs[n] /\ (n \in retired' => n \in retired)
    /\ \A n \in Node, l \in Level : n # own /\ n \notin Chain(l) =>
          n \notin Chain(l)' /\ next'[n][l] = next[n][l]

\* Nodes leave a chain only when they are marked.
LEMMA KeepsReach ==
  ASSUME \A n \in Node : WasLinked(n) => WasLinked(n)' /\ height'[n] = height[n],
         \A n \in Node, l \in Level : deleting[n][l] => deleting'[n][l] /\ next'[n][l] = next[n][l],
         \A n \in Node, l \in Level : n \in Chain(l) => n \in Chain(l)' \/ deleting[n][l],
         \A n \in Node, l \in Level : WasLinked(n) /\ next[n][l] # Head => next'[n][l] # Head
  PROVE  Keeps
<1> SUFFICES ASSUME NEW l \in Level, NEW n, Reached(n, l) PROVE Reached(n, l)'
  BY DEF Keeps
<1>1. CASE n = Head
  BY <1>1 DEF Reached
<1>2. CASE n # Head
  <2>1. /\ n \in Node /\ WasLinked(n) /\ l < height[n] /\ next[n][l] # Head
        /\ n \in Chain(l) \/ deleting[n][l]
    BY <1>2 DEF Reached
  <2>2. WasLinked(n)' /\ l < height'[n] /\ next'[n][l] # Head /\ (n \in Chain(l)' \/ deleting'[n][l])
    BY <2>1
  <2> QED
    BY <2>1, <2>2 DEF Reached
<1> QED
  BY <1>1, <1>2

\* A splice is still one after such a step.
LEMMA SpliceKept ==
  ASSUME Keeps, NEW me, LocalType(me), SpliceInv(me)
  PROVE  SpliceInv(me)'
<1>1. \A l \in Level : \A n : ReachedOrTail(n, l) => ReachedOrTail(n, l)'
  BY DEF Keeps, ReachedOrTail
<1>2. \A l \in 0 .. me.sh - 1 : l \in Level
  BY NodeFacts DEF LocalType, Level
<1> QED
  BY <1>1, <1>2 DEF SpliceInv, Keeps

\* A thread keeps what it knows over the steps that do not touch its node, or
\* only a link of it that it is about to look after.
LEMMA ThreadKept ==
  ASSUME Types, Links, Keeps, NEW own, LeavesAlone(own), NEW me, ThreadInv(me),
         Fresh(me) => ~WasLinked(me.n),
         \/ Owner(me) => me.n # own
         \/ /\ me.pc = "own" /\ ~Fresh(me)
            /\ \A l \in Level : me.n \notin Chain(l) => me.n \notin Chain(l)'
  PROVE  ThreadInv(me)'
<1>1. LocalType(me) /\ Shape(me) /\ BracketInv(me) /\ NestInv(me)
  BY DEF ThreadInv
<1>2. LocalType(me)' /\ Shape(me)' /\ BracketInv(me)' /\ NestInv(me)'
  BY <1>1
<1>3. \A l \in Level : \A n : ReachedOrTail(n, l) => ReachedOrTail(n, l)'
  BY DEF Keeps, ReachedOrTail
<1>4. Hands(me)'
  <2>1. me.pc \in Searching => me.lv \in Level
    BY <1>1 DEF Shape
  <2>2. me.pc \in Searching => Reached(me.x, me.lv)'
    BY <2>1 DEF ThreadInv, Hands, Keeps
  <2>3. me.pc \in Searching \ {"read"} =>
           me.y \in Node /\ Reached(me.y, me.lv)' /\ Follows(me.x, me.y)
    BY <2>1 DEF ThreadInv, Hands, Keeps
  <2>4. me.pc \in {"unlink", "unref"} => ReachedOrTail(me.z, me.lv)' /\ Follows(me.x, me.z)
    BY <1>3, <2>1 DEF ThreadInv, Hands, Searching
  <2>5. me.pc = "unlink" => deleting'[me.y][me.lv] /\ next'[me.y][me.lv] = me.z
    BY <2>1 DEF ThreadInv, Hands, Keeps, Searching
  <2> QED
    BY <2>2, <2>3, <2>4, <2>5 DEF Hands
<1>5. SpliceInv(me)'
  BY <1>1, SpliceKept DEF ThreadInv
<1>6. NodeInv(me)'
  <2>1. /\ Owner(me) => me.n \in Node
        /\ Fresh(me) => me.n # own
        /\ Building(me) => me.n # own \/ (me.pc = "own" /\ \A l \in Level : me.n \notin Chain(l) => me.n \notin Chain(l)')
        /\ (Fresh(me) => Owner(me)) /\ (Building(me) => Owner(me))
    BY DEF ThreadInv, NodeInv, Owner
  <2>2. Fresh(me) =>
          /\ height'[me.n] > 0 /\ me.i = 0 /\ height'[me.n] = height[me.n]
          /\ refs'[me.n] = 1 /\ me.n \notin retired'
          /\ \A l \in Level : 0 < l /\ l < height'[me.n] => next'[me.n][l] = Head
    <3> SUFFICES ASSUME Fresh(me)
                 PROVE  /\ height'[me.n] > 0 /\ me.i = 0 /\ height'[me.n] = height[me.n]
                        /\ refs'[me.n] = 1 /\ me.n \notin retired'
                        /\ \A l \in Level : 0 < l /\ l < height'[me.n] => next'[me.n][l] = Head
      OBVIOUS
    <3>1. ~WasLinked(me.n)
      OBVIOUS
    <3>2. \A l \in Level : me.n \notin Chain(l)
      BY <2>1, <3>1, NodeFacts DEF Links, Reached
    <3> QED
      BY <2>1, <3>1, <3>2 DEF LeavesAlone, ThreadInv, NodeInv
  <2>3. Building(me) =>
          /\ WasLinked(me.n)' /\ height'[me.n] = height[me.n]
          /\ 0 < me.i /\ me.i < height'[me.n]
          /\ \A l \in Level : IF l < me.i THEN Reached(me.n, l)' ELSE me.n \notin Chain(l)'
          /\ me.pc \in {"ref", "link"} => next'[me.n][me.i] = me.nxt[me.i]
    <3> SUFFICES ASSUME Building(me)
                 PROVE  /\ WasLinked(me.n)' /\ height'[me.n] = height[me.n]
                        /\ 0 < me.i /\ me.i < height'[me.n]
                        /\ \A l \in Level : IF l < me.i THEN Reached(me.n, l)' ELSE me.n \notin Chain(l)'
                        /\ me.pc \in {"ref", "link"} => next'[me.n][me.i] = me.nxt[me.i]
      OBVIOUS
    <3>1. /\ WasLinked(me.n) /\ 0 < me.i /\ me.i < height[me.n]
          /\ \A l \in Level : IF l < me.i THEN Reached(me.n, l) ELSE me.n \notin Chain(l)
          /\ me.pc \in {"ref", "link"} => next[me.n][me.i] = me.nxt[me.i]
      BY DEF ThreadInv, NodeInv
    <3>2. WasLinked(me.n)' /\ height'[me.n] = height[me.n]
      BY <2>1, <3>1 DEF Keeps
    <3>3. me.i \in Level /\ ~(me.i < me.i)
      BY <1>1, <2>1, <3>1, NodeFacts DEF LocalType, Types, Level
    <3>4. \A l \in Level : IF l < me.i THEN Reached(me.n, l)' ELSE me.n \notin Chain(l)'
      BY <2>1, <3>1 DEF Keeps, LeavesAlone
    <3>5. me.pc \in {"ref", "link"} => next'[me.n][me.i] = me.nxt[me.i]
      BY <2>1, <3>1, <3>3 DEF LeavesAlone
    <3> QED
      BY <3>1, <3>2, <3>4, <3>5
  <2>4. me.pc = "mark" =>
          /\ me.n \in Node /\ me.k = Key[me.n] /\ Reached(me.n, 0)'
          /\ me.i \in Level /\ \A j \in Level : me.i < j => deleting'[me.n][j]
    BY NodeFacts DEF ThreadInv, NodeInv, Keeps
  <2>5. me.pc \in {"cut", "cutref"} \/ me.then = "cut" =>
          /\ me.n \in Node /\ me.k = Key[me.n] /\ WasLinked(me.n)'
          /\ deleting'[me.n][0]
          /\ me.i < height'[me.n] /\ height'[me.n] <= me.sh
    BY NodeFacts DEF ThreadInv, NodeInv, Keeps
  <2>6. Owner(me) => me.n \in Node /\ me.k = Key[me.n] /\ (me.pc # "done" => height'[me.n] <= me.sh)
    BY <2>2, <2>3 DEF ThreadInv, NodeInv, Owner
  <2>7. me.op = "erase_node" /\ me.pc \in Busy => me.n \in Node /\ me.k = Key[me.n]
    BY DEF ThreadInv, NodeInv
  <2> QED
    BY <2>2, <2>3, <2>4, <2>5, <2>6, <2>7 DEF NodeInv
<1> QED
  BY <1>2, <1>4, <1>5, <1>6 DEF ThreadInv

\* the step in which thread t goes on with the local variables r
Moves(t, r) == DOMAIN th' = Thread /\ th'[t] = r /\ \A u \in Thread \ {t} : th'[u] = th[u]

\* What Put does.
LEMMA PutMoves ==
  ASSUME DOMAIN th = Thread, NEW t \in Thread, NEW r, Put(t, r)
  PROVE  Moves(t, r)
BY DEF Put, Moves

\* What has been linked after a step.
LEMMA WasLinkedPrime ==
  \A n \in Node : WasLinked(n)' <=> height'[n] > 0 /\ \A t \in Thread : th'[t].n = n => ~Fresh(th'[t])
<1>1. (\A n \in Node : WasLinked(n) <=> height[n] > 0 /\ \A t \in Thread : th[t].n = n => ~Fresh(th[t]))'
  BY WasLinkedIs, PTL
<1> QED
  BY <1>1

\* A step that makes no node fresh, or stop being so, keeps what was linked.
LEMMA SameLinked ==
  ASSUME NEW t \in Thread, NEW r, Moves(t, r),
         Fresh(r) <=> Fresh(th[t]), Fresh(r) => r.n = th[t].n,
         \A n \in Node : height'[n] = height[n]
  PROVE  \A n \in Node : WasLinked(n)' <=> WasLinked(n)
<1> SUFFICES ASSUME NEW n \in Node PROVE WasLinked(n)' <=> WasLinked(n)
  OBVIOUS
<1>1. WasLinked(n) <=> height[n] > 0 /\ \A u \in Thread : th[u].n = n => ~Fresh(th[u])
  BY WasLinkedIs
<1>2. WasLinked(n)' <=> height'[n] > 0 /\ \A u \in Thread : th'[u].n = n => ~Fresh(th'[u])
  BY WasLinkedPrime
<1>3. \A u \in Thread : (th'[u].n = n => ~Fresh(th'[u])) <=> (th[u].n = n => ~Fresh(th[u]))
  <2> SUFFICES ASSUME NEW u \in Thread
               PROVE  (th'[u].n = n => ~Fresh(th'[u])) <=> (th[u].n = n => ~Fresh(th[u]))
    OBVIOUS
  <2>1. CASE u = t
    <3>1. th'[u] = r
      BY <2>1 DEF Moves
    <3> QED
      BY <2>1, <3>1
  <2>2. CASE u # t
    <3>1. th'[u] = th[u]
      BY <2>2 DEF Moves
    <3> QED
      BY <3>1
  <2> QED
    BY <2>1, <2>2
<1> QED
  BY <1>1, <1>2, <1>3

\* A step that changes no link of a node that is linked keeps the chains.
LEMMA ChainsSame ==
  ASSUME Chains, \A l \in Level : \A x \in Chain(l) \cup {Head} : next'[x][l] = next[x][l]
  PROVE  Chains' /\ \A l \in Level : Chain(l)' = Chain(l)
<1>2. ASSUME NEW l \in Level, NEW C, C = Chain(l) PROVE IsChain(l, C)' /\ Chain(l)' = C
  <2>1. IsChain(l, C)
    BY <1>2 DEF Chains
  <2>2. \A x \in C \cup {Head} : next'[x][l] = next[x][l]
    BY <1>2
  <2> QED
    BY <2>1, <2>2, ChainSame
<1>3. ASSUME NEW l \in Level PROVE IsChain(l, Chain(l))' /\ Chain(l)' = Chain(l)
  <2> PICK C : C = Chain(l)
    OBVIOUS
  <2>1. IsChain(l, C)' /\ Chain(l)' = C
    BY <1>2
  <2> QED
    BY <2>1
<1> QED
  BY <1>3 DEF Chains, Level

\* the link of node p at level l now leads to node n
Relinks(p, l, n) == next' = [next EXCEPT ![p][l] = n]

\* A successful compare-exchange that takes node y out of level l.
LEMMA ChainsCut ==
  ASSUME Types, Chains, NEW l \in Level, NEW p, Reached(p, l), NEW y \in Node, CanCas(p, l, y),
         Relinks(p, l, next[y][l])
  PROVE  /\ Chains' /\ y \in Chain(l) /\ Chain(l)' = Chain(l) \ {y} /\ p \in Chain(l) \cup {Head}
         /\ \A j \in Level : j # l => Chain(j)' = Chain(j)
<1>1. p \in Linkable /\ p \in Chain(l) \cup {Head} /\ next[p][l] = y
  BY DEF CanCas, Reached, Linkable
<1>2. /\ next'[p][l] = next[y][l]
      /\ \A v \in Linkable, j \in Level : v # p \/ j # l => next'[v][j] = next[v][j]
  BY <1>1 DEF Types, Relinks
<1>3. \A j \in Level : Chain(j) \cup {Head} \subseteq Linkable
  BY DEF Chains, IsChain, Linkable
<1>4. ASSUME NEW C, C = Chain(l) PROVE IsChain(l, C \ {y})' /\ Chain(l)' = C \ {y} /\ y \in C
  <2>1. IsChain(l, C) /\ p \in C \cup {Head}
    BY <1>1, <1>4 DEF Chains
  <2>2. y \in C
    BY <1>1, <2>1, NodeFacts DEF IsChain
  <2>3. \A v \in C \cup {Head} : v # p => next'[v][l] = next[v][l]
    BY <1>2, <1>3, <1>4
  <2>4. next[p][l] = y /\ next'[p][l] = next[y][l]
    BY <1>1, <1>2
  <2>5. IsChain(l, C \ {y})' /\ Chain(l)' = C \ {y}
    BY <2>1, <2>2, <2>3, <2>4, ChainRemove
  <2> QED
    BY <2>2, <2>5
<1>5. ASSUME NEW j \in Level, j # l, NEW C, C = Chain(j) PROVE IsChain(j, C)' /\ Chain(j)' = C
  <2>1. IsChain(j, C)
    BY <1>5 DEF Chains
  <2>2. \A v \in C \cup {Head} : next'[v][j] = next[v][j]
    BY <1>2, <1>3, <1>5
  <2> QED
    BY <2>1, <2>2, ChainSame
<1> PICK C : C = Chain(l)
  OBVIOUS
<1>6. IsChain(l, C \ {y})' /\ Chain(l)' = C \ {y} /\ y \in C
  BY <1>4
<1>7. \A j \in Level : j # l => IsChain(j, Chain(j))' /\ Chain(j)' = Chain(j)
  <2> SUFFICES ASSUME NEW j \in Level, j # l PROVE IsChain(j, Chain(j))' /\ Chain(j)' = Chain(j)
    OBVIOUS
  <2> PICK D : D = Chain(j)
    OBVIOUS
  <2>1. IsChain(j, D)' /\ Chain(j)' = D
    BY <1>5
  <2> QED
    BY <2>1
<1>8. IsChain(l, Chain(l))'
  BY <1>6
<1> QED
  BY <1>1, <1>6, <1>7, <1>8 DEF Chains, Level

\* the links after node n has been put between p and s at level l
LinkedAt(l, p, n, s) ==
    /\ next'[n][l] = s /\ next'[p][l] = n
    /\ \A j \in Level : \A v \in Chain(j) \cup {Head} : v # p \/ j # l => next'[v][j] = next[v][j]

\* One that links node n at level l.
LEMMA ChainsLink ==
  ASSUME Types, Chains, NEW l \in Level, NEW p, Reached(p, l), NEW n \in Node, NEW s,
         CanCas(p, l, s), n \notin Chain(l), LinkedAt(l, p, n, s),
         p = Head \/ Key[p] < Key[n], s = Tail \/ Key[n] < Key[s]
  PROVE  /\ Chains' /\ Chain(l)' = Chain(l) \cup {n} /\ p \in Chain(l) \cup {Head}
         /\ \A j \in Level : j # l => Chain(j)' = Chain(j)
<1> USE DEF LinkedAt
<1>1. p \in Chain(l) \cup {Head} /\ next[p][l] = s
  BY DEF CanCas, Reached
<1>4. ASSUME NEW C, C = Chain(l) PROVE IsChain(l, C \cup {n})' /\ Chain(l)' = C \cup {n}
  <2>1. IsChain(l, C) /\ p \in C \cup {Head} /\ n \notin C
    BY <1>1, <1>4 DEF Chains
  <2>2. \A v \in C \cup {Head} : v # p => next'[v][l] = next[v][l]
    BY <1>4
  <2>3. next[p][l] = s /\ next'[p][l] = n /\ next'[n][l] = s
        /\ (p = Head \/ Key[p] < Key[n]) /\ (s = Tail \/ Key[n] < Key[s])
    BY <1>1
  <2> QED
    BY <2>1, <2>2, <2>3, ChainInsert, SMTT(60)
<1>5. ASSUME NEW j \in Level, j # l, NEW C, C = Chain(j) PROVE IsChain(j, C)' /\ Chain(j)' = C
  <2>1. IsChain(j, C)
    BY <1>5 DEF Chains
  <2>2. \A v \in C \cup {Head} : next'[v][j] = next[v][j]
    BY <1>5
  <2> QED
    BY <2>1, <2>2, ChainSame
<1> PICK C : C = Chain(l)
  OBVIOUS
<1>6. IsChain(l, C \cup {n})' /\ Chain(l)' = C \cup {n}
  BY <1>4
<1>7. \A j \in Level : j # l => IsChain(j, Chain(j))' /\ Chain(j)' = Chain(j)
  <2> SUFFICES ASSUME NEW j \in Level, j # l PROVE IsChain(j, Chain(j))' /\ Chain(j)' = Chain(j)
    OBVIOUS
  <2> PICK D : D = Chain(j)
    OBVIOUS
  <2>1. IsChain(j, D)' /\ Chain(j)' = D
    BY <1>5
  <2> QED
    BY <2>1
<1>8. IsChain(l, Chain(l))'
  BY <1>6
<1> QED
  BY <1>1, <1>6, <1>7, <1>8 DEF Chains, Level

\* The links lead to nodes that have been linked.
LEMMA LinksStep ==
  ASSUME Types, Types', Chains', Links, Keeps,
         \A n \in Node : WasLinked(n)' /\ ~WasLinked(n) =>
            Reached(n, 0)' /\ \A l \in Level : 0 < l /\ l < height'[n] => next'[n][l] = Head,
         \A n \in Linkable, l \in Level : next'[n][l] # next[n][l] /\ next'[n][l] \in Node =>
            Reached(next[n][l], l)' /\ Follows(n, next'[n][l]),
         \A l \in Level : \A n \in Chain(l)' : n \in Chain(l) \/ Reached(n, l)',
         \A n \in Node, l, j \in Level : WasLinked(n) /\ next'[n][l] # Head /\ next[n][l] = Head /\ j < l =>
            Reached(n, j)
  PROVE  Links'
<1>1. \A n \in Linkable, l \in Level :
        next'[n][l] \in Node => Reached(next[n][l], l)' /\ Follows(n, next'[n][l])
  <2> SUFFICES ASSUME NEW n \in Linkable, NEW l \in Level, next'[n][l] \in Node
               PROVE  Reached(next[n][l], l)' /\ Follows(n, next'[n][l])
    OBVIOUS
  <2> PICK y : y = next'[n][l]
    OBVIOUS
  <2>1. CASE next[n][l] = y
    <3>1. Reached(y, l) /\ Follows(n, y)
      BY <2>1 DEF Links
    <3>2. Reached(y, l)'
      BY <3>1 DEF Keeps
    <3> QED
      BY <3>1, <3>2
  <2>2. CASE next[n][l] # y
    BY <2>2
  <2> QED
    BY <2>1, <2>2
<1>2. \A l \in Level : \A n \in Chain(l)' : Reached(n, l)'
  BY DEF Links, Keeps
<1>3. \A n \in Node : WasLinked(n)' => Reached(n, 0)'
  BY NodeFacts DEF Links, Keeps
<1>4. \A n \in Node, l, j \in Level :
        WasLinked(n)' /\ l < height'[n] /\ next'[n][l] # Head /\ j < l => Reached(n, j)'
  <2> SUFFICES ASSUME NEW n \in Node, NEW l \in Level, NEW j \in Level,
                      WasLinked(n)', l < height'[n], next'[n][l] # Head, j < l
               PROVE  Reached(n, j)'
    OBVIOUS
  <2>1. 0 < l
    BY NodeFacts DEF Level
  <2>2. WasLinked(n) /\ height'[n] = height[n]
    BY <2>1 DEF Keeps
  <2>3. Reached(n, j)
    BY <2>2 DEF Links
  <2> QED
    BY <2>3 DEF Keeps
<1>5. (\A n \in Linkable, l \in Level :
        next[n][l] \in Node => Reached(next[n][l], l) /\ Follows(n, next[n][l]))'
  BY <1>1 DEF Follows, Linkable, Level
<1> QED
  BY <1>2, <1>3, <1>4, <1>5 DEF Links, Level

\* The part each thread has in the nodes.
LEMMA RolesStep ==
  ASSUME Marks, Marking, Whole, Owners, NEW t \in Thread, NEW me, me = th[t], NEW r, Moves(t, r),
         deleting' = deleting, me.pc # "mark",
         \A n \in Node : WasLinked(n) => WasLinked(n)',
         \A n \in Node, l \in Level : WasLinked(n)' /\ l < height'[n] =>
            \/ n \in Chain(l)'
            \/ deleting[n][l]
            \/ Building(r) /\ r.n = n /\ r.i <= l
            \/ WasLinked(n) /\ height'[n] = height[n] /\ n \notin Chain(l)
               /\ ~(Building(me) /\ me.n = n /\ me.i <= l),
         Owner(r) => (Owner(me) /\ r.n = me.n) \/ \A u \in Thread : Owner(th[u]) => th[u].n # r.n
  PROVE  Marks' /\ Marking' /\ Whole' /\ Owners'
<1>0. \A u \in Thread \ {t} : th'[u] = th[u]
  BY DEF Moves
<1>00. th'[t] = r
  BY DEF Moves
<1>1. Marks'
  BY DEF Marks
<1>2. Marking'
  <2> SUFFICES ASSUME NEW n \in Node, deleting[n][MaxHeight - 1], ~deleting[n][0]
               PROVE  \E u \in Thread : th'[u].pc = "mark" /\ th'[u].n = n
    BY DEF Marking
  <2>1. PICK u \in Thread : th[u].pc = "mark" /\ th[u].n = n
    BY DEF Marking
  <2>2. th'[u] = th[u]
    BY <1>0, <2>1
  <2> QED
    BY <2>1, <2>2
<1>3. Whole'
  <2> SUFFICES ASSUME NEW n \in Node, NEW l \in Level, WasLinked(n)', l < height'[n],
                      n \notin Chain(l)', ~deleting[n][MaxHeight - 1]
               PROVE  \E u \in Thread : Building(th'[u]) /\ th'[u].n = n /\ th'[u].i <= l
    BY DEF Whole
  <2>1. ~deleting[n][l]
    <3>1. l = MaxHeight - 1 \/ l < MaxHeight - 1
      BY NodeFacts DEF Level
    <3> QED
      BY <3>1, NodeFacts DEF Marks
  <2>2. CASE Building(r) /\ r.n = n /\ r.i <= l
    BY <1>00, <2>2
  <2>3. CASE WasLinked(n) /\ height'[n] = height[n] /\ n \notin Chain(l)
             /\ ~(Building(me) /\ me.n = n /\ me.i <= l)
    <3>1. PICK u \in Thread : Building(th[u]) /\ th[u].n = n /\ th[u].i <= l
      BY <2>3 DEF Whole
    <3>2. th'[u] = th[u]
      BY <1>0, <2>3, <3>1
    <3> QED
      BY <3>1, <3>2
  <2> QED
    BY <2>1, <2>2, <2>3
<1>4. Owners'
  <2> SUFFICES ASSUME NEW v \in Thread, NEW u \in Thread, Owner(th'[v]), Owner(th'[u]), th'[v].n = th'[u].n
               PROVE  v = u
    BY DEF Owners
  <2>1. CASE v # t /\ u # t
    <3>1. th'[v] = th[v] /\ th'[u] = th[u]
      BY <1>0, <2>1
    <3> QED
      BY <3>1 DEF Owners
  <2>2. CASE v = t /\ u # t
    <3>1. th'[v] = r /\ th'[u] = th[u]
      BY <1>0, <1>00, <2>2
    <3> QED
      BY <2>2, <3>1 DEF Owners
  <2>3. CASE v # t /\ u = t
    <3>1. th'[v] = th[v] /\ th'[u] = r
      BY <1>0, <1>00, <2>3
    <3> QED
      BY <2>3, <3>1 DEF Owners
  <2> QED
    BY <2>1, <2>2, <2>3
<1> QED
  BY <1>1, <1>2, <1>3, <1>4

\* a step of a thread from me to r is about node m and level j: all others stay
\* linked, and in the hands of the thread, as they are
About(m, j, me, r) ==
    \A n \in Node, l \in Level : ~(n = m /\ l = j) =>
        (n \in Chain(l)' <=> n \in Chain(l)) /\ (Handed(r, n, l) <=> Handed(me, n, l))

\* The references that threads have in their hands, over a step that is about
\* node m and level j.
LEMMA HandsStep ==
  ASSUME Threads, HandsApart, NEW t \in Thread, NEW me, me = th[t], NEW r, Moves(t, r),
         NEW m, NEW j, About(m, j, me, r),
         \A n \in Node : WasLinked(n) => WasLinked(n)',
         m \in Node /\ j \in Level =>
            /\ Handed(r, m, j) => m \notin Chain(j)'
            /\ Handed(r, m, j) /\ ~Handed(me, m, j) =>
                  /\ WasLinked(m)
                  /\ \A u \in Thread \ {t} : ~Handed(th[u], m, j)
                                             /\ ~(Building(th[u]) /\ th[u].n = m /\ th[u].i <= j)
            /\ m \in Chain(j)' => m \in Chain(j) \/ \A u \in Thread \ {t} : ~Handed(th[u], m, j),
         Building(r) => r.n \in Node /\ ((Building(me) /\ r.n = me.n /\ me.i <= r.i) \/ ~WasLinked(r.n)),
         Building(r) => r.i \in Nat, Building(me) => me.i \in Nat
  PROVE  HandsApart'
<1> USE DEF About
<1>0. th'[t] = r /\ \A u \in Thread \ {t} : th'[u] = th[u]
  BY DEF Moves
<1>1. ASSUME NEW u \in Thread, NEW n \in Node, NEW l \in Level, Handed(th'[u], n, l)
      PROVE  WasLinked(n)' /\ n \notin Chain(l)'
  <2>1. CASE u = t
    BY <1>0, <1>1, <2>1 DEF HandsApart
  <2>2. CASE u # t
    <3>1. Handed(th[u], n, l)
      BY <1>0, <1>1, <2>2
    <3>2. WasLinked(n) /\ n \notin Chain(l)
      BY <3>1 DEF HandsApart
    <3> QED
      BY <2>2, <3>1, <3>2
  <2> QED
    BY <2>1, <2>2
<1>2. ASSUME NEW v \in Thread, NEW u \in Thread, NEW n \in Node, NEW l \in Level,
             Handed(th'[v], n, l), Handed(th'[u], n, l)
      PROVE  v = u
  <2>1. CASE v # t /\ u # t
    BY <1>0, <1>2, <2>1 DEF HandsApart
  <2>2. ASSUME NEW w \in Thread, w # t, Handed(r, n, l), Handed(th[w], n, l) PROVE FALSE
    <3>1. CASE Handed(me, n, l)
      BY <2>2, <3>1 DEF HandsApart
    <3>2. CASE ~Handed(me, n, l)
      BY <2>2, <3>2
    <3> QED
      BY <3>1, <3>2
  <2>3. CASE v = t /\ u # t
    BY <1>0, <1>2, <2>2, <2>3
  <2>4. CASE v # t /\ u = t
    BY <1>0, <1>2, <2>2, <2>4
  <2> QED
    BY <2>1, <2>3, <2>4
<1>3. ASSUME NEW v \in Thread, NEW u \in Thread, NEW l \in Level,
             Building(th'[v]), th'[v].i <= l, Handed(th'[u], th'[v].n, l)
      PROVE  v = u
  <2>1. CASE v # t /\ u # t
    <3>1. th'[v] = th[v] /\ th'[u] = th[u]
      BY <1>0, <2>1
    <3> QED
      BY <1>3, <3>1 DEF HandsApart
  <2>2. CASE v = t /\ u # t
    <3>1. Building(r) /\ r.i <= l /\ Handed(th[u], r.n, l)
      BY <1>0, <1>3, <2>2
    <3>2. WasLinked(r.n)
      BY <3>1 DEF HandsApart
    <3>3. Building(me) /\ r.n = me.n /\ me.i <= l
      BY <3>1, <3>2 DEF Level
    <3> QED
      BY <2>2, <3>1, <3>3 DEF HandsApart
  <2>3. CASE v # t /\ u = t
    <3>1. Building(th[v]) /\ th[v].i <= l /\ Handed(r, th[v].n, l)
      BY <1>0, <1>3, <2>3
    <3> PICK n : n = th[v].n
      OBVIOUS
    <3>2. CASE Handed(me, n, l)
      BY <2>3, <3>1, <3>2 DEF HandsApart
    <3>3. CASE ~Handed(me, n, l)
      <4>0. n \in Node
        BY <3>1 DEF Threads, ThreadInv, NodeInv, Owner
      <4>1. n = m /\ l = j /\ m \in Node /\ j \in Level
        BY <3>1, <3>3, <4>0
      <4> QED
        BY <2>3, <3>1, <3>3, <4>1
    <3> QED
      BY <3>2, <3>3
  <2> QED
    BY <2>1, <2>2, <2>3
<1> QED
  BY <1>1, <1>2, <1>3 DEF HandsApart, Level

\* The levels at which a node is counted, over a step about node m and level j.
LEMMA CountedStep ==
  ASSUME NEW t \in Thread, NEW r, Moves(t, r), NEW m, NEW j, About(m, j, th[t], r)
  PROVE  /\ \A n \in Node : n # m => Counted(n)' = Counted(n)
         /\ m \in Node /\ j \in Level =>
               Counted(m)' = IF \/ m \in Chain(j)' \/ Handed(r, m, j)
                                \/ \E u \in Thread \ {t} : Handed(th[u], m, j)
                             THEN Counted(m) \cup {j} ELSE Counted(m) \ {j}
<1> USE DEF About
<1> PICK me : me = th[t]
  OBVIOUS
<1>0. th'[t] = r /\ \A u \in Thread \ {t} : th'[u] = th[u]
  BY DEF Moves
<1>1. ASSUME NEW n \in Node, NEW l \in Level
      PROVE  /\ (\E u \in Thread : Handed(th[u], n, l)) <=>
                   (Handed(me, n, l) \/ \E u \in Thread \ {t} : Handed(th[u], n, l))
             /\ (\E u \in Thread : Handed(th'[u], n, l)) <=>
                   (Handed(r, n, l) \/ \E u \in Thread \ {t} : Handed(th[u], n, l))
  BY <1>0
<1>2. ASSUME NEW n \in Node, NEW l \in Level
      PROVE  /\ l \in Counted(n)' <=>
                   n \in Chain(l)' \/ Handed(r, n, l) \/ \E u \in Thread \ {t} : Handed(th[u], n, l)
             /\ l \in Counted(n) <=>
                   n \in Chain(l) \/ Handed(me, n, l) \/ \E u \in Thread \ {t} : Handed(th[u], n, l)
  <2>1. l \in Counted(n) <=> n \in Chain(l) \/ \E u \in Thread : Handed(th[u], n, l)
    BY DEF Counted
  <2>2. l \in Counted(n)' <=> n \in Chain(l)' \/ \E u \in Thread : Handed(th'[u], n, l)
    BY DEF Counted, Level
  <2> QED
    BY <1>1, <2>1, <2>2
<1>3. \A n \in Node : Counted(n) \subseteq Level /\ Counted(n)' \subseteq Level
  BY DEF Counted, Level
<1>4. ASSUME NEW n \in Node, n # m PROVE Counted(n)' = Counted(n)
  BY <1>2, <1>3, <1>4
<1>5. ASSUME m \in Node, j \in Level
      PROVE  Counted(m)' = IF \/ m \in Chain(j)' \/ Handed(r, m, j)
                              \/ \E u \in Thread \ {t} : Handed(th[u], m, j)
                           THEN Counted(m) \cup {j} ELSE Counted(m) \ {j}
  <2>1. \A l \in Level : l # j => (l \in Counted(m)' <=> l \in Counted(m))
    BY <1>2, <1>5
  <2>2. j \in Counted(m)' <=> m \in Chain(j)' \/ Handed(r, m, j)
                              \/ \E u \in Thread \ {t} : Handed(th[u], m, j)
    BY <1>2, <1>5
  <2> QED
    BY <1>3, <1>5, <2>1, <2>2
<1> QED
  BY <1>4, <1>5

\* At no level, over a step that is about no node.
LEMMA CountedKept ==
  ASSUME NEW t \in Thread, NEW r, Moves(t, r), About(Tail, 0, th[t], r)
  PROVE  \A n \in Node : Counted(n)' = Counted(n)
<1>1. \A n \in Node : n # Tail => Counted(n)' = Counted(n)
  BY CountedStep
<1> QED
  BY <1>1, NodeFacts

\* The counts are right after a step that changes none.
LEMMA CountsSame ==
  ASSUME Counts, refs' = refs, retired' = retired, height' = height,
         \A n \in Node : WasLinked(n)' <=> WasLinked(n),
         \A n \in Node : WasLinked(n) => Counted(n)' = Counted(n)
  PROVE  Counts'
BY DEF Counts

\* The levels of a node counted are finite in number.
LEMMA CountedFinite ==
  /\ IsFiniteSet(Level) /\ Cardinality(Level) = MaxHeight
  /\ \A n : IsFiniteSet(Counted(n)) /\ Cardinality(Counted(n)) \in 0 .. MaxHeight
<1>1. IsFiniteSet(Level) /\ Cardinality(Level) = MaxHeight
  <2>1. 0 \in Int /\ MaxHeight - 1 \in Int /\ MaxHeight \in Nat /\ MaxHeight >= 1
    BY NodeFacts
  <2>2. IsFiniteSet(0 .. MaxHeight - 1)
        /\ Cardinality(0 .. MaxHeight - 1) = IF 0 > MaxHeight - 1 THEN 0 ELSE MaxHeight - 1 - 0 + 1
    BY <2>1, FS_Interval
  <2> QED
    BY <2>1, <2>2 DEF Level
<1>2. ASSUME NEW n PROVE IsFiniteSet(Counted(n)) /\ Cardinality(Counted(n)) \in 0 .. MaxHeight
  <2>1. Counted(n) \subseteq Level
    BY DEF Counted
  <2>2. IsFiniteSet(Counted(n)) /\ Cardinality(Counted(n)) <= MaxHeight
    BY <1>1, <2>1, FS_Subset
  <2>3. Cardinality(Counted(n)) \in Nat
    BY <2>2, FS_CardinalityType
  <2> QED
    BY <2>2, <2>3, NodeFacts
<1> QED
  BY <1>1, <1>2

\* They are right after a reference for one level has been given back.
LEMMA CountsDrop ==
  ASSUME Types, Counts, NEW m \in Node, WasLinked(m), DecreaseReference(m),
         NEW j \in Level, j \in Counted(m), Counted(m)' = Counted(m) \ {j},
         height' = height, \A n \in Node : WasLinked(n)' <=> WasLinked(n),
         \A n \in Node : n # m => Counted(n)' = Counted(n)
  PROVE  Counts' /\ refs' \in [Node -> Nat]
<1>1. IsFiniteSet(Counted(m)) /\ refs[m] = Cardinality(Counted(m)) /\ refs[m] \in Nat
  BY CountedFinite DEF Counts, Types
<1>2. Cardinality(Counted(m)') = refs[m] - 1
  BY <1>1, FS_RemoveElement
<1>3. refs[m] - 1 \in Nat
  <2>1. IsFiniteSet(Counted(m) \ {j})
    BY <1>1, FS_RemoveElement
  <2> QED
    BY <1>2, <2>1, FS_CardinalityType
<1>4. refs'[m] = refs[m] - 1 /\ \A n \in Node : n # m => refs'[n] = refs[n]
  BY DEF DecreaseReference, Types
<1>5. refs' \in [Node -> Nat]
  BY <1>3 DEF DecreaseReference, Types
<1>6. retired' = IF refs[m] = 1 THEN retired \cup {m} ELSE retired
  BY DEF DecreaseReference
<1>7. ASSUME NEW n \in Node, WasLinked(n)'
      PROVE  refs'[n] = Cardinality(Counted(n)') /\ (n \in retired' <=> refs'[n] = 0)
  <2>1. CASE n = m
    BY <1>1, <1>2, <1>3, <1>4, <1>6, <2>1 DEF Counts
  <2>2. CASE n # m
    <3>1. refs'[n] = refs[n] /\ Counted(n)' = Counted(n) /\ (n \in retired' <=> n \in retired) /\ WasLinked(n)
      BY <1>4, <1>6, <1>7, <2>2
    <3> QED
      BY <3>1 DEF Counts
  <2> QED
    BY <2>1, <2>2
<1>8. \A n \in retired' : n \in Node /\ WasLinked(n)'
  BY <1>6 DEF Counts
<1>9. \A n \in Node : height'[n] = 0 => refs'[n] = 0
  <2>1. height[m] # 0
    BY NodeFacts DEF WasLinked, Types
  <2> QED
    BY <1>4, <2>1 DEF Counts
<1> QED
  BY <1>5, <1>7, <1>8, <1>9 DEF Counts

\* The set is that of the unmarked nodes of level 0.
LEMMA SetStep ==
  ASSUME SetIsLevel0, present' = present, deleting' = deleting,
         Chain(0)' \subseteq Chain(0), \A n \in Chain(0) : n \in Chain(0)' \/ deleting[n][0]
  PROVE  SetIsLevel0'
BY DEF SetIsLevel0

\* A fresh node was not linked, an owned one is a node.
LEMMA OwnerFacts ==
  ASSUME Threads, NEW u \in Thread
  PROVE  /\ ThreadInv(th[u])
         /\ Owner(th[u]) => th[u].n \in Node
         /\ Fresh(th[u]) => ~WasLinked(th[u].n) /\ th[u].n \in Node
         /\ Building(th[u]) => WasLinked(th[u].n) /\ th[u].n \in Node
<1>1. ThreadInv(th[u])
  BY DEF Threads
<1>2. Owner(th[u]) => th[u].n \in Node
  BY <1>1 DEF ThreadInv, NodeInv
<1> QED
  BY <1>1, <1>2, WasLinkedIs DEF Owner, ThreadInv, NodeInv

\* What the invariant says of the threads, after a step of t.
LEMMA ThreadsStep ==
  ASSUME Types, Links, Threads, Keeps, NEW own, LeavesAlone(own),
         NEW t \in Thread, NEW r, Moves(t, r), ThreadInv(r)',
         \A u \in Thread \ {t} : Owner(th[u]) => th[u].n # own
  PROVE  Threads'
<1>1. DOMAIN th' = Thread /\ th'[t] = r /\ \A u \in Thread \ {t} : th'[u] = th[u]
  BY DEF Moves
<1>2. ASSUME NEW u \in Thread PROVE ThreadInv(th[u])'
  <2>1. CASE u = t
    BY <1>1, <2>1
  <2>2. CASE u # t
    <3> PICK me : me = th[u]
      OBVIOUS
    <3>1. ThreadInv(me) /\ (Fresh(me) => ~WasLinked(me.n)) /\ (Owner(me) => me.n # own)
      BY <2>2, OwnerFacts
    <3>2. ThreadInv(me)'
      BY <3>1, ThreadKept
    <3> QED
      BY <1>1, <2>2, <3>2
  <2> QED
    BY <2>1, <2>2
<1> QED
  BY <1>1, <1>2 DEF Threads

\* the steps that hold references, and a step that takes none and gives none back
Holding == {"unref", "cutref", "link", "undo"}
SameHands(me, r) == \A n \in Node, l \in Level : Handed(r, n, l) <=> Handed(me, n, l)

\* No references are held but in these steps.
LEMMA NoHands ==
  ASSUME NEW me, me.pc \notin Holding, NEW r, r.pc \notin Holding
  PROVE  SameHands(me, r)
BY DEF SameHands, Handed, Holding

\* A step of a thread that only reads, or gives up its node.
LEMMA QuietStep ==
  ASSUME ListIInv, NEW t \in Thread, NEW me, me = th[t], NEW r, Moves(t, r), ThreadInv(r),
         Fresh(r) <=> Fresh(me), Fresh(r) => r.n = me.n,
         Building(r) => Building(me) /\ r.n = me.n /\ r.i = me.i,
         Building(me) /\ ~Building(r) => \A l \in Level : me.i <= l => deleting[me.n][l],
         SameHands(me, r), me.pc # "mark",
         UNCHANGED <<links, counts, height, now_height, present>>,
         plan' \in [Thread -> [left : Nat, ops : SUBSET STRING, nodes : SUBSET Node]]
  PROVE  ListIInv'
<1> USE DEF ListIInv, links, counts
<1>1. \A n \in Node : WasLinked(n)' <=> WasLinked(n)
  BY SameLinked
<1>2. Chains' /\ \A l \in Level : Chain(l)' = Chain(l)
  BY ChainsSame
<1>3. Types'
  BY DEF Types
<1>4. Keeps
  BY <1>1, <1>2, KeepsReach
<1>5. LeavesAlone(Tail)
  BY <1>2 DEF LeavesAlone
<1>6. ThreadInv(me) /\ (Owner(me) => me.n \in Node) /\ (Fresh(me) => ~WasLinked(me.n))
  BY OwnerFacts
<1>7. Threads'
  <2>1. Owner(r) => r.n # Tail
    BY <1>6, NodeFacts DEF Owner
  <2>2. ThreadInv(r)'
    BY <1>4, <1>5, <1>6, <2>1, ThreadKept
  <2>3. \A u \in Thread \ {t} : Owner(th[u]) => th[u].n # Tail
    BY OwnerFacts, NodeFacts
  <2> QED
    BY <1>4, <1>5, <2>2, <2>3, ThreadsStep
<1>8. Links'
  BY <1>1, <1>2, <1>3, <1>4, LinksStep
<1>9. \A n \in Node, l \in Level : Handed(r, n, l) <=> Handed(me, n, l)
  BY DEF SameHands
<1>10. Marks' /\ Marking' /\ Whole' /\ Owners'
  <2>1. \A n \in Node, l \in Level : WasLinked(n)' /\ l < height'[n] =>
            \/ n \in Chain(l)'
            \/ deleting[n][l]
            \/ Building(r) /\ r.n = n /\ r.i <= l
            \/ WasLinked(n) /\ height'[n] = height[n] /\ n \notin Chain(l)
               /\ ~(Building(me) /\ me.n = n /\ me.i <= l)
    BY <1>1, <1>2
  <2>2. Owner(r) => Owner(me) /\ r.n = me.n
    BY DEF Owner
  <2> QED
    BY <1>1, <2>1, <2>2, RolesStep
<1>11. About(Tail, 0, me, r) /\ Tail \notin Node
  BY <1>2, <1>9, NodeFacts DEF About
<1>12. HandsApart'
  <2>1. Building(r) => r.n \in Node /\ Building(me) /\ r.n = me.n /\ me.i <= r.i /\ r.i \in Nat
    BY <1>6 DEF Owner, ThreadInv, LocalType
  <2>2. Building(me) => me.i \in Nat
    BY <1>6 DEF ThreadInv, LocalType
  <2> QED
    BY <1>1, <1>11, <2>1, <2>2, HandsStep
<1>13. Counts'
  <2>1. \A n \in Node : Counted(n)' = Counted(n)
    BY <1>11, CountedKept
  <2> QED
    BY <1>1, <2>1, CountsSame
<1>14. SetIsLevel0'
  BY <1>2, NodeFacts, SetStep
<1> QED
  BY <1>2, <1>3, <1>7, <1>8, <1>10, <1>12, <1>13, <1>14

\* r has a reference of node y, for level l, and me has none
Takes(me, r, y, l) ==
    \A n \in Node, j \in Level : ~Handed(me, n, j) /\ (Handed(r, n, j) <=> n = y /\ j = l)

\* A marked node y is taken out of level l, and the thread has the reference.
LEMMA TakeOutStep ==
  ASSUME ListIInv, NEW t \in Thread, NEW me, me = th[t], NEW r, Moves(t, r), ThreadInv(r),
         Fresh(r) <=> Fresh(me), Building(r) <=> Building(me), r.n = me.n, r.i = me.i,
         NEW l \in Level, NEW p, Reached(p, l), NEW y \in Node, CanCas(p, l, y), deleting[y][l],
         Relinks(p, l, next[y][l]), Takes(me, r, y, l),
         me.pc # "mark", UNCHANGED <<deleting, counts, height, now_height, plan, present>>
  PROVE  ListIInv'
<1> USE DEF ListIInv, counts, Takes
<1>1. \A n \in Node : WasLinked(n)' <=> WasLinked(n)
  BY SameLinked
<1>2. /\ Chains' /\ y \in Chain(l) /\ Chain(l)' = Chain(l) \ {y} /\ p \in Chain(l) \cup {Head}
      /\ \A j \in Level : j # l => Chain(j)' = Chain(j)
  BY ChainsCut
<1>3. /\ Reached(y, l) /\ next[y][l] \in Some /\ next[y][l] # Head
      /\ Follows(y, next[y][l]) /\ ReachedOrTail(next[y][l], l) /\ Follows(p, y)
  <2>1. Reached(y, l)
    BY <1>2 DEF Links
  <2>2. next[p][l] = y /\ p \in Linkable
    BY <1>2, ReachFacts DEF CanCas
  <2>3. next[y][l] \in Some
    BY <2>1, ReachFacts
  <2> QED
    BY <2>1, <2>2, <2>3, ReachFacts, NodeFacts DEF Some
<1>4. \A n \in Linkable, j \in Level :
         next'[n][j] = IF n = p /\ j = l THEN next[y][l] ELSE next[n][j]
  <2>1. next \in [Linkable -> [Level -> Linkable \cup {Tail}]] /\ p \in Linkable
    BY <1>2 DEF Types, Chains, IsChain, Linkable
  <2> QED
    BY <2>1 DEF Relinks
<1>5. ~deleting[p][l] /\ next[p][l] = y
  BY DEF CanCas
<1>6. Types'
  <2>1. next' \in [Linkable -> [Level -> Linkable \cup {Tail}]]
    <3>1. next \in [Linkable -> [Level -> Linkable \cup {Tail}]] /\ next[y][l] \in Linkable \cup {Tail}
      BY <1>3 DEF Types, Some, Linkable
    <3> QED
      BY <3>1 DEF Relinks
  <2> QED
    BY <2>1 DEF Types
<1>7. Keeps
  <2>1. \A n \in Node, j \in Level : deleting[n][j] => deleting'[n][j] /\ next'[n][j] = next[n][j]
    BY <1>4, <1>5 DEF Linkable
  <2>2. \A n \in Node, j \in Level : n \in Chain(j) => n \in Chain(j)' \/ deleting[n][j]
    BY <1>2
  <2>3. \A n \in Node, j \in Level : WasLinked(n) /\ next[n][j] # Head => next'[n][j] # Head
    BY <1>3, <1>4 DEF Linkable
  <2> QED
    BY <1>1, <2>1, <2>2, <2>3, KeepsReach
<1>8. LeavesAlone(Tail)
  <2>1. \A n \in Node, j \in Level : n \notin Chain(j) => n \notin Chain(j)' /\ next'[n][j] = next[n][j]
    BY <1>2, <1>4, NodeFacts DEF Linkable
  <2> QED
    BY <2>1 DEF LeavesAlone
<1>9. ThreadInv(me) /\ (Owner(me) => me.n \in Node) /\ (Fresh(me) => ~WasLinked(me.n))
  BY OwnerFacts
<1>10. Threads'
  <2>1. (Owner(r) => r.n # Tail) /\ (Fresh(r) => ~WasLinked(r.n))
    BY <1>9, NodeFacts DEF Owner
  <2>2. ThreadInv(r)'
    BY <1>7, <1>8, <2>1, ThreadKept
  <2>3. \A u \in Thread \ {t} : Owner(th[u]) => th[u].n # Tail
    BY OwnerFacts, NodeFacts
  <2> QED
    BY <1>7, <1>8, <2>2, <2>3, ThreadsStep
<1>11. Links'
  <2>1. ASSUME NEW n \in Linkable, NEW j \in Level, next'[n][j] # next[n][j], next'[n][j] \in Node
        PROVE  Reached(next[n][j], j)' /\ Follows(n, next'[n][j])
    <3> PICK z : z = next[y][l]
      OBVIOUS
    <3>1. n = p /\ j = l /\ next'[n][j] = z
      BY <1>4, <2>1
    <3>2. Reached(z, l)
      BY <1>3, <2>1, <3>1, NodeFacts DEF ReachedOrTail
    <3>3. Reached(z, l)'
      BY <1>7, <3>2 DEF Keeps
    <3>4. Follows(p, z)
      <4>1. z \in Node /\ Key[y] < Key[z] /\ (p = Head \/ (p \in Node /\ Key[p] < Key[y]))
        BY <1>3, <2>1, <3>1, NodeFacts DEF Follows, Linkable
      <4> QED
        BY <4>1, NodeFacts DEF Follows
    <3> QED
      BY <3>1, <3>3, <3>4
  <2>2. \A j \in Level : \A n \in Chain(j)' : n \in Chain(j)
    BY <1>2
  <2>3. \A n \in Node, j \in Level : next[n][j] = Head => next'[n][j] = Head
    BY <1>4, <1>5, NodeFacts DEF Linkable
  <2> QED
    BY <1>1, <1>2, <1>6, <1>7, <2>1, <2>2, <2>3, LinksStep
<1>12. Marks' /\ Marking' /\ Whole' /\ Owners'
  <2>1. \A n \in Node, j \in Level : WasLinked(n)' /\ j < height'[n] =>
            \/ n \in Chain(j)'
            \/ deleting[n][j]
            \/ Building(r) /\ r.n = n /\ r.i <= j
            \/ WasLinked(n) /\ height'[n] = height[n] /\ n \notin Chain(j)
               /\ ~(Building(me) /\ me.n = n /\ me.i <= j)
    BY <1>1, <1>2
  <2>2. Owner(r) => Owner(me) /\ r.n = me.n
    BY DEF Owner
  <2> QED
    BY <1>1, <2>1, <2>2, RolesStep
<1>13. About(y, l, me, r)
  BY <1>2 DEF About
<1>14. HandsApart'
  <2>1. Building(r) => r.n \in Node /\ Building(me) /\ r.n = me.n /\ me.i <= r.i /\ r.i \in Nat
    BY <1>9 DEF Owner, ThreadInv, LocalType
  <2>2. Building(me) => me.i \in Nat
    BY <1>9 DEF ThreadInv, LocalType
  <2>3. WasLinked(y) /\ y \notin Chain(l)'
    BY <1>2, <1>3, NodeFacts DEF Reached
  <2>4. \A u \in Thread \ {t} : ~Handed(th[u], y, l)
    BY <1>2 DEF HandsApart
  <2>5. ASSUME NEW u \in Thread \ {t}, Building(th[u]), th[u].n = y, th[u].i <= l PROVE FALSE
    <3>0. ThreadInv(th[u])
      BY OwnerFacts
    <3>1. ~(l < th[u].i)
      <4>1. th[u].i \in Nat /\ l \in Nat
        BY <3>0 DEF ThreadInv, LocalType, Level
      <4> QED
        BY <2>5, <4>1
    <3> QED
      BY <1>2, <2>5, <3>0, <3>1 DEF ThreadInv, NodeInv
  <2> QED
    BY <1>1, <1>13, <2>1, <2>2, <2>3, <2>4, <2>5, HandsStep
<1>15. Counts'
  <2>1. \A n \in Node : n # y => Counted(n)' = Counted(n)
    BY <1>13, CountedStep
  <2>2. Counted(y)' = IF \/ y \in Chain(l)' \/ Handed(r, y, l)
                         \/ \E u \in Thread \ {t} : Handed(th[u], y, l)
                      THEN Counted(y) \cup {l} ELSE Counted(y) \ {l}
    BY <1>13, CountedStep
  <2>3. l \in Counted(y)
    BY <1>2 DEF Counted
  <2>4. \A n \in Node : Counted(n)' = Counted(n)
    BY <2>1, <2>2, <2>3
  <2> QED
    BY <1>1, <2>4, CountsSame
<1>16. SetIsLevel0'
  BY <1>2, NodeFacts, SetStep
<1> QED
  BY <1>2, <1>6, <1>10, <1>11, <1>12, <1>14, <1>15, <1>16

\* A reference that a thread has in its hands is given back.
LEMMA DropStep ==
  ASSUME ListIInv, NEW t \in Thread, NEW me, me = th[t], NEW r, Moves(t, r), ThreadInv(r),
         Fresh(r) <=> Fresh(me), Building(r) <=> Building(me), Owner(me) => r.n = me.n /\ r.i = me.i,
         NEW m \in Node, NEW l \in Level, DecreaseReference(m),
         \A n \in Node, j \in Level : ~Handed(r, n, j) /\ (Handed(me, n, j) <=> n = m /\ j = l),
         me.pc # "mark", UNCHANGED <<links, height, now_height, plan, present>>
  PROVE  ListIInv'
<1> USE DEF ListIInv, links
<1>0. Owner(r) => Owner(me) /\ r.n = me.n /\ r.i = me.i
  BY DEF Owner
<1>1. \A n \in Node : WasLinked(n)' <=> WasLinked(n)
  <2>1. Fresh(r) => r.n = th[t].n
    BY <1>0 DEF Owner
  <2> QED
    BY <2>1, SameLinked
<1>2. Chains' /\ \A j \in Level : Chain(j)' = Chain(j)
  BY ChainsSame
<1>3. Handed(th[t], m, l)
  OBVIOUS
<1>4. WasLinked(m) /\ m \notin Chain(l) /\ \A u \in Thread \ {t} : ~Handed(th[u], m, l)
  BY <1>3 DEF HandsApart
<1>5. About(m, l, me, r)
  BY <1>2 DEF About
<1>6. Counts' /\ refs' \in [Node -> Nat]
  <2>1. \A n \in Node : n # m => Counted(n)' = Counted(n)
    BY <1>5, CountedStep
  <2>2. Counted(m)' = IF \/ m \in Chain(l)' \/ Handed(r, m, l)
                         \/ \E u \in Thread \ {t} : Handed(th[u], m, l)
                      THEN Counted(m) \cup {l} ELSE Counted(m) \ {l}
    BY <1>5, CountedStep
  <2>3. Counted(m)' = Counted(m) \ {l}
    BY <1>2, <1>4, <2>2
  <2>4. l \in Counted(m)
    BY <1>3 DEF Counted
  <2> QED
    BY <1>1, <1>4, <2>1, <2>3, <2>4, CountsDrop
<1>7. Types'
  BY <1>6 DEF Types
<1>8. Keeps
  BY <1>1, <1>2, KeepsReach
<1>9. LeavesAlone(Tail)
  <2>1. \A n \in Node : n # m => refs'[n] = refs[n] /\ (n \in retired' => n \in retired)
    BY DEF DecreaseReference, Types
  <2> QED
    BY <1>2, <1>4, <2>1 DEF LeavesAlone
<1>10. ThreadInv(me) /\ (Owner(me) => me.n \in Node) /\ (Fresh(me) => ~WasLinked(me.n))
  BY OwnerFacts
<1>11. Threads'
  <2>1. (Owner(r) => r.n # Tail) /\ (Fresh(r) => ~WasLinked(r.n))
    BY <1>0, <1>10, NodeFacts DEF Owner
  <2>2. ThreadInv(r)'
    BY <1>8, <1>9, <2>1, ThreadKept
  <2>3. \A u \in Thread \ {t} : Owner(th[u]) => th[u].n # Tail
    BY OwnerFacts, NodeFacts
  <2> QED
    BY <1>8, <1>9, <2>2, <2>3, ThreadsStep
<1>12. Links'
  BY <1>1, <1>2, <1>7, <1>8, LinksStep
<1>13. Marks' /\ Marking' /\ Whole' /\ Owners'
  <2>1. \A n \in Node, j \in Level : WasLinked(n)' /\ j < height'[n] =>
            \/ n \in Chain(j)'
            \/ deleting[n][j]
            \/ Building(r) /\ r.n = n /\ r.i <= j
            \/ WasLinked(n) /\ height'[n] = height[n] /\ n \notin Chain(j)
               /\ ~(Building(me) /\ me.n = n /\ me.i <= j)
    BY <1>0, <1>1, <1>2 DEF Owner
  <2> QED
    BY <1>0, <1>1, <2>1, RolesStep
<1>14. HandsApart'
  <2>1. Building(r) => r.n \in Node /\ Building(me) /\ r.n = me.n /\ me.i <= r.i /\ r.i \in Nat
    BY <1>0, <1>10 DEF Owner, ThreadInv, LocalType
  <2>2. Building(me) => me.i \in Nat
    BY <1>10 DEF ThreadInv, LocalType
  <2> QED
    BY <1>1, <1>2, <1>4, <1>5, <2>1, <2>2, HandsStep
<1>15. SetIsLevel0'
  BY <1>2, NodeFacts, SetStep
<1> QED
  BY <1>2, <1>6, <1>7, <1>11, <1>12, <1>13, <1>14, <1>15

\* r is me, but for the program counter, and bad.
OnlyPc(me, r, pc) ==
    /\ LocalType(r) /\ r.pc = pc
    /\ \A f \in Locals \ {"pc", "bad"} : r[f] = me[f]

\* That is what an update of the program counter does.
LEMMA OnlyPcIs ==
  ASSUME NEW me, LocalType(me), NEW pc \in Busy
  PROVE  OnlyPc(me, [me EXCEPT !.pc = pc], pc)
<1> PICK r : r = [me EXCEPT !.pc = pc]
  OBVIOUS
<1>1. DOMAIN me = Locals /\ DOMAIN r = Locals /\ r.pc = pc /\ \A f \in Locals \ {"pc"} : r[f] = me[f]
  BY DEF LocalType, Locals
<1>2. LocalType(r)
  BY <1>1 DEF LocalType, Locals
<1> QED
  BY <1>1, <1>2 DEF OnlyPc

\* and what that means
LEMMA OnlyPcFields ==
  ASSUME NEW me, NEW pc, NEW r, OnlyPc(me, r, pc)
  PROVE  /\ LocalType(r) /\ r.pc = pc /\ r.op = me.op /\ r.k = me.k /\ r.n = me.n /\ r.i = me.i
         /\ r.prev = me.prev /\ r.nxt = me.nxt /\ r.sh = me.sh /\ r.lv = me.lv /\ r.target = me.target
         /\ r.x = me.x /\ r.y = me.y /\ r.z = me.z /\ r.after = me.after /\ r.then = me.then
         /\ r.res = me.res /\ r.mode = me.mode
BY DEF OnlyPc, Locals

\* The steps in which only the program counter changes: to unlink and take a
\* reference, to link the node and to fail at it.
LEMMA PcOK ==
  ASSUME NEW me, ThreadInv(me), NEW pc, NEW r, OnlyPc(me, r, pc),
         \/ me.pc = "unlink" /\ pc = "unref"
         \/ me.pc = "cut" /\ pc = "cutref"
         \/ me.pc = "ref" /\ pc = "link"
         \/ me.pc = "link" /\ pc = "undo"
         \/ me.pc = "own" /\ pc = "ref" /\ ~Is(me.nxt[me.i], me.k) /\ next[me.n][me.i] = me.nxt[me.i]
  PROVE  ThreadInv(r) /\ (Fresh(r) <=> Fresh(me)) /\ (Building(r) <=> Building(me))
<1>1. /\ LocalType(r) /\ r.pc = pc /\ r.op = me.op /\ r.k = me.k /\ r.n = me.n /\ r.i = me.i
      /\ r.prev = me.prev /\ r.nxt = me.nxt /\ r.sh = me.sh /\ r.lv = me.lv /\ r.target = me.target
      /\ r.x = me.x /\ r.y = me.y /\ r.z = me.z /\ r.after = me.after /\ r.then = me.then
      /\ r.res = me.res /\ r.mode = me.mode
  BY OnlyPcFields
<1>2. Shape(r)
  BY <1>1 DEF ThreadInv, Shape, Busy, Searching, SpliceOps
<1>3. Hands(r)
  BY <1>1 DEF ThreadInv, Hands, Searching
<1>4. SpliceInv(r)
  BY <1>1 DEF ThreadInv, SpliceInv
<1>5. BracketInv(r)
  BY <1>1 DEF ThreadInv, BracketInv, Searching, Bracket, Low
<1>6. NestInv(r)
  <2>1. r.pc \in Searching <=> me.pc \in Searching
    BY <1>1 DEF Searching
  <2> QED
    BY <1>1, <2>1 DEF ThreadInv, NestInv
<1>7. (Fresh(r) <=> Fresh(me)) /\ (Building(r) <=> Building(me))
  BY <1>1 DEF Fresh, Building, Busy, Searching
<1>8. NodeInv(r)
  BY <1>1, <1>7 DEF ThreadInv, NodeInv, Owner, Busy, Searching
<1> QED
  BY <1>1, <1>2, <1>3, <1>4, <1>5, <1>6, <1>7, <1>8 DEF ThreadInv

\* What an insert knows that goes on with a node.
LEMMA BuildingFacts ==
  ASSUME Types, NEW me, ThreadInv(me), me.pc \in {"own", "ref", "link", "undo"}
  PROVE  /\ Building(me) /\ ~Fresh(me) /\ me.op = "insert" /\ me.then = "none"
         /\ me.n \in Node /\ me.k = Key[me.n] /\ WasLinked(me.n)
         /\ me.i \in Level /\ 0 < me.i /\ me.i < height[me.n] /\ me.i < me.sh /\ height[me.n] <= me.sh
         /\ me.n \notin Chain(me.i) /\ \A l \in Level : l < me.i => Reached(me.n, l)
         /\ \A l \in Level : me.i <= l => me.n \notin Chain(l)
         /\ Reached(me.prev[me.i], me.i) /\ ReachedOrTail(me.nxt[me.i], me.i) /\ Bracket(me, me.i)
         /\ me.pc \in {"ref", "link"} => next[me.n][me.i] = me.nxt[me.i] /\ ~Is(me.nxt[me.i], me.k)
<1>1. me.op = "insert" /\ me.then = "none"
  BY DEF ThreadInv, Shape, Busy, Searching
<1>2. Building(me) /\ ~Fresh(me)
  BY <1>1 DEF Building, Fresh, Busy
<1>3. /\ me.n \in Node /\ me.k = Key[me.n] /\ WasLinked(me.n)
      /\ 0 < me.i /\ me.i < height[me.n] /\ height[me.n] <= me.sh
      /\ \A l \in Level : IF l < me.i THEN Reached(me.n, l) ELSE me.n \notin Chain(l)
      /\ me.pc \in {"ref", "link"} => next[me.n][me.i] = me.nxt[me.i]
  BY <1>2 DEF ThreadInv, NodeInv, Owner
<1>4. me.i \in Nat /\ me.sh \in 0 .. MaxHeight /\ height[me.n] \in 0 .. MaxHeight
  BY <1>3 DEF ThreadInv, LocalType, Types
<1>5. me.i \in Level /\ me.i < me.sh /\ me.i \in 0 .. me.sh - 1
  BY <1>3, <1>4, NodeFacts DEF Level
<1>6. \A l \in Level : (me.i <= l => ~(l < me.i))
  BY <1>4 DEF Level
<1>7. Reached(me.prev[me.i], me.i) /\ ReachedOrTail(me.nxt[me.i], me.i)
  BY <1>5 DEF ThreadInv, SpliceInv
<1>8. Bracket(me, me.i) /\ (me.pc \in {"ref", "link"} => ~Is(me.nxt[me.i], me.k))
  BY <1>1, <1>5 DEF ThreadInv, BracketInv, Low
<1> QED
  BY <1>1, <1>2, <1>3, <1>5, <1>6, <1>7, <1>8

\* A count of zero: the node is marked at all its levels.
LEMMA ZeroIsMarked ==
  ASSUME ListIInv, NEW n \in Node, WasLinked(n), refs[n] = 0
  PROVE  \A l \in Level : deleting[n][l]
<1>1. Cardinality(Counted(n)) = 0 /\ IsFiniteSet(Counted(n))
  BY CountedFinite DEF ListIInv, Counts
<1>2. Counted(n) = {}
  BY <1>1, FS_EmptySet
<1>3. n \notin Chain(0)
  BY <1>2, NodeFacts DEF Counted
<1>4. deleting[n][0]
  BY <1>3, NodeFacts DEF ListIInv, Links, Reached
<1> QED
  <2> SUFFICES ASSUME NEW l \in Level PROVE deleting[n][l]
    OBVIOUS
  <2>1. l = 0 \/ 0 < l
    BY NodeFacts DEF Level
  <2> QED
    BY <1>4, <2>1, NodeFacts DEF ListIInv, Marks

\* The count is right after a reference for one more level has been taken.
LEMMA CountsTake ==
  ASSUME Types, Counts, NEW m \in Node, WasLinked(m), refs[m] # 0, refs' = [refs EXCEPT ![m] = @ + 1],
         NEW j \in Level, j \notin Counted(m), Counted(m)' = Counted(m) \cup {j},
         retired' = retired, height' = height, \A n \in Node : WasLinked(n)' <=> WasLinked(n),
         \A n \in Node : n # m => Counted(n)' = Counted(n)
  PROVE  Counts' /\ refs' \in [Node -> Nat]
<1>1. IsFiniteSet(Counted(m)) /\ refs[m] = Cardinality(Counted(m)) /\ refs[m] \in Nat
  BY CountedFinite DEF Counts, Types
<1>2. Cardinality(Counted(m)') = refs[m] + 1
  BY <1>1, FS_AddElement
<1>3. refs'[m] = refs[m] + 1 /\ \A n \in Node : n # m => refs'[n] = refs[n]
  BY DEF Types
<1>4. refs' \in [Node -> Nat]
  BY <1>1 DEF Types
<1>5. ASSUME NEW n \in Node, WasLinked(n)'
      PROVE  refs'[n] = Cardinality(Counted(n)') /\ (n \in retired' <=> refs'[n] = 0)
  <2>1. CASE n = m
    <3>1. refs[m] + 1 # 0
      BY <1>1
    <3> QED
      BY <1>2, <1>3, <2>1, <3>1 DEF Counts
  <2>2. CASE n # m
    <3>1. refs'[n] = refs[n] /\ Counted(n)' = Counted(n) /\ WasLinked(n)
      BY <1>3, <1>5, <2>2
    <3> QED
      BY <3>1 DEF Counts
  <2> QED
    BY <2>1, <2>2
<1>6. \A n \in retired' : n \in Node /\ WasLinked(n)'
  BY DEF Counts
<1>7. \A n \in Node : height'[n] = 0 => refs'[n] = 0
  <2>1. height[m] # 0
    BY NodeFacts DEF WasLinked, Types
  <2> QED
    BY <1>3, <2>1 DEF Counts
<1> QED
  BY <1>4, <1>5, <1>6, <1>7 DEF Counts

\* An insert takes a reference for the next level.
LEMMA RefStep ==
  ASSUME ListIInv, NEW t \in Thread, NEW me, me = th[t], me.pc = "ref", refs[me.n] # 0,
         NEW r, OnlyPc(me, r, "link"), Moves(t, r), refs' = [refs EXCEPT ![me.n] = @ + 1],
         UNCHANGED <<links, retired, height, now_height, plan, present>>
  PROVE  ListIInv'
<1> USE DEF ListIInv, links
<1>0. ThreadInv(me)
  BY OwnerFacts
<1> PICK n, i : n = me.n /\ i = me.i
  OBVIOUS
<1>1. /\ Building(me) /\ ~Fresh(me) /\ n \in Node /\ WasLinked(n)
      /\ i \in Level /\ n \notin Chain(i) /\ \A l \in Level : i <= l => n \notin Chain(l)
  BY <1>0, BuildingFacts
<1>2. ThreadInv(r) /\ ~Fresh(r) /\ Building(r)
  BY <1>0, <1>1, PcOK
<1>3. r.n = n /\ r.i = i /\ r.pc = "link"
  BY OnlyPcFields
<1>4. \A m \in Node : WasLinked(m)' <=> WasLinked(m)
  BY <1>1, <1>2, SameLinked
<1>5. Chains' /\ \A j \in Level : Chain(j)' = Chain(j)
  BY ChainsSame
<1>6. About(n, i, me, r)
  BY <1>3, <1>5 DEF About, Handed
<1>7. \A u \in Thread \ {t} : ~Handed(th[u], n, i) /\ ~(Building(th[u]) /\ th[u].n = n /\ th[u].i <= i)
  <2>1. \A u \in Thread \ {t} : ~Handed(th[u], n, i)
    BY <1>1 DEF HandsApart, Level
  <2>2. \A u \in Thread \ {t} : Building(th[u]) => th[u].n # n
    BY <1>1 DEF Owners, Owner
  <2> QED
    BY <2>1, <2>2
<1>8. Handed(r, n, i) /\ ~Handed(me, n, i)
  BY <1>3 DEF Handed
<1>9. Counts' /\ refs' \in [Node -> Nat]
  <2>1. \A m \in Node : m # n => Counted(m)' = Counted(m)
    BY <1>6, CountedStep
  <2>2. Counted(n)' = IF \/ n \in Chain(i)' \/ Handed(r, n, i)
                         \/ \E u \in Thread \ {t} : Handed(th[u], n, i)
                      THEN Counted(n) \cup {i} ELSE Counted(n) \ {i}
    BY <1>1, <1>6, CountedStep
  <2>3. Counted(n)' = Counted(n) \cup {i}
    BY <1>8, <2>2
  <2>4. i \notin Counted(n)
    BY <1>1, <1>7, <1>8 DEF Counted
  <2> QED
    BY <1>1, <1>4, <2>1, <2>3, <2>4, CountsTake
<1>10. Types'
  BY <1>9 DEF Types
<1>11. Keeps
  BY <1>4, <1>5, KeepsReach
<1>12. LeavesAlone(Tail)
  <2>1. \A m \in Node : m # n => refs'[m] = refs[m]
    BY DEF Types
  <2> QED
    BY <1>1, <1>5, <2>1 DEF LeavesAlone
<1>13. Threads'
  <2>1. r.n # Tail
    BY <1>1, <1>3, NodeFacts
  <2>2. ThreadInv(r)'
    BY <1>2, <1>11, <1>12, <2>1, ThreadKept
  <2>3. \A u \in Thread \ {t} : Owner(th[u]) => th[u].n # Tail
    BY OwnerFacts, NodeFacts
  <2> QED
    BY <1>11, <1>12, <2>2, <2>3, ThreadsStep
<1>14. Links'
  BY <1>4, <1>5, <1>10, <1>11, LinksStep
<1>15. Marks' /\ Marking' /\ Whole' /\ Owners'
  <2>1. \A m \in Node, j \in Level : WasLinked(m)' /\ j < height'[m] =>
            \/ m \in Chain(j)'
            \/ deleting[m][j]
            \/ Building(r) /\ r.n = m /\ r.i <= j
            \/ WasLinked(m) /\ height'[m] = height[m] /\ m \notin Chain(j)
               /\ ~(Building(me) /\ me.n = m /\ me.i <= j)
    BY <1>2, <1>3, <1>4, <1>5
  <2>2. Owner(me) /\ r.n = me.n
    BY <1>1, <1>3 DEF Owner
  <2> QED
    BY <1>4, <2>1, <2>2, RolesStep
<1>16. HandsApart'
  <2>1. me.i \in Nat /\ r.i \in Nat /\ me.i <= r.i
    BY <1>1, <1>3 DEF Level
  <2>2. n \notin Chain(i)'
    BY <1>1, <1>5
  <2> QED
    BY <1>1, <1>3, <1>4, <1>6, <1>7, <2>1, <2>2, HandsStep
<1>17. SetIsLevel0'
  BY <1>5, NodeFacts, SetStep
<1> QED
  BY <1>5, <1>9, <1>10, <1>13, <1>14, <1>15, <1>16, <1>17

\* The node of an insert has been pointed to its successor.
LEMMA OwnRefOK ==
  \A me, r : ThreadInv(me) /\ me.pc = "own" /\ OnlyPc(me, r, "ref") /\ ~IsDirty(me)
             /\ next[me.n][me.i] = me.nxt[me.i] => ThreadInv(r)
<1> SUFFICES ASSUME NEW me, NEW r, ThreadInv(me), me.pc = "own", OnlyPc(me, r, "ref"), ~IsDirty(me),
                    next[me.n][me.i] = me.nxt[me.i]
             PROVE  ThreadInv(r)
  OBVIOUS
<1>1. ~Is(me.nxt[me.i], me.k)
  BY DEF IsDirty, Is, ThreadInv, LocalType
<1> QED
  BY <1>1, PcOK

\* The same of the state after the step.
LEMMA OwnRefPrime ==
  \A me, r : ThreadInv(me)' /\ me.pc = "own" /\ OnlyPc(me, r, "ref") /\ ~IsDirty(me)
             /\ next'[me.n][me.i] = me.nxt[me.i] => ThreadInv(r)'
<1>1. (\A me, r : ThreadInv(me) /\ me.pc = "own" /\ OnlyPc(me, r, "ref") /\ ~IsDirty(me)
             /\ next[me.n][me.i] = me.nxt[me.i] => ThreadInv(r))'
  BY OwnRefOK, PTL
<1> QED
  BY <1>1

\* An insert points its node to the successor at the next level.
LEMMA OwnStep ==
  ASSUME ListIInv, NEW t \in Thread, NEW me, me = th[t], me.pc = "own", ~IsDirty(me),
         ~deleting[me.n][me.i], NEW r, OnlyPc(me, r, "ref"), Moves(t, r),
         next' = [next EXCEPT ![me.n][me.i] = me.nxt[me.i]],
         UNCHANGED <<deleting, counts, height, now_height, plan, present>>
  PROVE  ListIInv'
<1> USE DEF ListIInv, counts
<1>0. ThreadInv(me)
  BY OwnerFacts
<1> PICK n, i, s : n = me.n /\ i = me.i /\ s = me.nxt[me.i]
  OBVIOUS
<1>1. /\ Building(me) /\ ~Fresh(me) /\ n \in Node /\ WasLinked(n) /\ me.k = Key[n]
      /\ i \in Level /\ n \notin Chain(i) /\ \A l \in Level : l < i => Reached(n, l)
      /\ \A l \in Level : i <= l => n \notin Chain(l)
      /\ ReachedOrTail(s, i) /\ Bracket(me, i)
  BY <1>0, BuildingFacts
<1>2. \A m \in Linkable, j \in Level : next'[m][j] = IF m = n /\ j = i THEN s ELSE next[m][j]
  BY <1>1 DEF Types, Linkable
<1>3. s \in Some /\ s # Head
  BY <1>1, NodeFacts DEF ReachedOrTail, Some
<1>4. r.n = n /\ r.i = i /\ r.pc = "ref" /\ ~Fresh(r) /\ Building(r)
  <2>1. r.n = n /\ r.i = i /\ r.pc = "ref" /\ r.op = me.op /\ r.then = me.then
    BY OnlyPcFields
  <2> QED
    BY <1>1, <2>1 DEF Fresh, Building, Busy
<1>5. \A m \in Node : WasLinked(m)' <=> WasLinked(m)
  BY <1>1, <1>4, SameLinked
<1>6. Chains' /\ \A j \in Level : Chain(j)' = Chain(j)
  <2>1. \A j \in Level : \A x \in Chain(j) \cup {Head} : x \in Linkable /\ (x = n => j # i)
    BY <1>1, NodeFacts DEF Chains, IsChain, Linkable
  <2>2. \A j \in Level : \A x \in Chain(j) \cup {Head} : next'[x][j] = next[x][j]
    BY <1>2, <2>1
  <2> QED
    BY <2>2, ChainsSame
<1>7. Types'
  <2>1. next' \in [Linkable -> [Level -> Linkable \cup {Tail}]]
    BY <1>1, <1>3 DEF Types, Some, Linkable
  <2> QED
    BY <2>1 DEF Types
<1>8. Keeps
  <2>1. \A m \in Node, j \in Level : deleting[m][j] => deleting'[m][j] /\ next'[m][j] = next[m][j]
    BY <1>2 DEF Linkable
  <2>2. \A m \in Node, j \in Level : WasLinked(m) /\ next[m][j] # Head => next'[m][j] # Head
    BY <1>2, <1>3 DEF Linkable
  <2> QED
    BY <1>5, <1>6, <2>1, <2>2, KeepsReach
<1>9. LeavesAlone(n)
  <2>1. \A m \in Node, j \in Level : m # n => next'[m][j] = next[m][j]
    BY <1>2 DEF Linkable
  <2> QED
    BY <1>6, <2>1 DEF LeavesAlone
<1>10. Threads'
  <2>1. ThreadInv(me)'
    BY <1>0, <1>1, <1>6, <1>8, <1>9, ThreadKept
  <2>2. next'[me.n][me.i] = me.nxt[me.i]
    BY <1>1, <1>2 DEF Linkable
  <2>3. ThreadInv(r)'
    BY <2>1, <2>2, OwnRefPrime
  <2>4. \A u \in Thread \ {t} : Owner(th[u]) => th[u].n # n
    BY <1>1 DEF Owners, Owner
  <2> QED
    BY <1>8, <1>9, <2>3, <2>4, ThreadsStep
<1>11. Links'
  <2>1. ASSUME NEW m \in Linkable, NEW j \in Level, next'[m][j] # next[m][j], next'[m][j] \in Node
        PROVE  Reached(next[m][j], j)' /\ Follows(m, next'[m][j])
    <3>1. m = n /\ j = i /\ next'[m][j] = s
      BY <1>2, <2>1
    <3>2. Reached(s, i)
      BY <1>1, <2>1, <3>1, NodeFacts DEF ReachedOrTail
    <3>3. Reached(s, i)'
      BY <1>1, <1>8, <3>2 DEF Keeps
    <3>4. Follows(n, s)
      BY <1>1, <2>1, <3>1, NodeFacts DEF Follows, IsDirty
    <3> QED
      BY <3>1, <3>3, <3>4
  <2>2. \A m \in Node, l, j \in Level :
           WasLinked(m) /\ next'[m][l] # Head /\ next[m][l] = Head /\ j < l => Reached(m, j)
    BY <1>1, <1>2 DEF Linkable
  <2>3. \A j \in Level : \A m \in Chain(j)' : m \in Chain(j)
    BY <1>6
  <2> QED
    BY <1>5, <1>6, <1>7, <1>8, <2>1, <2>2, <2>3, LinksStep
<1>12. Marks' /\ Marking' /\ Whole' /\ Owners'
  <2>1. \A m \in Node, j \in Level : WasLinked(m)' /\ j < height'[m] =>
            \/ m \in Chain(j)'
            \/ deleting[m][j]
            \/ Building(r) /\ r.n = m /\ r.i <= j
            \/ WasLinked(m) /\ height'[m] = height[m] /\ m \notin Chain(j)
               /\ ~(Building(me) /\ me.n = m /\ me.i <= j)
    BY <1>4, <1>5, <1>6
  <2>2. Owner(me) /\ r.n = me.n
    BY <1>1, <1>4 DEF Owner
  <2> QED
    BY <1>5, <2>1, <2>2, RolesStep
<1>13. About(Tail, 0, me, r) /\ Tail \notin Node
  BY <1>4, <1>6, NodeFacts DEF About, Handed
<1>14. HandsApart'
  <2>1. me.i \in Nat /\ r.i \in Nat /\ me.i <= r.i
    BY <1>1, <1>4 DEF Level
  <2> QED
    BY <1>1, <1>4, <1>5, <1>13, <2>1, HandsStep
<1>15. Counts'
  <2>1. \A m \in Node : Counted(m)' = Counted(m)
    BY <1>13, CountedKept
  <2> QED
    BY <1>5, <2>1, CountsSame
<1>16. SetIsLevel0'
  BY <1>6, NodeFacts, SetStep
<1> QED
  BY <1>6, <1>7, <1>10, <1>11, <1>12, <1>14, <1>15, <1>16

\* what an insert is like that has linked its node n below level i, and what it
\* has become then
UpReady(me, n, i) ==
    /\ LocalType(me) /\ Shape(me) /\ SpliceInv(me) /\ BracketInv(me) /\ NestInv(me)
    /\ me.pc \in {"link0", "link"} /\ n \in Node /\ n = me.n /\ me.k = Key[n] /\ WasLinked(n)
    /\ i = me.i + 1 /\ i <= height[n] /\ height[n] <= me.sh
    /\ \A l \in Level : IF l < i THEN Reached(n, l) ELSE n \notin Chain(l)
UpDone(r, n, i) ==
    /\ ThreadInv(r) /\ ~Fresh(r) /\ r.n = n /\ r.pc \in {"own", "done"}
    /\ Building(r) <=> i < height[n]
    /\ Building(r) => r.i = i

\* LevelUpOK of all inserts, and of the state after the step.
LEMMA LevelUpAll == Types => \A me, n, i, r : UpReady(me, n, i) /\ UpAs(me, r, i) => UpDone(r, n, i)
<1> SUFFICES ASSUME Types, NEW me, NEW n, NEW i, NEW r, UpReady(me, n, i), UpAs(me, r, i)
             PROVE  UpDone(r, n, i)
  OBVIOUS
<1>1. /\ LocalType(me) /\ Shape(me) /\ SpliceInv(me) /\ BracketInv(me) /\ NestInv(me)
      /\ me.pc \in {"link0", "link"} /\ n \in Node /\ n = me.n /\ me.k = Key[n] /\ WasLinked(n)
      /\ i = me.i + 1 /\ i <= height[n] /\ height[n] <= me.sh
      /\ \A l \in Level : IF l < i THEN Reached(n, l) ELSE n \notin Chain(l)
  BY DEF UpReady
<1> QED
  BY <1>1, LevelUpOK DEF UpDone

\* The same of the state after the step.
LEMMA LevelUpPrime ==
  Types' => \A me, n, i, r : UpReady(me, n, i)' /\ UpAs(me, r, i)' => UpDone(r, n, i)'
<1>1. (Types => \A me, n, i, r : UpReady(me, n, i) /\ UpAs(me, r, i) => UpDone(r, n, i))'
  BY LevelUpAll, PTL
<1> QED
  BY <1>1

\* the step of the insert me that links its node n at level i between p and s
LinksAt(me, n, i, s, p) ==
    /\ me.pc = "link" /\ n = me.n /\ i = me.i /\ s = me.nxt[me.i] /\ p = me.prev[me.i]
    /\ CanCas(p, i, s) /\ Relinks(p, i, n)

\* what is so before it, and what it does to the links and to the chains
LinkReady(me, n, i, s, p) ==
    /\ Building(me) /\ ~Fresh(me) /\ n \in Node /\ WasLinked(n) /\ me.k = Key[n]
    /\ i \in Level /\ n \notin Chain(i) /\ \A l \in Level : l < i => Reached(n, l)
    /\ \A l \in Level : i <= l => n \notin Chain(l)
    /\ 0 < i /\ i < height[n] /\ height[n] <= me.sh
    /\ Reached(p, i) /\ ReachedOrTail(s, i) /\ Bracket(me, i)
    /\ next[n][i] = s /\ ~Is(s, me.k)
    /\ ~deleting[p][i] /\ next[p][i] = s
    /\ (p = Head \/ (p \in Node /\ Key[p] < Key[n])) /\ (s = Tail \/ (s \in Node /\ Key[n] < Key[s]))
    /\ p \in Linkable /\ p # n
LinkDone(n, i, p) ==
    /\ next' \in [Linkable -> [Level -> Linkable \cup {Tail}]]
    /\ \A m \in Linkable, j \in Level : next'[m][j] = IF m = p /\ j = i THEN n ELSE next[m][j]
    /\ Chains' /\ Chain(i)' = Chain(i) \cup {n} /\ p \in Chain(i) \cup {Head}
    /\ \A j \in Level : j # i => Chain(j)' = Chain(j)

\* An insert that links its node at the next level puts it into the chain,
\* between the two nodes of its splice.
LEMMA LinkChains ==
  ASSUME ListIInv, NEW me, ThreadInv(me), NEW n, NEW i, NEW s, NEW p, LinksAt(me, n, i, s, p)
  PROVE  LinkReady(me, n, i, s, p) /\ LinkDone(n, i, p)
<1> USE DEF ListIInv, LinksAt
<1>1. /\ Building(me) /\ ~Fresh(me) /\ n \in Node /\ WasLinked(n) /\ me.k = Key[n]
      /\ i \in Level /\ n \notin Chain(i) /\ \A l \in Level : l < i => Reached(n, l)
      /\ \A l \in Level : i <= l => n \notin Chain(l)
      /\ 0 < i /\ i < height[n] /\ height[n] <= me.sh
      /\ Reached(p, i) /\ ReachedOrTail(s, i) /\ Bracket(me, i)
      /\ next[n][i] = s /\ ~Is(s, me.k)
  BY BuildingFacts
<1>2. ~deleting[p][i] /\ next[p][i] = s
  BY DEF CanCas
<1>3. (p = Head \/ (p \in Node /\ Key[p] < Key[n])) /\ (s = Tail \/ (s \in Node /\ Key[n] < Key[s]))
  BY <1>1, NodeFacts, SMTT(30) DEF Bracket, KeyOK, ReachedOrTail, Before, Is
<1>4. p \in Linkable /\ p # n
  <2>1. CASE p = Head
    BY <1>1, <2>1, NodeFacts DEF Linkable
  <2>2. CASE p # Head
    <3>1. p \in Node /\ Key[p] < Key[n] /\ Key[n] \in Int
      BY <1>1, <1>3, <2>2, NodeFacts
    <3> QED
      BY <3>1 DEF Linkable
  <2> QED
    BY <2>1, <2>2
<1>5. /\ next' \in [Linkable -> [Level -> Linkable \cup {Tail}]]
      /\ \A m \in Linkable, j \in Level : next'[m][j] = IF m = p /\ j = i THEN n ELSE next[m][j]
  <2>1. next \in [Linkable -> [Level -> Linkable \cup {Tail}]] /\ n \in Linkable
    BY <1>1 DEF Types, Linkable
  <2> QED
    BY <1>1, <1>4, <2>1 DEF Relinks
<1>6. /\ Chains' /\ Chain(i)' = Chain(i) \cup {n} /\ p \in Chain(i) \cup {Head}
      /\ \A j \in Level : j # i => Chain(j)' = Chain(j)
  <2>1. LinkedAt(i, p, n, s)
    <3>1. \A j \in Level : Chain(j) \cup {Head} \subseteq Linkable
      BY DEF Chains, IsChain, Linkable
    <3>2. \A j \in Level : \A v \in Chain(j) \cup {Head} : v # p \/ j # i => next'[v][j] = next[v][j]
      BY <1>5, <3>1
    <3>3. n \in Linkable
      BY <1>1 DEF Linkable
    <3>4. next'[n][i] = s
      <4>1. next'[n][i] = next[n][i]
        BY <1>1, <1>4, <1>5, <3>3
      <4> QED
        BY <1>1, <4>1
    <3>5. next'[p][i] = n
      BY <1>1, <1>4, <1>5
    <3> QED
      BY <3>2, <3>4, <3>5 DEF LinkedAt
  <2>2. CanCas(p, i, s) /\ Reached(p, i) /\ i \in Level /\ n \in Node /\ n \notin Chain(i)
    BY <1>1
  <2>3. (p = Head \/ Key[p] < Key[n]) /\ (s = Tail \/ Key[n] < Key[s])
    BY <1>3
  <2>4. Types /\ Chains
    OBVIOUS
  <2> HIDE DEF ListIInv, LinksAt
  <2> QED
    BY <2>1, <2>2, <2>3, <2>4, ChainsLink
<1>7. LinkReady(me, n, i, s, p)
  BY <1>1, <1>2, <1>3, <1>4, Zenon DEF LinkReady
<1> QED
  BY <1>5, <1>6, <1>7, Zenon DEF LinkDone

\* An insert links its node at the next level.
LEMMA LinkStep ==
  ASSUME ListIInv, NEW t \in Thread, NEW me, me = th[t], me.pc = "link",
         CanCas(me.prev[me.i], me.i, me.nxt[me.i]), Relinks(me.prev[me.i], me.i, me.n),
         NEW r, UpAs(me, r, me.i + 1), Moves(t, r),
         UNCHANGED <<deleting, counts, height, now_height, plan, present>>
  PROVE  ListIInv'
<1> USE DEF ListIInv, counts
<1>0. ThreadInv(me)
  BY OwnerFacts
<1> PICK n, i, s, p : n = me.n /\ i = me.i /\ s = me.nxt[me.i] /\ p = me.prev[me.i]
  OBVIOUS
<1>b. LinkReady(me, n, i, s, p) /\ LinkDone(n, i, p)
  <2>1. LinksAt(me, n, i, s, p)
    BY DEF LinksAt
  <2> HIDE DEF ListIInv
  <2> QED
    BY <1>0, <2>1, LinkChains
<1>1. /\ Building(me) /\ ~Fresh(me) /\ n \in Node /\ WasLinked(n) /\ me.k = Key[n]
      /\ i \in Level /\ n \notin Chain(i) /\ \A l \in Level : l < i => Reached(n, l)
      /\ \A l \in Level : i <= l => n \notin Chain(l)
      /\ 0 < i /\ i < height[n] /\ height[n] <= me.sh
      /\ Reached(p, i) /\ ReachedOrTail(s, i) /\ Bracket(me, i)
      /\ next[n][i] = s /\ ~Is(s, me.k)
  BY <1>b DEF LinkReady
<1>2. ~deleting[p][i] /\ next[p][i] = s
  BY <1>b DEF LinkReady
<1>3. (p = Head \/ (p \in Node /\ Key[p] < Key[n])) /\ (s = Tail \/ (s \in Node /\ Key[n] < Key[s]))
  BY <1>b DEF LinkReady
<1>4. p \in Linkable /\ p # n
  BY <1>b DEF LinkReady
<1>5. \A m \in Linkable, j \in Level : next'[m][j] = IF m = p /\ j = i THEN n ELSE next[m][j]
  BY <1>b DEF LinkDone
<1>6. /\ Chains' /\ Chain(i)' = Chain(i) \cup {n} /\ p \in Chain(i) \cup {Head}
      /\ \A j \in Level : j # i => Chain(j)' = Chain(j)
  BY <1>b DEF LinkDone
<1>7. /\ ~Fresh(r) /\ (Owner(r) => r.n = n)
      /\ r.pc \in {"own", "done"} /\ (Building(r) => r.n = n /\ r.i = i + 1)
  <2>1. CASE i + 1 = height[me.n]
    <3>1. r.pc = "done" /\ r.res /\ r.then = "none"
      BY <2>1 DEF UpAs, LeftAs
    <3> QED
      BY <3>1 DEF Fresh, Building, Owner, Busy, Searching
  <2>2. CASE i + 1 # height[me.n]
    <3>1. r = [me EXCEPT !.pc = "own", !.i = i + 1]
      BY <2>2 DEF UpAs
    <3>2. me.then = "none" /\ me.op = "insert"
      BY <1>0, BuildingFacts
    <3>3. r.pc = "own" /\ r.i = i + 1 /\ r.n = n /\ r.then = "none" /\ r.op = "insert"
      BY <1>0, <3>1, <3>2 DEF ThreadInv, LocalType, Locals
    <3> QED
      BY <3>3 DEF Fresh
  <2> QED
    BY <2>1, <2>2
<1>8. \A m \in Node : WasLinked(m)' <=> WasLinked(m)
  BY <1>1, <1>7, SameLinked
<1>9. Types'
  <2>1. next' \in [Linkable -> [Level -> Linkable \cup {Tail}]]
    BY <1>b DEF LinkDone
  <2> QED
    BY <2>1 DEF Types
<1>10. Keeps
  <2>1. \A m \in Node, j \in Level : deleting[m][j] => deleting'[m][j] /\ next'[m][j] = next[m][j]
    BY <1>2, <1>5 DEF Linkable
  <2>2. \A m \in Node, j \in Level : WasLinked(m) /\ next[m][j] # Head => next'[m][j] # Head
    BY <1>1, <1>5, NodeFacts DEF Linkable
  <2>3. \A m \in Node, j \in Level : m \in Chain(j) => m \in Chain(j)'
    BY <1>6
  <2> QED
    BY <1>8, <2>1, <2>2, <2>3, KeepsReach
<1>11. LeavesAlone(n)
  <2>1. \A m \in Node, j \in Level : m # n /\ m \notin Chain(j) => m \notin Chain(j)' /\ next'[m][j] = next[m][j]
    BY <1>5, <1>6, NodeFacts DEF Linkable
  <2> QED
    BY <2>1 DEF LeavesAlone
<1>12. \A l \in Level : IF l < i + 1 THEN Reached(n, l)' ELSE n \notin Chain(l)'
  <2> SUFFICES ASSUME NEW l \in Level
               PROVE  IF l < i + 1 THEN Reached(n, l)' ELSE n \notin Chain(l)'
    OBVIOUS
  <2>1. CASE l < i
    <3>1. Reached(n, l)'
      BY <1>1, <1>10, <2>1 DEF Keeps
    <3>2. l < i + 1
      BY <1>1, <2>1 DEF Level
    <3> QED
      BY <3>1, <3>2
  <2>2. CASE l = i
    <3>1. l < i + 1
      BY <1>1, <2>2 DEF Level
    <3>2. next'[n][i] = s /\ s # Head /\ i < height'[n]
      <4>1. s # Head
        BY <1>3, NodeFacts
      <4>2. n \in Linkable /\ i \in Level /\ next[n][i] = s /\ i < height[n]
        BY <1>1 DEF Linkable
      <4>3. next'[n][i] = next[n][i]
        BY <1>4, <1>5, <4>2
      <4> QED
        BY <4>1, <4>2, <4>3
    <3>3. WasLinked(n)' /\ n \in Chain(i)'
      BY <1>1, <1>6, <1>8
    <3>4. i \in Level' /\ n \in Node'
      BY <1>1 DEF Level
    <3>5. Reached(n, i)'
      BY <3>2, <3>3, <3>4 DEF Reached
    <3> QED
      BY <2>2, <3>1, <3>5
  <2>3. CASE i < l
    <3>1. ~(l < i + 1) /\ l # i /\ i <= l
      BY <1>1, <2>3 DEF Level
    <3>2. n \notin Chain(l)'
      BY <1>1, <1>6, <3>1
    <3> QED
      BY <3>1, <3>2
  <2> QED
    BY <1>1, <2>1, <2>2, <2>3 DEF Level
<1>13. UpDone(r, n, i + 1)'
  <2>1. UpAs(me, r, i + 1)'
    <3>1. UpAs(me, r, i + 1)
      OBVIOUS
    <3> QED
      BY <3>1 DEF UpAs, LeftAs
  <2>2. LocalType(me)' /\ Shape(me)' /\ BracketInv(me)' /\ NestInv(me)'
    BY <1>0 DEF ThreadInv
  <2>3. SpliceInv(me)'
    BY <1>0, <1>10, SpliceKept DEF ThreadInv
  <2>4. WasLinked(n)' /\ i + 1 <= height'[n] /\ height'[n] <= me.sh
    <3>1. height[n] \in Nat /\ i \in Nat
      BY <1>1 DEF Types, Level
    <3> QED
      BY <1>1, <1>8, <3>1
  <2>5. UpReady(me, n, i + 1)'
    BY <1>1, <1>12, <2>2, <2>3, <2>4 DEF UpReady
  <2> QED
    BY <1>9, <2>1, <2>5, LevelUpPrime
<1>14. ThreadInv(r)' /\ (Building(r) <=> i + 1 < height[n])
  BY <1>13 DEF UpDone
<1>15. Threads'
  <2>1. \A u \in Thread \ {t} : Owner(th[u]) => th[u].n # n
    BY <1>1 DEF Owners, Owner
  <2> QED
    BY <1>10, <1>11, <1>14, <2>1, ThreadsStep
<1>16. Links'
  <2>1. ASSUME NEW m \in Linkable, NEW j \in Level, next'[m][j] # next[m][j], next'[m][j] \in Node
        PROVE  Reached(next[m][j], j)' /\ Follows(m, next'[m][j])
    <3>1. m = p /\ j = i /\ next'[m][j] = n
      BY <1>5, <2>1
    <3>2. Reached(n, i)'
      BY <1>1, <1>12 DEF Level
    <3>3. Follows(p, n)
      BY <1>1, <1>3 DEF Follows
    <3> QED
      BY <3>1, <3>2, <3>3
  <2>2. \A m \in Node, l, j \in Level :
           WasLinked(m) /\ next'[m][l] # Head /\ next[m][l] = Head /\ j < l => Reached(m, j)
    <3>1. s # Head
      BY <1>3, NodeFacts
    <3>2. ASSUME NEW m \in Node, NEW l \in Level, next'[m][l] # next[m][l]
          PROVE  next[m][l] # Head
      <4>1. m = p /\ l = i
        BY <1>5, <3>2 DEF Linkable
      <4> QED
        BY <1>2, <3>1, <4>1
    <3> QED
      BY <3>2
  <2>3. Reached(n, i)'
    BY <1>1, <1>12 DEF Level
  <2>4. \A j \in Level : \A m \in Chain(j)' : m \in Chain(j) \/ Reached(m, j)'
    BY <1>6, <2>3
  <2> QED
    BY <1>6, <1>8, <1>9, <1>10, <2>1, <2>2, <2>4, LinksStep
<1>17. Marks' /\ Marking' /\ Whole' /\ Owners'
  <2>1. ASSUME NEW m \in Node, NEW j \in Level, WasLinked(m)', j < height'[m]
        PROVE  \/ m \in Chain(j)'
               \/ deleting[m][j]
               \/ Building(r) /\ r.n = m /\ r.i <= j
               \/ WasLinked(m) /\ height'[m] = height[m] /\ m \notin Chain(j)
                  /\ ~(Building(me) /\ me.n = m /\ me.i <= j)
    <3>1. CASE m # n \/ j < i
      <4>1. m # n \/ ~(i <= j)
        BY <1>1, <3>1 DEF Level
      <4> QED
        BY <1>6, <1>8, <2>1, <4>1
    <3>2. CASE m = n /\ j = i
      BY <1>6, <3>2
    <3>3. CASE m = n /\ i < j
      <4>1. i + 1 <= j /\ i + 1 < height[n]
        BY <1>1, <2>1, <3>3 DEF Level, Types
      <4> QED
        BY <1>7, <1>14, <3>3, <4>1
    <3> QED
      BY <1>1, <3>1, <3>2, <3>3 DEF Level
  <2>2. Owner(r) => Owner(me) /\ r.n = me.n
    BY <1>1, <1>7 DEF Owner
  <2> QED
    BY <1>8, <2>1, <2>2, RolesStep
<1>18. Handed(me, n, i) /\ \A m \in Node, j \in Level : ~Handed(r, m, j) /\ (Handed(me, m, j) <=> m = n /\ j = i)
  BY <1>7 DEF Handed
<1>19. About(n, i, me, r)
  BY <1>6, <1>18 DEF About
<1>20. HandsApart'
  <2>1. Building(r) => r.n \in Node /\ r.n = me.n /\ me.i <= r.i /\ r.i \in Nat
    BY <1>1, <1>7 DEF Level
  <2>2. me.i \in Nat
    BY <1>1 DEF Level
  <2>3. \A u \in Thread \ {t} : ~Handed(th[u], n, i)
    BY <1>1, <1>18 DEF HandsApart
  <2> QED
    BY <1>1, <1>8, <1>18, <1>19, <2>1, <2>2, <2>3, HandsStep
<1>21. Counts'
  <2>1. \A m \in Node : m # n => Counted(m)' = Counted(m)
    BY <1>19, CountedStep
  <2>2. Counted(n)' = IF \/ n \in Chain(i)' \/ Handed(r, n, i)
                         \/ \E u \in Thread \ {t} : Handed(th[u], n, i)
                      THEN Counted(n) \cup {i} ELSE Counted(n) \ {i}
    <3>1. n \in Node /\ i \in Level
      BY <1>1
    <3> QED
      BY <1>19, <3>1, CountedStep
  <2>3. i \in Counted(n)
    BY <1>1, <1>18 DEF Counted
  <2>4. \A m \in Node : Counted(m)' = Counted(m)
    BY <1>6, <2>1, <2>2, <2>3
  <2> QED
    BY <1>8, <2>4, CountsSame
<1>22. SetIsLevel0'
  <2>1. i # 0
    BY <1>1 DEF Level
  <2> QED
    BY <1>6, <2>1, NodeFacts, SetStep
<1> QED
  BY <1>6, <1>9, <1>15, <1>16, <1>17, <1>20, <1>21, <1>22

\* What an insert knows whose node is not linked yet.
LEMMA FreshFacts ==
  ASSUME ListIInv, NEW t \in Thread, NEW me, me = th[t], me.pc = "link0"
  PROVE  /\ Fresh(me) /\ ~Building(me) /\ me.op = "insert" /\ me.then = "none" /\ me.i = 0
         /\ me.n \in Node /\ me.k = Key[me.n] /\ ~WasLinked(me.n)
         /\ 0 < height[me.n] /\ height[me.n] <= me.sh /\ refs[me.n] = 1 /\ me.n \notin retired
         /\ \A l \in Level : 0 < l /\ l < height[me.n] => next[me.n][l] = Head
         /\ \A l \in Level : me.n \notin Chain(l) /\ ~deleting[me.n][l]
         /\ Reached(me.prev[0], 0) /\ ReachedOrTail(me.nxt[0], 0) /\ Bracket(me, 0)
<1> USE DEF ListIInv
<1>0. ThreadInv(me)
  BY OwnerFacts
<1>1. me.op = "insert" /\ me.then = "none"
  BY <1>0 DEF ThreadInv, Shape, Busy, Searching
<1>2. Fresh(me) /\ ~Building(me)
  BY <1>1 DEF Building, Fresh
<1>3. /\ me.n \in Node /\ me.k = Key[me.n] /\ me.i = 0 /\ 0 < height[me.n] /\ height[me.n] <= me.sh
      /\ refs[me.n] = 1 /\ me.n \notin retired
      /\ \A l \in Level : 0 < l /\ l < height[me.n] => next[me.n][l] = Head
  <2>1. Owner(me)
    BY <1>2 DEF Owner
  <2>2. me.n \in Node
    BY <1>0, <2>1 DEF ThreadInv, NodeInv
  <2>3. height[me.n] \in Nat
    BY <2>2, NodeFacts DEF Types
  <2> QED
    BY <1>0, <1>2, <2>1, <2>3 DEF ThreadInv, NodeInv
<1>4. ~WasLinked(me.n)
  BY <1>2, OwnerFacts
<1>5. \A l \in Level : me.n \notin Chain(l) /\ ~deleting[me.n][l]
  BY <1>3, <1>4, NodeFacts DEF Links, Reached, Marks
<1>6. 0 \in 0 .. me.sh - 1 /\ me.sh \in Nat
  BY <1>0, <1>3 DEF ThreadInv, LocalType, Types
<1>7. Reached(me.prev[0], 0) /\ ReachedOrTail(me.nxt[0], 0)
  BY <1>0, <1>6 DEF ThreadInv, SpliceInv
<1>8. Bracket(me, 0)
  BY <1>0, <1>1, <1>3, <1>6 DEF ThreadInv, BracketInv, Low
<1> QED
  BY <1>1, <1>2, <1>3, <1>4, <1>5, <1>7, <1>8

\* A step in which node n stops being fresh links it.
LEMMA LinkedNow ==
  ASSUME Owners, NEW t \in Thread, NEW me, me = th[t], Fresh(me), NEW n \in Node, n = me.n,
         0 < height[n], NEW r, Moves(t, r), ~Fresh(r), height' = height
  PROVE  \A m \in Node : WasLinked(m)' <=> WasLinked(m) \/ m = n
<1> SUFFICES ASSUME NEW m \in Node PROVE WasLinked(m)' <=> WasLinked(m) \/ m = n
  OBVIOUS
<1>1. WasLinked(m) <=> height[m] > 0 /\ \A u \in Thread : th[u].n = m => ~Fresh(th[u])
  BY WasLinkedIs
<1>2. WasLinked(m)' <=> height'[m] > 0 /\ \A u \in Thread : th'[u].n = m => ~Fresh(th'[u])
  BY WasLinkedPrime
<1>3. th'[t] = r /\ \A u \in Thread \ {t} : th'[u] = th[u]
  BY DEF Moves
<1>4. CASE m = n
  <2>1. \A u \in Thread \ {t} : Fresh(th[u]) => th[u].n # n
    BY DEF Owners, Owner
  <2>2. \A u \in Thread : th'[u].n = n => ~Fresh(th'[u])
    <3> SUFFICES ASSUME NEW u \in Thread, th'[u].n = n, Fresh(th'[u]) PROVE FALSE
      OBVIOUS
    <3>1. CASE u = t
      BY <1>3, <3>1
    <3>2. CASE u # t
      <4>1. th'[u] = th[u]
        BY <1>3, <3>2
      <4> QED
        BY <2>1, <3>2, <4>1
    <3> QED
      BY <3>1, <3>2
  <2> QED
    BY <1>2, <1>4, <2>2
<1>5. CASE m # n
  <2>1. \A u \in Thread : (th'[u].n = m => ~Fresh(th'[u])) <=> (th[u].n = m => ~Fresh(th[u]))
    <3> SUFFICES ASSUME NEW u \in Thread
                 PROVE  (th'[u].n = m => ~Fresh(th'[u])) <=> (th[u].n = m => ~Fresh(th[u]))
      OBVIOUS
    <3>1. CASE u = t
      <4>1. th'[u] = r
        BY <1>3, <3>1
      <4> QED
        BY <1>5, <3>1, <4>1
    <3>2. CASE u # t
      <4>1. th'[u] = th[u]
        BY <1>3, <3>2
      <4> QED
        BY <4>1
    <3> QED
      BY <3>1, <3>2
  <2> QED
    BY <1>1, <1>2, <1>5, <2>1
<1> QED
  BY <1>4, <1>5

\* What an update of a function does.
LEMMA ExceptAt ==
  ASSUME NEW S, NEW f, f = [x \in S |-> f[x]], NEW a \in S, NEW b
  PROVE  [f EXCEPT ![a] = b][a] = b /\ \A x \in S : x # a => [f EXCEPT ![a] = b][x] = f[x]
OBVIOUS

\* the step of the insert me that links its node n at level 0 between p and s
LinksAt0(me, n, s, p) ==
    /\ me.pc = "link0" /\ n = me.n /\ s = me.nxt[0] /\ p = me.prev[0]
    /\ ~Is(s, me.k) /\ CanCas(p, 0, s) /\ next' = [next EXCEPT ![n][0] = s, ![p][0] = n]

\* what is so before it, and what it does to the links and to the chains
Link0Ready(me, n, s, p) ==
    /\ Fresh(me) /\ ~Building(me) /\ n \in Node /\ ~WasLinked(n) /\ me.k = Key[n]
    /\ \A l \in Level : n \notin Chain(l) /\ ~deleting[n][l]
    /\ 0 < height[n] /\ height[n] <= me.sh /\ refs[n] = 1 /\ n \notin retired
    /\ \A l \in Level : 0 < l /\ l < height[n] => next[n][l] = Head
    /\ Reached(p, 0) /\ ReachedOrTail(s, 0) /\ Bracket(me, 0)
    /\ me.i = 0 /\ me.then = "none" /\ me.op = "insert"
    /\ ~deleting[p][0] /\ next[p][0] = s
    /\ (p = Head \/ (p \in Node /\ Key[p] < Key[n])) /\ (s = Tail \/ (s \in Node /\ Key[n] < Key[s]))
    /\ p \in Linkable /\ p # n /\ n \in Linkable /\ 0 \in Level
Link0Done(n, s, p) ==
    /\ next'[p][0] = n /\ next'[n][0] = s
    /\ \A m \in Linkable, j \in Level : next'[m][j] = next[m][j] \/ (j = 0 /\ m \in {n, p})
    /\ Chains' /\ Chain(0)' = Chain(0) \cup {n} /\ p \in Chain(0) \cup {Head}
    /\ \A j \in Level : j # 0 => Chain(j)' = Chain(j)

\* An insert that links its node at level 0 puts it into the chain, between
\* the two nodes of its splice.
LEMMA Link0Chains ==
  ASSUME ListIInv, NEW t \in Thread, NEW me, me = th[t], NEW n, NEW s, NEW p, LinksAt0(me, n, s, p)
  PROVE  Link0Ready(me, n, s, p) /\ Link0Done(n, s, p)
<1> USE DEF ListIInv, LinksAt0
<1>0. ThreadInv(me)
  BY OwnerFacts
<1>1. /\ Fresh(me) /\ ~Building(me) /\ n \in Node /\ ~WasLinked(n) /\ me.k = Key[n]
      /\ \A l \in Level : n \notin Chain(l) /\ ~deleting[n][l]
      /\ 0 < height[n] /\ height[n] <= me.sh /\ refs[n] = 1 /\ n \notin retired
      /\ \A l \in Level : 0 < l /\ l < height[n] => next[n][l] = Head
      /\ Reached(p, 0) /\ ReachedOrTail(s, 0) /\ Bracket(me, 0)
      /\ me.i = 0 /\ me.then = "none" /\ me.op = "insert"
  BY FreshFacts
<1>2. ~deleting[p][0] /\ next[p][0] = s
  BY DEF CanCas
<1>3. (p = Head \/ (p \in Node /\ Key[p] < Key[n])) /\ (s = Tail \/ (s \in Node /\ Key[n] < Key[s]))
  <2>1. KeyOK(p, Key[n]) /\ ~Before(s, Key[n]) /\ ~Is(s, Key[n]) /\ (s = Tail \/ s \in Node)
    BY <1>1 DEF Bracket, ReachedOrTail
  <2>2. p = Head \/ (p \in Node /\ Key[p] < Key[n])
    BY <2>1 DEF KeyOK
  <2>3. CASE s # Tail
    <3>1. s \in Node /\ ~(Key[s] < Key[n]) /\ Key[s] # Key[n]
      BY <2>1, <2>3, NodeFacts DEF Before, Is
    <3>2. Key[s] \in Int /\ Key[n] \in Int
      BY <1>1, <3>1, NodeFacts
    <3>3. Key[n] < Key[s]
      BY <3>1, <3>2
    <3> QED
      BY <2>2, <3>1, <3>3
  <2> QED
    BY <2>2, <2>3
<1>4. p \in Linkable /\ p # n /\ n \in Linkable /\ 0 \in Level
  BY <1>1, <1>3, NodeFacts DEF Linkable
<1>5. /\ next'[p][0] = n /\ next'[n][0] = s
      /\ \A m \in Linkable, j \in Level : next'[m][j] = next[m][j] \/ (j = 0 /\ m \in {n, p})
  <2>1. \A m \in Linkable : next[m] = [j \in Level |-> next[m][j]]
    BY DEF Types
  <2>2. \A m \in Linkable : next'[m] = IF m = p THEN [next[p] EXCEPT ![0] = n]
                                       ELSE IF m = n THEN [next[n] EXCEPT ![0] = s] ELSE next[m]
    BY <1>4 DEF Types
  <2>3. next'[p] = [next[p] EXCEPT ![0] = n] /\ next'[n] = [next[n] EXCEPT ![0] = s]
    BY <1>4, <2>2, Zenon
  <2>4. next'[p][0] = n /\ \A j \in Level : j # 0 => next'[p][j] = next[p][j]
    <3> PICK f, g : f = next[p] /\ g = [next[p] EXCEPT ![0] = n]
      OBVIOUS
    <3>1. f = [j \in Level |-> f[j]] /\ 0 \in Level
      BY <1>4, <2>1
    <3>2. g = [f EXCEPT ![0] = n]
      OBVIOUS
    <3>3. g[0] = n /\ \A j \in Level : j # 0 => g[j] = f[j]
      BY <3>1, <3>2, ExceptAt
    <3>4. next'[p] = g
      BY <2>3
    <3> QED
      BY <3>3, <3>4
  <2>5. next'[n][0] = s /\ \A j \in Level : j # 0 => next'[n][j] = next[n][j]
    <3> PICK f, g : f = next[n] /\ g = [next[n] EXCEPT ![0] = s]
      OBVIOUS
    <3>1. f = [j \in Level |-> f[j]] /\ 0 \in Level
      BY <1>4, <2>1
    <3>2. g = [f EXCEPT ![0] = s]
      OBVIOUS
    <3>3. g[0] = s /\ \A j \in Level : j # 0 => g[j] = f[j]
      BY <3>1, <3>2, ExceptAt
    <3>4. next'[n] = g
      BY <2>3
    <3> QED
      BY <3>3, <3>4
  <2>6. ASSUME NEW m \in Linkable, NEW j \in Level, next'[m][j] # next[m][j]
        PROVE  j = 0 /\ m \in {n, p}
    <3>1. m = n \/ m = p
      BY <2>2, <2>6
    <3> QED
      BY <2>4, <2>5, <2>6, <3>1
  <2> QED
    BY <2>4, <2>5, <2>6
<1>6. /\ Chains' /\ Chain(0)' = Chain(0) \cup {n} /\ p \in Chain(0) \cup {Head}
      /\ \A j \in Level : j # 0 => Chain(j)' = Chain(j)
  <2>1. LinkedAt(0, p, n, s)
    <3>1. \A j \in Level : Chain(j) \subseteq Node
      BY DEF Chains, IsChain
    <3>2. ASSUME NEW j \in Level, NEW v \in Chain(j) \cup {Head}, v # p \/ j # 0
          PROVE  next'[v][j] = next[v][j]
      <4>1. CASE v = Head
        <5>1. v \in Linkable /\ v # n
          BY <1>1, <4>1, NodeFacts DEF Linkable
        <5> QED
          BY <1>5, <3>2, <5>1
      <4>2. CASE v # Head
        <5>1. v \in Linkable /\ v # n
          BY <1>1, <3>1, <4>2 DEF Linkable
        <5> QED
          BY <1>5, <3>2, <5>1
      <4> QED
        BY <4>1, <4>2
    <3> QED
      BY <1>5, <3>2 DEF LinkedAt
  <2>2. CanCas(p, 0, s) /\ Reached(p, 0) /\ 0 \in Level /\ n \in Node /\ n \notin Chain(0)
    BY <1>1, <1>4
  <2>3. (p = Head \/ Key[p] < Key[n]) /\ (s = Tail \/ Key[n] < Key[s])
    BY <1>3
  <2> QED
    BY <2>1, <2>2, <2>3, ChainsLink
<1>7. Link0Ready(me, n, s, p)
  BY <1>1, <1>2, <1>3, <1>4, Zenon DEF Link0Ready
<1> QED
  BY <1>5, <1>6, <1>7, Zenon DEF Link0Done

\* An insert links its node at level 0.
LEMMA Link0Step ==
  ASSUME ListIInv, NEW t \in Thread, NEW me, me = th[t], me.pc = "link0",
         ~Is(me.nxt[0], me.k), CanCas(me.prev[0], 0, me.nxt[0]),
         next' = [next EXCEPT ![me.n][0] = me.nxt[0], ![me.prev[0]][0] = me.n],
         NEW r, UpAs(me, r, 1), Moves(t, r), present' = present \cup {me.k},
         UNCHANGED <<deleting, counts, height, now_height, plan>>
  PROVE  ListIInv'
<1> PICK n, s, p : n = me.n /\ s = me.nxt[0] /\ p = me.prev[0]
  OBVIOUS
<1>b. Link0Ready(me, n, s, p) /\ Link0Done(n, s, p)
  <2>1. LinksAt0(me, n, s, p)
    BY DEF LinksAt0
  <2> QED
    BY <2>1, Link0Chains
<1>1. /\ Fresh(me) /\ ~Building(me) /\ n \in Node /\ ~WasLinked(n) /\ me.k = Key[n]
      /\ \A l \in Level : n \notin Chain(l) /\ ~deleting[n][l]
      /\ 0 < height[n] /\ height[n] <= me.sh /\ refs[n] = 1 /\ n \notin retired
      /\ \A l \in Level : 0 < l /\ l < height[n] => next[n][l] = Head
      /\ Reached(p, 0) /\ ReachedOrTail(s, 0) /\ Bracket(me, 0)
      /\ me.i = 0 /\ me.then = "none" /\ me.op = "insert"
  BY <1>b DEF Link0Ready
<1>2. ~deleting[p][0] /\ next[p][0] = s
  BY <1>b DEF Link0Ready
<1>3. (p = Head \/ (p \in Node /\ Key[p] < Key[n])) /\ (s = Tail \/ (s \in Node /\ Key[n] < Key[s]))
  BY <1>b DEF Link0Ready
<1>4. p \in Linkable /\ p # n /\ n \in Linkable /\ 0 \in Level
  BY <1>b DEF Link0Ready
<1>5. /\ next'[p][0] = n /\ next'[n][0] = s
      /\ \A m \in Linkable, j \in Level : next'[m][j] = next[m][j] \/ (j = 0 /\ m \in {n, p})
  BY <1>b DEF Link0Done
<1>6. /\ Chains' /\ Chain(0)' = Chain(0) \cup {n} /\ p \in Chain(0) \cup {Head}
      /\ \A j \in Level : j # 0 => Chain(j)' = Chain(j)
  BY <1>b DEF Link0Done
<1> USE DEF ListIInv, counts
<1>a. ThreadInv(me)
  BY OwnerFacts
<1>7. /\ ~Fresh(r) /\ (Owner(r) => r.n = n)
      /\ r.pc \in {"own", "done"} /\ (Building(r) => r.n = n /\ r.i = 1)
  <2>1. CASE 1 = height[me.n]
    <3>1. r.pc = "done" /\ r.res /\ r.then = "none"
      BY <2>1 DEF UpAs, LeftAs
    <3> QED
      BY <3>1 DEF Fresh, Building, Owner, Busy, Searching
  <2>2. CASE 1 # height[me.n]
    <3>1. r = [me EXCEPT !.pc = "own", !.i = 1]
      BY <2>2 DEF UpAs
    <3>3. r.pc = "own" /\ r.i = 1 /\ r.n = n /\ r.then = "none" /\ r.op = "insert"
      BY <1>a, <1>1, <3>1 DEF ThreadInv, LocalType, Locals
    <3> QED
      BY <3>3 DEF Fresh
  <2> QED
    BY <2>1, <2>2
<1>8. \A m \in Node : WasLinked(m)' <=> WasLinked(m) \/ m = n
  BY <1>1, <1>7, LinkedNow
<1>9. Types'
  <2>1. s \in Linkable \cup {Tail}
    BY <1>3 DEF Linkable
  <2>2. next' \in [Linkable -> [Level -> Linkable \cup {Tail}]]
    BY <1>4, <2>1 DEF Types
  <2> QED
    BY <2>2 DEF Types
<1>10. Keeps
  <2>1. \A m \in Node, j \in Level : deleting[m][j] => deleting'[m][j] /\ next'[m][j] = next[m][j]
    <3> SUFFICES ASSUME NEW m \in Node, NEW j \in Level, deleting[m][j] PROVE next'[m][j] = next[m][j]
      OBVIOUS
    <3>1. m \in Linkable /\ m # n /\ ~(j = 0 /\ m = p)
      BY <1>1, <1>2 DEF Linkable
    <3> QED
      BY <1>5, <3>1
  <2>2. ASSUME NEW m \in Node, NEW j \in Level, WasLinked(m), next[m][j] # Head
        PROVE  next'[m][j] # Head
    <3>1. m # n /\ n # Head
      BY <1>1, <2>2, NodeFacts
    <3> QED
      BY <1>5, <2>2, <3>1 DEF Linkable
  <2>3. \A m \in Node, j \in Level : m \in Chain(j) => m \in Chain(j)'
    BY <1>6
  <2> QED
    <3>1. \A m \in Node, j \in Level : WasLinked(m) /\ next[m][j] # Head => next'[m][j] # Head
      BY <2>2
    <3>2. \A m \in Node : WasLinked(m) => WasLinked(m)' /\ height'[m] = height[m]
      BY <1>8
    <3> QED
      BY <2>1, <2>3, <3>1, <3>2, KeepsReach
<1>11. LeavesAlone(n)
  <2>1. ASSUME NEW m \in Node, NEW j \in Level, m # n, m \notin Chain(j)
        PROVE  m \notin Chain(j)' /\ next'[m][j] = next[m][j]
    <3>1. m # p \/ j # 0
      BY <1>6, <2>1, NodeFacts
    <3>2. next'[m][j] = next[m][j]
      <4>1. m \in Linkable
        BY DEF Linkable
      <4> QED
        BY <1>5, <2>1, <3>1, <4>1
    <3>3. m \notin Chain(j)'
      BY <1>6, <2>1
    <3> QED
      BY <3>2, <3>3
  <2> QED
    BY <2>1 DEF LeavesAlone
<1>12. Reached(n, 0)' /\ \A l \in Level : IF l < 1 THEN Reached(n, l)' ELSE n \notin Chain(l)'
  <2>1. Reached(n, 0)'
    <3>1. s # Head
      BY <1>3, NodeFacts
    <3>2. next'[n][0] = s /\ 0 < height'[n]
      BY <1>1, <1>5
    <3>3. WasLinked(n)' /\ n \in Chain(0)'
      BY <1>1, <1>6, <1>8
    <3>4. 0 \in Level' /\ n \in Node'
      BY <1>1, <1>4 DEF Level
    <3> QED
      BY <3>1, <3>2, <3>3, <3>4 DEF Reached
  <2>2. \A l \in Level : l < 1 <=> l = 0
    BY DEF Level
  <2> QED
    BY <1>1, <1>6, <2>1, <2>2
<1>13. UpDone(r, n, 1)'
  <2>1. UpAs(me, r, 1)'
    <3>1. UpAs(me, r, 1)
      OBVIOUS
    <3> QED
      BY <3>1 DEF UpAs, LeftAs
  <2>2. LocalType(me)' /\ Shape(me)' /\ BracketInv(me)' /\ NestInv(me)'
    BY <1>a DEF ThreadInv
  <2>3. SpliceInv(me)'
    BY <1>a, <1>10, SpliceKept DEF ThreadInv
  <2>4. WasLinked(n)' /\ 1 <= height'[n] /\ height'[n] <= me.sh
    <3>1. height[n] \in Nat
      BY <1>1, NodeFacts DEF Types
    <3> QED
      BY <1>1, <1>8, <3>1
  <2>5. 1 = me.i + 1
    BY <1>1
  <2>6. UpReady(me, n, 1)'
    BY <1>1, <1>12, <2>2, <2>3, <2>4, <2>5 DEF UpReady
  <2> QED
    BY <1>9, <2>1, <2>6, LevelUpPrime
<1>14. ThreadInv(r)' /\ (Building(r) <=> 1 < height[n])
  BY <1>13 DEF UpDone
<1>15. Threads'
  <2>1. \A u \in Thread \ {t} : Owner(th[u]) => th[u].n # n
    BY <1>1 DEF Owners, Owner
  <2> QED
    BY <1>10, <1>11, <1>14, <2>1, ThreadsStep
<1>16. Links'
  <2>1. ASSUME NEW m \in Linkable, NEW j \in Level, next'[m][j] # next[m][j], next'[m][j] \in Node
        PROVE  Reached(next[m][j], j)' /\ Follows(m, next'[m][j])
    <3>1. CASE m = p /\ j = 0
      <4>1. next'[m][j] = n
        BY <1>5, <3>1
      <4>2. Follows(p, n)
        BY <1>1, <1>3 DEF Follows
      <4> QED
        BY <1>12, <3>1, <4>1, <4>2
    <3>2. CASE m = n /\ j = 0
      <4>1. next'[m][j] = s
        BY <1>4, <1>5, <3>2
      <4>2. Follows(n, s)
        BY <1>1, <1>3, NodeFacts DEF Follows
      <4>3. Reached(s, 0)
        <5>1. s \in Node
          BY <2>1, <4>1
        <5> QED
          BY <1>1, <5>1, NodeFacts DEF ReachedOrTail
      <4>4. Reached(s, 0)'
        BY <1>4, <1>10, <4>3 DEF Keeps
      <4> QED
        BY <3>2, <4>1, <4>2, <4>4
    <3> QED
      BY <1>5, <2>1, <3>1, <3>2 DEF Linkable
  <2>2. \A m \in Node, l, j \in Level :
           WasLinked(m) /\ next'[m][l] # Head /\ next[m][l] = Head /\ j < l => Reached(m, j)
    <3>1. s # Head
      BY <1>3, NodeFacts
    <3>2. ASSUME NEW m \in Node, NEW l \in Level, m # n, next'[m][l] # next[m][l]
          PROVE  next[m][l] # Head
      <4>1. m = p /\ l = 0
        BY <1>5, <3>2 DEF Linkable
      <4> QED
        BY <1>2, <3>1, <4>1
    <3> QED
      BY <1>1, <3>2
  <2>3. \A j \in Level : \A m \in Chain(j)' : m \in Chain(j) \/ Reached(m, j)'
    BY <1>6, <1>12
  <2>4. \A m \in Node : WasLinked(m)' /\ ~WasLinked(m) =>
            Reached(m, 0)' /\ \A l \in Level : 0 < l /\ l < height'[m] => next'[m][l] = Head
    <3>1. \A l \in Level : 0 < l /\ l < height'[n] => next'[n][l] = Head
      <4>1. \A l \in Level : 0 < l => next'[n][l] = next[n][l]
        <5>1. \A l \in Level : 0 < l => l # 0
          BY DEF Level
        <5> QED
          BY <1>4, <1>5, <5>1
      <4> QED
        BY <1>1, <4>1
    <3> QED
      BY <1>8, <1>12, <3>1
  <2> QED
    BY <1>6, <1>9, <1>10, <2>1, <2>2, <2>3, <2>4, LinksStep
<1>17. Marks' /\ Marking' /\ Whole' /\ Owners'
  <2>1. ASSUME NEW m \in Node, NEW j \in Level, WasLinked(m)', j < height'[m]
        PROVE  \/ m \in Chain(j)'
               \/ deleting[m][j]
               \/ Building(r) /\ r.n = m /\ r.i <= j
               \/ WasLinked(m) /\ height'[m] = height[m] /\ m \notin Chain(j)
                  /\ ~(Building(me) /\ me.n = m /\ me.i <= j)
    <3>1. CASE m # n
      BY <1>1, <1>6, <1>8, <2>1, <3>1
    <3>2. CASE m = n /\ j = 0
      BY <1>6, <3>2
    <3>3. CASE m = n /\ j # 0
      <4>1. 1 <= j /\ 1 < height[n]
        BY <1>1, <2>1, <3>3 DEF Level, Types
      <4> QED
        BY <1>7, <1>14, <3>3, <4>1
    <3> QED
      BY <3>1, <3>2, <3>3
  <2>2. Owner(r) => Owner(me) /\ r.n = me.n
    BY <1>1, <1>7 DEF Owner
  <2> QED
    BY <1>8, <2>1, <2>2, RolesStep
<1>18. \A m \in Node, j \in Level : ~Handed(r, m, j) /\ ~Handed(me, m, j)
  BY <1>7 DEF Handed
<1>19. About(n, 0, me, r)
  BY <1>6, <1>18 DEF About
<1>20. \A u \in Thread, l \in Level : ~Handed(th[u], n, l)
  BY <1>1 DEF HandsApart
<1>21. HandsApart'
  <2>1. Building(r) => r.n \in Node /\ ~WasLinked(r.n) /\ r.i \in Nat
    BY <1>1, <1>7
  <2> QED
    BY <1>1, <1>4, <1>8, <1>18, <1>19, <1>20, <2>1, HandsStep
<1>22. Counts'
  <2>1. \A m \in Node : m # n => Counted(m)' = Counted(m)
    BY <1>19, CountedStep
  <2>2. Counted(n)' = IF \/ n \in Chain(0)' \/ Handed(r, n, 0)
                         \/ \E u \in Thread \ {t} : Handed(th[u], n, 0)
                      THEN Counted(n) \cup {0} ELSE Counted(n) \ {0}
    <3>1. n \in Node /\ 0 \in Level
      BY <1>4, <1>1
    <3> QED
      BY <1>19, <3>1, CountedStep
  <2>3. Counted(n) = {}
    BY <1>1, <1>20 DEF Counted
  <2>4. Counted(n)' = {0}
    BY <1>6, <2>2, <2>3
  <2>5. Cardinality(Counted(n)') = 1
    BY <2>4, FS_Singleton
  <2>6. ASSUME NEW m \in Node, WasLinked(m)'
        PROVE  refs'[m] = Cardinality(Counted(m)') /\ (m \in retired' <=> refs'[m] = 0)
    <3>1. CASE m = n
      BY <1>1, <2>5, <3>1
    <3>2. CASE m # n
      <4>1. WasLinked(m) /\ Counted(m)' = Counted(m)
        BY <1>8, <2>1, <2>6, <3>2
      <4> QED
        BY <4>1 DEF Counts
    <3> QED
      BY <3>1, <3>2
  <2>7. \A m \in retired' : m \in Node /\ WasLinked(m)'
    BY <1>8 DEF Counts
  <2> QED
    BY <2>6, <2>7 DEF Counts
<1>23. SetIsLevel0'
  <2>1. {m \in Chain(0)' : ~deleting'[m][0]} = {m \in Chain(0) : ~deleting[m][0]} \cup {n}
    BY <1>1, <1>4, <1>6
  <2>2. present' = {Key[m] : m \in {o \in Chain(0) : ~deleting[o][0]}} \cup {Key[n]}
    BY <1>1 DEF SetIsLevel0
  <2> QED
    BY <2>1, <2>2 DEF SetIsLevel0
<1> QED
  BY <1>6, <1>9, <1>15, <1>16, <1>17, <1>21, <1>22, <1>23

\* One more level of a node is marked.
LEMMA MarkDownOK ==
  \A me : ThreadInv(me) /\ me.pc = "mark" /\ me.i # 0 /\ deleting[me.n][me.i] =>
             ThreadInv([me EXCEPT !.i = me.i - 1])
<1> SUFFICES ASSUME NEW me, ThreadInv(me), me.pc = "mark", me.i # 0, deleting[me.n][me.i]
             PROVE  ThreadInv([me EXCEPT !.i = me.i - 1])
  OBVIOUS
<1> PICK r : r = [me EXCEPT !.i = me.i - 1]
  OBVIOUS
<1>1. LocalType(me) /\ Shape(me) /\ me.i \in Level /\ me.op \in {"erase", "erase_node"} /\ me.then = "none"
  BY DEF ThreadInv, NodeInv, Shape, Busy, Searching
<1>2. /\ DOMAIN r = Locals /\ r.i = me.i - 1 /\ r.pc = "mark" /\ r.op = me.op /\ r.k = me.k /\ r.n = me.n
      /\ r.prev = me.prev /\ r.nxt = me.nxt /\ r.sh = me.sh /\ r.lv = me.lv /\ r.target = me.target
      /\ r.x = me.x /\ r.y = me.y /\ r.z = me.z /\ r.after = me.after /\ r.then = me.then
      /\ r.res = me.res /\ r.mode = me.mode /\ r.probe = me.probe /\ r.bad = me.bad
      /\ r.fix = me.fix /\ r.tight = me.tight
  BY <1>1 DEF LocalType, Locals
<1>3. me.i - 1 \in Level /\ me.i - 1 \in Nat /\ \A j \in Level : me.i - 1 < j => j = me.i \/ me.i < j
  BY <1>1, NodeFacts DEF Level
<1>4. LocalType(r)
  BY <1>1, <1>2, <1>3 DEF LocalType
<1>5. Shape(r)
  BY <1>1, <1>2 DEF Shape, Busy, Searching, SpliceOps
<1>6. Hands(r) /\ SpliceInv(r)
  BY <1>2 DEF ThreadInv, Hands, SpliceInv, Searching
<1>7. BracketInv(r)
  BY <1>1, <1>2 DEF ThreadInv, BracketInv, Searching, Bracket, Low
<1>8. NestInv(r)
  BY <1>1, <1>2 DEF NestInv
<1>9. ~Fresh(r) /\ ~Building(r) /\ ~Owner(r)
  BY <1>1, <1>2 DEF Fresh, Building, Owner
<1>10. NodeInv(r)
  BY <1>1, <1>2, <1>3, <1>9 DEF ThreadInv, NodeInv
<1> QED
  BY <1>4, <1>5, <1>6, <1>7, <1>8, <1>10 DEF ThreadInv

\* The same of the state after the step.
LEMMA MarkDownPrime ==
  \A me : ThreadInv(me)' /\ me.pc = "mark" /\ me.i # 0 /\ deleting'[me.n][me.i] =>
             ThreadInv([me EXCEPT !.i = me.i - 1])'
<1>1. (\A me : ThreadInv(me) /\ me.pc = "mark" /\ me.i # 0 /\ deleting[me.n][me.i] =>
                  ThreadInv([me EXCEPT !.i = me.i - 1]))'
  BY MarkDownOK, PTL
<1> QED
  BY <1>1

\* BeginCutOK of all erases, and of the state after the step.
LEMMA BeginCutAll ==
  Types => \A me, h : ThreadInv(me) /\ me.pc = "mark" /\ deleting[me.n][0] /\ h = height[me.n] =>
                         ThreadInv(BeginCut(me, h)) /\ Goes(me, BeginCut(me, h))
BY BeginCutOK

\* The same of the state after the step.
LEMMA BeginCutPrime ==
  Types' => \A me, h : ThreadInv(me)' /\ me.pc = "mark" /\ deleting'[me.n][0] /\ h = height'[me.n] =>
                         ThreadInv(BeginCut(me, h))' /\ Goes(me, BeginCut(me, h))
<1>1. (Types => \A me, h : ThreadInv(me) /\ me.pc = "mark" /\ deleting[me.n][0] /\ h = height[me.n] =>
                         ThreadInv(BeginCut(me, h)) /\ Goes(me, BeginCut(me, h)))'
  BY BeginCutAll, PTL
<1> QED
  BY <1>1 DEF Goes, Fresh, Building, Owner, Busy, Searching

\* An erase marks a level of its node.
LEMMA MarkStep ==
  ASSUME ListIInv, NEW t \in Thread, NEW me, me = th[t], me.pc = "mark",
         NEW n, n = me.n, NEW i, i = me.i, deleting' = [deleting EXCEPT ![n][i] = TRUE],
         NEW r, Moves(t, r),
         Types' /\ Keeps /\ LeavesAlone(Tail) /\ ThreadInv(me)' => ThreadInv(r)',
         ~Owner(r), r.pc \notin Holding, i # 0 => r.pc = "mark" /\ r.n = n,
         present' = IF i = 0 /\ ~deleting[n][0] THEN present \ {me.k} ELSE present,
         UNCHANGED <<next, counts, height, now_height, plan>>
  PROVE  ListIInv'
<1> USE DEF ListIInv, counts
<1>0. ThreadInv(me)
  BY OwnerFacts
<1>1. n \in Node /\ me.k = Key[n] /\ Reached(n, 0) /\ i \in Level /\ \A j \in Level : i < j => deleting[n][j]
  BY <1>0 DEF ThreadInv, NodeInv
<1>2. WasLinked(n) /\ n # Head /\ n \in Linkable
  BY <1>1, NodeFacts DEF Reached, Linkable
<1>3. ~Owner(me) /\ ~Fresh(me) /\ ~Building(me) /\ ~Fresh(r) /\ ~Building(r)
  <2>1. me.op # "insert"
    BY <1>0 DEF ThreadInv, Shape
  <2> QED
    BY <2>1 DEF Owner, Fresh, Building
<1>4. /\ deleting'[n][i]
      /\ \A m \in Linkable, j \in Level : deleting'[m][j] <=> deleting[m][j] \/ (m = n /\ j = i)
  BY <1>1, <1>2 DEF Types
<1>5. \A m \in Node : WasLinked(m)' <=> WasLinked(m)
  BY <1>3, SameLinked
<1>6. Chains' /\ \A j \in Level : Chain(j)' = Chain(j)
  BY ChainsSame
<1>7. Types'
  BY <1>1, <1>2 DEF Types
<1>8. Keeps
  <2>1. \A m \in Node, j \in Level : deleting[m][j] => deleting'[m][j] /\ next'[m][j] = next[m][j]
    BY <1>4 DEF Linkable
  <2> QED
    BY <1>5, <1>6, <2>1, KeepsReach
<1>9. LeavesAlone(Tail)
  BY <1>6 DEF LeavesAlone
<1>10. Threads'
  <2>1. ThreadInv(me)'
    BY <1>0, <1>3, <1>8, <1>9, ThreadKept
  <2>2. ThreadInv(r)'
    BY <1>7, <1>8, <1>9, <2>1
  <2>3. \A u \in Thread \ {t} : Owner(th[u]) => th[u].n # Tail
    BY OwnerFacts, NodeFacts
  <2> QED
    BY <1>8, <1>9, <2>2, <2>3, ThreadsStep
<1>11. Links'
  BY <1>5, <1>6, <1>7, <1>8, LinksStep
<1>12. th'[t] = r /\ \A u \in Thread \ {t} : th'[u] = th[u]
  BY DEF Moves
<1>13. Marks'
  <2>1. \A l \in Level : ~deleting'[Head][l]
    BY <1>2, <1>4 DEF Marks, Linkable
  <2>2. \A m \in Node, l \in Level : deleting'[m][l] => WasLinked(m)'
    BY <1>2, <1>4, <1>5 DEF Marks, Linkable
  <2>3. \A m \in Node, l, j \in Level : deleting'[m][l] /\ l < j => deleting'[m][j]
    <3> SUFFICES ASSUME NEW m \in Node, NEW l \in Level, NEW j \in Level, deleting'[m][l], l < j
                 PROVE  deleting'[m][j]
      OBVIOUS
    <3>1. m \in Linkable
      BY DEF Linkable
    <3>2. deleting[m][j]
      <4>1. CASE deleting[m][l]
        BY <4>1 DEF Marks
      <4>2. CASE m = n /\ l = i
        BY <1>1, <4>2
      <4> QED
        BY <1>4, <3>1, <4>1, <4>2
    <3> QED
      BY <1>4, <3>1, <3>2
  <2> QED
    BY <2>1, <2>2, <2>3 DEF Marks, Level
<1>14. Marking'
  <2> SUFFICES ASSUME NEW m \in Node, deleting'[m][MaxHeight - 1], ~deleting'[m][0]
               PROVE  \E u \in Thread : th'[u].pc = "mark" /\ th'[u].n = m
    BY DEF Marking
  <2>1. ~deleting[m][0] /\ m \in Linkable
    BY <1>4, NodeFacts DEF Linkable
  <2>2. CASE m = n
    <3>1. i # 0
      BY <1>4, <2>2
    <3> QED
      BY <1>12, <2>2, <3>1
  <2>3. CASE m # n
    <3>1. deleting[m][MaxHeight - 1]
      BY <1>4, <2>1, <2>3, NodeFacts
    <3>2. PICK u \in Thread : th[u].pc = "mark" /\ th[u].n = m
      BY <2>1, <3>1 DEF Marking
    <3>3. th'[u] = th[u]
      BY <1>12, <2>3, <3>2
    <3> QED
      BY <3>2, <3>3
  <2> QED
    BY <2>2, <2>3
<1>15. Whole'
  <2> SUFFICES ASSUME NEW m \in Node, NEW l \in Level, WasLinked(m)', l < height'[m],
                      m \notin Chain(l)', ~deleting'[m][MaxHeight - 1]
               PROVE  \E u \in Thread : Building(th'[u]) /\ th'[u].n = m /\ th'[u].i <= l
    BY DEF Whole
  <2>1. ~deleting[m][MaxHeight - 1]
    BY <1>4, NodeFacts DEF Linkable
  <2>2. PICK u \in Thread : Building(th[u]) /\ th[u].n = m /\ th[u].i <= l
    BY <1>5, <1>6, <2>1 DEF Whole
  <2>3. th'[u] = th[u]
    BY <1>3, <1>12, <2>2
  <2> QED
    BY <2>2, <2>3
<1>16. Owners'
  <2> SUFFICES ASSUME NEW v \in Thread, NEW u \in Thread, Owner(th'[v]), Owner(th'[u]), th'[v].n = th'[u].n
               PROVE  v = u
    BY DEF Owners
  <2>1. v # t /\ u # t
    BY <1>12
  <2>2. th'[v] = th[v] /\ th'[u] = th[u]
    BY <1>12, <2>1
  <2> QED
    BY <2>2 DEF Owners
<1>17. About(Tail, 0, me, r) /\ Tail \notin Node
  <2>1. SameHands(me, r)
    BY NoHands DEF Holding
  <2> QED
    BY <1>6, <2>1, NodeFacts DEF About, SameHands
<1>18. HandsApart'
  BY <1>3, <1>5, <1>17, HandsStep
<1>19. Counts'
  <2>1. \A m \in Node : Counted(m)' = Counted(m)
    BY <1>17, CountedKept
  <2> QED
    BY <1>5, <2>1, CountsSame
<1>20. SetIsLevel0'
  <2>0. 0 \in Level /\ Chain(0)' = Chain(0) /\ Chain(0) \subseteq Linkable /\ IsChain(0, Chain(0))
    BY <1>6, NodeFacts DEF Chains, IsChain, Linkable
  <2>1. CASE i = 0 /\ ~deleting[n][0]
    <3>1. n \in Chain(0)
      BY <1>1, <1>2, <2>1 DEF Reached
    <3>2. {m \in Chain(0)' : ~deleting'[m][0]} = {m \in Chain(0) : ~deleting[m][0]} \ {n}
      BY <1>4, <2>0, <2>1
    <3>3. \A m \in Chain(0) : Key[m] = Key[n] => m = n
      BY <2>0, <3>1 DEF IsChain
    <3>4. {Key[m] : m \in {o \in Chain(0) : ~deleting[o][0]} \ {n}}
             = {Key[m] : m \in {o \in Chain(0) : ~deleting[o][0]}} \ {Key[n]}
      BY <3>3
    <3>5. present' = {Key[m] : m \in {o \in Chain(0) : ~deleting[o][0]}} \ {Key[n]}
      BY <1>1, <2>1 DEF SetIsLevel0
    <3> QED
      BY <3>2, <3>4, <3>5 DEF SetIsLevel0
  <2>2. CASE ~(i = 0 /\ ~deleting[n][0])
    <3>1. \A m \in Chain(0) : deleting'[m][0] <=> deleting[m][0]
      BY <1>4, <2>0, <2>2
    <3>2. present' = present
      BY <2>2
    <3> QED
      BY <2>0, <3>1, <3>2 DEF SetIsLevel0
  <2> QED
    BY <2>1, <2>2
<1> QED
  BY <1>6, <1>7, <1>10, <1>11, <1>13, <1>14, <1>15, <1>16, <1>18, <1>19, <1>20

\* r is the beginning of an insert of node n by a thread that was me: with a
\* fresh splice, or with the one that is left.
Begun(me, n, r) ==
    /\ LocalType(r) /\ r.op = "insert" /\ r.k = Key[n] /\ r.n = n /\ r.i = 0 /\ r.then = "link0"
    /\ \/ /\ r.pc = "read" /\ r.lv = r.sh - 1 /\ r.target = 0 /\ r.x = Head /\ r.after = Tail
          /\ r.sh = now_height
          /\ r.prev = [l \in 0 .. MaxHeight |-> Head] /\ r.nxt = [l \in 0 .. MaxHeight |-> Tail]
       \/ /\ r.pc = "valid" /\ r.lv = 0
          /\ r.sh = me.sh /\ r.sh >= now_height /\ r.prev = me.prev /\ r.nxt = me.nxt
Prepared(n) ==
    /\ n \in Node /\ height[n] > 0 /\ refs[n] = 1 /\ n \notin retired
    /\ \A l \in Level : 0 < l /\ l < height[n] => next[n][l] = Head

\* StartInsertOK of all inserts, and of the state after the step.
LEMMA StartInsertAll ==
  Types => \A me, n, r : ThreadInv(me) /\ me.pc = "idle" /\ Prepared(n) /\ Begun(me, n, r) => ThreadInv(r)
<1> SUFFICES ASSUME Types, NEW me, NEW n, NEW r, ThreadInv(me), me.pc = "idle", Prepared(n), Begun(me, n, r)
             PROVE  ThreadInv(r)
  OBVIOUS
<1>1. /\ n \in Node /\ height[n] > 0 /\ refs[n] = 1 /\ n \notin retired
      /\ \A l \in Level : 0 < l /\ l < height[n] => next[n][l] = Head
  BY DEF Prepared
<1>2. /\ LocalType(r) /\ r.op = "insert" /\ r.k = Key[n] /\ r.n = n /\ r.i = 0 /\ r.then = "link0"
      /\ \/ /\ r.pc = "read" /\ r.lv = r.sh - 1 /\ r.target = 0 /\ r.x = Head /\ r.after = Tail
            /\ r.sh = now_height
            /\ r.prev = [l \in 0 .. MaxHeight |-> Head] /\ r.nxt = [l \in 0 .. MaxHeight |-> Tail]
         \/ /\ r.pc = "valid" /\ r.lv = 0
            /\ r.sh = me.sh /\ r.sh >= now_height /\ r.prev = me.prev /\ r.nxt = me.nxt
  BY DEF Begun
<1> QED
  BY <1>1, <1>2, StartInsertOK

\* The same of the state after the step.
LEMMA StartInsertPrime ==
  Types' => \A me, n, r : ThreadInv(me)' /\ me.pc = "idle" /\ Prepared(n)' /\ Begun(me, n, r)' => ThreadInv(r)'
<1>1. (Types => \A me, n, r :
          ThreadInv(me) /\ me.pc = "idle" /\ Prepared(n) /\ Begun(me, n, r) => ThreadInv(r))'
  BY StartInsertAll, PTL
<1> QED
  BY <1>1

\* A node of no height is nobody's.
LEMMA Unowned ==
  ASSUME Types, Threads, NEW u \in Thread, Owner(th[u])
  PROVE  th[u].n \in Node /\ height[th[u].n] > 0
<1>1. CASE Fresh(th[u])
  BY <1>1, OwnerFacts DEF ThreadInv, NodeInv, Owner
<1>2. CASE Building(th[u])
  <2>1. WasLinked(th[u].n) /\ th[u].n \in Node
    BY <1>2, OwnerFacts
  <2> QED
    BY <2>1 DEF WasLinked
<1> QED
  BY <1>1, <1>2 DEF Owner

\* What concerns node n alone, which is not linked, links and unlinks no other.
LEMMA LinkedButOne ==
  ASSUME NEW t \in Thread, NEW me, me = th[t], NEW r, Moves(t, r), NEW n \in Node,
         Fresh(me) => me.n = n, Fresh(r) => r.n = n,
         \A m \in Node : m # n => height'[m] = height[m],
         ~WasLinked(n), ~WasLinked(n)'
  PROVE  \A m \in Node : WasLinked(m)' <=> WasLinked(m)
<1> SUFFICES ASSUME NEW m \in Node, m # n PROVE WasLinked(m)' <=> WasLinked(m)
  OBVIOUS
<1>1. WasLinked(m) <=> height[m] > 0 /\ \A u \in Thread : th[u].n = m => ~Fresh(th[u])
  BY WasLinkedIs
<1>2. WasLinked(m)' <=> height'[m] > 0 /\ \A u \in Thread : th'[u].n = m => ~Fresh(th'[u])
  BY WasLinkedPrime
<1>3. \A u \in Thread : (th'[u].n = m => ~Fresh(th'[u])) <=> (th[u].n = m => ~Fresh(th[u]))
  <2> SUFFICES ASSUME NEW u \in Thread
               PROVE  (th'[u].n = m => ~Fresh(th'[u])) <=> (th[u].n = m => ~Fresh(th[u]))
    OBVIOUS
  <2>1. CASE u = t
    <3>1. th'[u] = r
      BY <2>1 DEF Moves
    <3> QED
      BY <2>1, <3>1
  <2>2. CASE u # t
    <3>1. th'[u] = th[u]
      BY <2>2 DEF Moves
    <3> QED
      BY <3>1
  <2> QED
    BY <2>1, <2>2
<1> QED
  BY <1>1, <1>2, <1>3

\* The node of an insert is prepared, and the insert begins.
LEMMA PrepareStep ==
  ASSUME ListIInv, NEW t \in Thread, NEW me, me = th[t], me.pc = "idle",
         NEW n \in Node, NEW h \in 1 .. MaxHeight, Prepare(n, h),
         NEW r, Moves(t, r), Begun(me, n, r)', present' = present,
         plan' \in [Thread -> [left : Nat, ops : SUBSET STRING, nodes : SUBSET Node]]
  PROVE  ListIInv'
<1> USE DEF ListIInv
<1>0. ThreadInv(me)
  BY OwnerFacts
<1>1. ~Fresh(me) /\ ~Building(me) /\ ~Owner(me)
  <2>1. me.op = "none"
    BY <1>0 DEF ThreadInv, Shape
  <2> QED
    BY <2>1 DEF Owner, Fresh, Building
<1>2. /\ LocalType(r) /\ r.op = "insert" /\ r.n = n /\ r.then = "link0" /\ r.pc \in {"read", "valid"}
      /\ Fresh(r) /\ ~Building(r)
  <2>1. LocalType(r) /\ r.op = "insert" /\ r.n = n /\ r.then = "link0" /\ r.pc \in {"read", "valid"}
    BY DEF Begun, LocalType
  <2> QED
    BY <2>1 DEF Fresh, Building
<1>3. height[n] = 0 /\ n \in Linkable /\ n # Head /\ h \in Nat /\ h > 0 /\ h <= MaxHeight /\ MaxHeight \in Nat
  BY NodeFacts DEF Prepare, Linkable
<1>4. ~WasLinked(n) /\ ~WasLinked(n)'
  <2>1. ~WasLinked(n)
    BY <1>3 DEF WasLinked
  <2>2. th'[t] = r
    BY DEF Moves
  <2> QED
    BY <1>2, <2>1, <2>2, WasLinkedPrime
<1>5. /\ height'[n] = h /\ refs'[n] = 1
      /\ \A m \in Node : m # n => height'[m] = height[m] /\ refs'[m] = refs[m]
  BY DEF Prepare, Types
<1>6. /\ next'[n] = [l \in Level |-> IF 0 < l /\ l < h THEN Head ELSE Tail]
      /\ \A m \in Linkable : m # n => next'[m] = next[m]
  BY <1>3 DEF Prepare, Types
<1>7. \A m \in Node : WasLinked(m)' <=> WasLinked(m)
  BY <1>1, <1>2, <1>4, <1>5, LinkedButOne
<1>8. \A l \in Level : n \notin Chain(l) /\ ~deleting[n][l]
  BY <1>3, <1>4 DEF Links, Reached, Marks
<1>9. Chains' /\ \A j \in Level : Chain(j)' = Chain(j)
  <2>1. \A j \in Level : \A x \in Chain(j) \cup {Head} : x \in Linkable /\ x # n
    BY <1>3, <1>8 DEF Chains, IsChain, Linkable
  <2> QED
    BY <1>6, <2>1, ChainsSame
<1>10. Types'
  <2>1. next' \in [Linkable -> [Level -> Linkable \cup {Tail}]]
    <3>1. [l \in Level |-> IF 0 < l /\ l < h THEN Head ELSE Tail] \in [Level -> Linkable \cup {Tail}]
      BY DEF Linkable
    <3> QED
      BY <3>1 DEF Types, Prepare
  <2>2. height' \in [Node -> 0 .. MaxHeight] /\ refs' \in [Node -> Nat]
    BY <1>3 DEF Types, Prepare
  <2>3. now_height' \in 1 .. MaxHeight /\ now_height' >= h /\ now_height' >= now_height
    BY <1>3 DEF Types, Prepare, Larger
  <2>4. \A m \in Node : height'[m] <= now_height'
    <3> SUFFICES ASSUME NEW m \in Node PROVE height'[m] <= now_height'
      OBVIOUS
    <3>1. height[m] \in Nat /\ height[m] <= now_height /\ now_height \in Nat /\ now_height' \in Nat
      BY <1>3, <2>3 DEF Types
    <3> QED
      BY <1>3, <1>5, <2>3, <3>1
  <2>5. deleting' = deleting
    BY DEF Prepare
  <2> QED
    BY <2>1, <2>2, <2>3, <2>4, <2>5 DEF Types
<1>11. deleting' = deleting /\ retired' = retired
  BY DEF Prepare
<1>12. \A m \in Node : m # n => m \in Linkable /\ next'[m] = next[m]
  BY <1>6 DEF Linkable
<1>13. Keeps
  <2>1. \A m \in Node : WasLinked(m) => m # n
    BY <1>4
  <2>2. \A m \in Node, j \in Level : deleting[m][j] => m # n
    BY <1>8
  <2> QED
    BY <1>5, <1>7, <1>9, <1>11, <1>12, <2>1, <2>2, KeepsReach
<1>14. LeavesAlone(n)
  BY <1>5, <1>9, <1>11, <1>12 DEF LeavesAlone
<1>15. Prepared(n)'
  BY <1>3, <1>5, <1>6, <1>11, <1>4 DEF Prepared, Counts, Level
<1>16. \A u \in Thread : Owner(th[u]) => th[u].n # n
  BY <1>3, Unowned
<1>17. Threads'
  <2>1. ThreadInv(me)'
    BY <1>0, <1>1, <1>13, <1>14, ThreadKept
  <2>2. ThreadInv(r)'
    BY <1>10, <1>15, <2>1, StartInsertPrime
  <2> QED
    BY <1>13, <1>14, <1>16, <2>2, ThreadsStep
<1>18. Links'
  <2>1. ASSUME NEW m \in Linkable, NEW j \in Level, next'[m][j] # next[m][j] PROVE next'[m][j] \notin Node
    <3>1. m = n
      BY <1>6, <2>1
    <3> QED
      BY <1>6, <3>1, NodeFacts
  <2>2. \A m \in Node, l, j \in Level :
           WasLinked(m) /\ next'[m][l] # Head /\ next[m][l] = Head /\ j < l => Reached(m, j)
    BY <1>4, <1>12
  <2> QED
    BY <1>7, <1>9, <1>10, <1>13, <2>1, <2>2, LinksStep
<1>19. Marks' /\ Marking' /\ Whole' /\ Owners'
  <2>1. \A m \in Node, j \in Level : WasLinked(m)' /\ j < height'[m] =>
            \/ m \in Chain(j)'
            \/ deleting[m][j]
            \/ Building(r) /\ r.n = m /\ r.i <= j
            \/ WasLinked(m) /\ height'[m] = height[m] /\ m \notin Chain(j)
               /\ ~(Building(me) /\ me.n = m /\ me.i <= j)
    BY <1>1, <1>4, <1>5, <1>7, <1>9
  <2>2. me.pc # "mark"
    OBVIOUS
  <2>3. \A u \in Thread : Owner(th[u]) => th[u].n # r.n
    BY <1>2, <1>16
  <2> QED
    BY <1>7, <1>11, <2>1, <2>2, <2>3, RolesStep
<1>20. About(Tail, 0, me, r) /\ Tail \notin Node
  <2>1. SameHands(me, r)
    BY <1>2, NoHands DEF Holding
  <2> QED
    BY <1>9, <2>1, NodeFacts DEF About, SameHands
<1>21. HandsApart'
  BY <1>1, <1>2, <1>7, <1>20, HandsStep
<1>22. Counts'
  <2>1. \A m \in Node : Counted(m)' = Counted(m)
    BY <1>20, CountedKept
  <2>2. \A m \in Node : WasLinked(m)' => refs'[m] = Cardinality(Counted(m)') /\ (m \in retired' <=> refs'[m] = 0)
    <3> SUFFICES ASSUME NEW m \in Node, WasLinked(m)'
                 PROVE  refs'[m] = Cardinality(Counted(m)') /\ (m \in retired' <=> refs'[m] = 0)
      OBVIOUS
    <3>1. WasLinked(m) /\ m # n /\ Counted(m)' = Counted(m) /\ refs'[m] = refs[m]
      BY <1>4, <1>5, <1>7, <2>1
    <3> QED
      BY <1>11, <3>1 DEF Counts
  <2>3. \A m \in retired' : m \in Node /\ WasLinked(m)'
    BY <1>7, <1>11 DEF Counts
  <2>4. \A m \in Node : height'[m] = 0 => refs'[m] = 0
    BY <1>3, <1>5 DEF Counts
  <2> QED
    BY <2>2, <2>3, <2>4 DEF Counts
<1>23. SetIsLevel0'
  BY <1>9, <1>11, NodeFacts, SetStep
<1> QED
  BY <1>9, <1>10, <1>17, <1>18, <1>19, <1>21, <1>22, <1>23

\* The node of a refused insert is freed.
LEMMA RefusedStep ==
  ASSUME ListIInv, NEW t \in Thread, NEW me, me = th[t], Refused(t),
         NEW r, Moves(t, r), ThreadInv(r), ~Fresh(r), ~Building(r), r.pc = "idle",
         height' = [height EXCEPT ![me.n] = 0], refs' = [refs EXCEPT ![me.n] = 0],
         UNCHANGED <<links, retired, present, now_height, plan>>
  PROVE  ListIInv'
<1> USE DEF ListIInv, links
<1>0. ThreadInv(me)
  BY OwnerFacts
<1> PICK n : n = me.n
  OBVIOUS
<1>1. me.pc = "done" /\ Fresh(me) /\ ~Building(me) /\ n \in Node /\ ~WasLinked(n) /\ ~Owner(r)
  <2>1. me.pc = "done" /\ me.op = "insert" /\ ~me.res
    BY DEF Refused
  <2>2. Fresh(me) /\ ~Building(me) /\ ~Owner(r)
    BY <2>1 DEF Fresh, Building, Busy, Searching, Owner
  <2> QED
    BY <2>1, <2>2, OwnerFacts
<1>2. /\ height'[n] = 0 /\ refs'[n] = 0
      /\ \A m \in Node : m # n => height'[m] = height[m] /\ refs'[m] = refs[m]
  BY <1>1 DEF Types
<1>3. ~WasLinked(n)'
  BY <1>1, <1>2, WasLinkedPrime
<1>4. \A m \in Node : WasLinked(m)' <=> WasLinked(m)
  BY <1>1, <1>2, <1>3, LinkedButOne
<1>5. Chains' /\ \A j \in Level : Chain(j)' = Chain(j)
  BY ChainsSame
<1>6. Types'
  <2>1. height' \in [Node -> 0 .. MaxHeight] /\ refs' \in [Node -> Nat]
    <3>1. 0 \in 0 .. MaxHeight /\ 0 \in Nat
      BY NodeFacts
    <3>2. height \in [Node -> 0 .. MaxHeight] /\ refs \in [Node -> Nat]
      BY DEF Types
    <3>3. height' \in [Node -> 0 .. MaxHeight]
      BY <3>1, <3>2
    <3>4. refs' \in [Node -> Nat]
      BY <3>1, <3>2
    <3> QED
      BY <3>3, <3>4
  <2>2. \A m \in Node : height'[m] <= now_height
    <3> SUFFICES ASSUME NEW m \in Node PROVE height'[m] <= now_height
      OBVIOUS
    <3>1. height[m] <= now_height /\ now_height \in 1 .. MaxHeight
      BY DEF Types
    <3> QED
      BY <1>2, <3>1, NodeFacts
  <2> QED
    BY <2>1, <2>2 DEF Types
<1>7. Keeps
  BY <1>2, <1>3, <1>4, <1>5, KeepsReach
<1>8. LeavesAlone(n)
  BY <1>2, <1>5 DEF LeavesAlone
<1>9. \A u \in Thread \ {t} : Owner(th[u]) => th[u].n # n
  BY <1>1 DEF Owners, Owner
<1>10. Threads'
  <2>1. ThreadInv(r)'
    BY <1>1, <1>7, <1>8, ThreadKept
  <2> QED
    BY <1>7, <1>8, <1>9, <2>1, ThreadsStep
<1>11. Links'
  BY <1>4, <1>5, <1>6, <1>7, LinksStep
<1>12. Marks' /\ Marking' /\ Whole' /\ Owners'
  <2>1. \A m \in Node, j \in Level : WasLinked(m)' /\ j < height'[m] =>
            \/ m \in Chain(j)'
            \/ deleting[m][j]
            \/ Building(r) /\ r.n = m /\ r.i <= j
            \/ WasLinked(m) /\ height'[m] = height[m] /\ m \notin Chain(j)
               /\ ~(Building(me) /\ me.n = m /\ me.i <= j)
    BY <1>1, <1>2, <1>3, <1>4, <1>5
  <2>2. me.pc # "mark"
    BY <1>1
  <2> QED
    BY <1>1, <1>4, <2>1, <2>2, RolesStep
<1>13. About(Tail, 0, me, r) /\ Tail \notin Node
  <2>1. SameHands(me, r)
    BY <1>1, NoHands DEF Holding
  <2> QED
    BY <1>5, <2>1, NodeFacts DEF About, SameHands
<1>14. HandsApart'
  BY <1>1, <1>4, <1>13, HandsStep
<1>15. Counts'
  <2>1. \A m \in Node : Counted(m)' = Counted(m)
    BY <1>13, CountedKept
  <2>2. \A m \in Node : WasLinked(m)' => refs'[m] = Cardinality(Counted(m)') /\ (m \in retired' <=> refs'[m] = 0)
    <3> SUFFICES ASSUME NEW m \in Node, WasLinked(m)'
                 PROVE  refs'[m] = Cardinality(Counted(m)') /\ (m \in retired' <=> refs'[m] = 0)
      OBVIOUS
    <3>1. WasLinked(m) /\ m # n /\ Counted(m)' = Counted(m) /\ refs'[m] = refs[m]
      BY <1>1, <1>2, <1>4, <2>1
    <3> QED
      BY <3>1 DEF Counts
  <2>3. \A m \in retired' : m \in Node /\ WasLinked(m)'
    BY <1>4 DEF Counts
  <2>4. \A m \in Node : height'[m] = 0 => refs'[m] = 0
    BY <1>2 DEF Counts
  <2> QED
    BY <2>2, <2>3, <2>4 DEF Counts
<1>16. SetIsLevel0'
  BY <1>5, NodeFacts, SetStep
<1> QED
  BY <1>5, <1>6, <1>10, <1>11, <1>12, <1>14, <1>15, <1>16

-------------------------------------------------------------------------------
\* A step of a search, or between two.
LEMMA GoesStep ==
  ASSUME ListIInv, NEW t \in Thread, NEW me, me = th[t], NEW r, Put(t, r), ThreadInv(r), Goes(me, r),
         me.pc \notin Holding, me.pc # "mark", UNCHANGED <<links, counts, keys, call>>
  PROVE  ListIInv'
<1>1. Moves(t, r)
  BY PutMoves DEF ListIInv, Threads
<1>2. SameHands(me, r)
  BY NoHands DEF Goes, Holding
<1>3. /\ Fresh(r) <=> Fresh(me)
      /\ Fresh(r) => r.n = me.n
      /\ Building(r) => Building(me) /\ r.n = me.n /\ r.i = me.i
      /\ Building(me) => Building(r)
  BY DEF Goes, Owner
<1>4. plan' \in [Thread -> [left : Nat, ops : SUBSET STRING, nodes : SUBSET Node]]
  BY DEF ListIInv, Types, call
<1>5. UNCHANGED <<links, counts, height, now_height, present>>
  BY DEF keys, call
<1> QED
  BY <1>1, <1>2, <1>3, <1>4, <1>5, QuietStep

\* What a search has in its hands, and what is ahead of that.
LEMMA SearchFacts ==
  ASSUME ListIInv, NEW t \in Thread, NEW me, me = th[t], me.pc \in Searching
  PROVE  /\ Types /\ Chains /\ Links /\ ThreadInv(me) /\ me.lv \in Level
         /\ ReachedOrTail(next[me.x][me.lv], me.lv) /\ Follows(me.x, next[me.x][me.lv])
         /\ me.pc # "read" =>
               /\ me.y \in Node /\ Reached(me.y, me.lv) /\ ReachedOrTail(me.y, me.lv) /\ Follows(me.x, me.y)
               /\ ReachedOrTail(next[me.y][me.lv], me.lv) /\ Follows(me.x, next[me.y][me.lv])
               /\ next[me.y][me.lv] \in Some
<1> USE DEF ListIInv
<1>1. ThreadInv(me)
  BY OwnerFacts
<1>2. me.lv \in Level /\ Reached(me.x, me.lv)
  BY <1>1 DEF ThreadInv, Shape, Hands
<1>3. me.x \in Linkable /\ ReachedOrTail(next[me.x][me.lv], me.lv) /\ Follows(me.x, next[me.x][me.lv])
  BY <1>2, ReachFacts
<1>4. ASSUME me.pc # "read"
      PROVE  /\ me.y \in Node /\ Reached(me.y, me.lv) /\ ReachedOrTail(me.y, me.lv) /\ Follows(me.x, me.y)
             /\ ReachedOrTail(next[me.y][me.lv], me.lv) /\ Follows(me.x, next[me.y][me.lv])
             /\ next[me.y][me.lv] \in Some
  <2>1. me.y \in Node /\ Reached(me.y, me.lv) /\ Follows(me.x, me.y)
    BY <1>1, <1>4 DEF ThreadInv, Hands
  <2> PICK z : z = next[me.y][me.lv]
    OBVIOUS
  <2>2. ReachedOrTail(z, me.lv) /\ Follows(me.y, z) /\ z \in Some
    BY <1>2, <2>1, ReachFacts
  <2>3. Follows(me.x, z)
    <3>1. CASE z = Tail
      BY <3>1 DEF Follows
    <3>2. CASE z # Tail
      <4>1. z \in Node /\ Key[me.y] < Key[z] /\ (me.x = Head \/ (me.x \in Node /\ Key[me.x] < Key[me.y]))
        BY <1>3, <2>1, <2>2, <3>2, NodeFacts DEF Follows, Linkable
      <4> QED
        BY <2>1, <4>1, NodeFacts DEF Follows
    <3> QED
      BY <3>1, <3>2
  <2> QED
    BY <2>1, <2>2, <2>3 DEF ReachedOrTail
<1> QED
  BY <1>1, <1>2, <1>3, <1>4

\* Read.
LEMMA ReadStep == ASSUME ListIInv, NEW t \in Thread, Read(t) PROVE ListIInv'
<1> PICK me : me = th[t]
  OBVIOUS
<1>1. me.pc = "read"
  BY DEF Read
<1> PICK y : y = next[me.x][me.lv]
  OBVIOUS
<1>2. /\ Types /\ Chains /\ Links /\ ThreadInv(me) /\ me.pc \in Searching
      /\ ReachedOrTail(y, me.lv) /\ Follows(me.x, y)
  BY <1>1, SearchFacts DEF Searching
<1>3. /\ ThreadInv(SkipFrom(me, y)) /\ Goes(me, SkipFrom(me, y))
      /\ ThreadInv(CheckNext(me, y)) /\ Goes(me, CheckNext(me, y))
  BY <1>2, SkipCheckOK
<1> PICK r : r = IF deleting[me.x][me.lv] THEN SkipFrom(me, y) ELSE CheckNext(me, y)
  OBVIOUS
<1>4. ThreadInv(r) /\ Goes(me, r)
  BY <1>3
<1>5. Put(t, r) /\ UNCHANGED <<links, counts, keys, call>>
  BY DEF Read
<1> QED
  BY <1>1, <1>4, <1>5, GoesStep DEF Holding

\* Skip.
LEMMA SkipStep == ASSUME ListIInv, NEW t \in Thread, Skip(t) PROVE ListIInv'
<1> PICK me : me = th[t]
  OBVIOUS
<1>1. me.pc = "skip"
  BY DEF Skip
<1> PICK y : y = next[me.y][me.lv]
  OBVIOUS
<1>2. /\ Types /\ Chains /\ Links /\ ThreadInv(me) /\ me.pc \in Searching
      /\ ReachedOrTail(me.y, me.lv) /\ Follows(me.x, me.y)
      /\ ReachedOrTail(y, me.lv) /\ Follows(me.x, y)
  BY <1>1, SearchFacts DEF Searching
<1>3. ThreadInv(SkipFrom(me, y)) /\ Goes(me, SkipFrom(me, y))
  BY <1>2, SkipCheckOK
<1>4. ThreadInv(Came(me, me.y)) /\ Goes(me, Came(me, me.y))
  BY <1>2, CameOK
<1> PICK r : r = IF deleting[me.y][me.lv] THEN SkipFrom(me, y) ELSE Came(me, me.y)
  OBVIOUS
<1>5. ThreadInv(r) /\ Goes(me, r)
  BY <1>3, <1>4
<1>6. Put(t, r) /\ UNCHANGED <<links, counts, keys, call>>
  BY DEF Skip
<1> QED
  BY <1>1, <1>5, <1>6, GoesStep DEF Holding

\* A search has seen that the node ahead is marked.
LEMMA CheckedOK ==
  ASSUME NEW me, ThreadInv(me), me.pc = "check", deleting[me.y][me.lv],
         NEW z, z = next[me.y][me.lv], z \in Some, ReachedOrTail(z, me.lv), Follows(me.x, z)
  PROVE  LET r == [me EXCEPT !.pc = "unlink", !.z = z] IN ThreadInv(r) /\ Goes(me, r)
<1> PICK r : r = [me EXCEPT !.pc = "unlink", !.z = z]
  OBVIOUS
<1>0. LocalType(me)
  BY DEF ThreadInv
<1>1. /\ DOMAIN r = Locals /\ r.pc = "unlink" /\ r.z = z /\ r.op = me.op /\ r.k = me.k /\ r.n = me.n
      /\ r.prev = me.prev /\ r.nxt = me.nxt /\ r.sh = me.sh /\ r.lv = me.lv /\ r.target = me.target
      /\ r.x = me.x /\ r.y = me.y /\ r.i = me.i /\ r.after = me.after /\ r.then = me.then
      /\ r.res = me.res /\ r.mode = me.mode /\ r.probe = me.probe /\ r.bad = me.bad
      /\ r.fix = me.fix /\ r.tight = me.tight
  BY <1>0 DEF LocalType, Locals
<1>2. LocalType(r)
  BY <1>0, <1>1 DEF LocalType, Busy, Searching
<1>3. Shape(r)
  BY <1>1 DEF ThreadInv, Shape, Busy, Searching, SpliceOps
<1>4. Hands(r)
  BY <1>1 DEF ThreadInv, Hands, Searching
<1>5. SpliceInv(r)
  BY <1>1 DEF ThreadInv, SpliceInv
<1>6. BracketInv(r) /\ NestInv(r)
  <2>1. r.pc \in Searching /\ me.pc \in Searching
    BY <1>1 DEF Searching
  <2> QED
    BY <1>1, <2>1 DEF ThreadInv, BracketInv, Bracket, Low, NestInv, Searching
<1>7. (Fresh(r) <=> Fresh(me)) /\ (Building(r) <=> Building(me))
  BY <1>1 DEF Fresh, Building, Busy, Searching
<1>8. NodeInv(r)
  BY <1>1, <1>7 DEF ThreadInv, NodeInv, Owner, Busy, Searching
<1> QED
  BY <1>1, <1>2, <1>3, <1>4, <1>5, <1>6, <1>7, <1>8 DEF ThreadInv, Goes

\* Check.
LEMMA CheckStep == ASSUME ListIInv, NEW t \in Thread, Check(t) PROVE ListIInv'
<1> PICK me : me = th[t]
  OBVIOUS
<1>1. me.pc = "check"
  BY DEF Check
<1> PICK y : y = next[me.y][me.lv]
  OBVIOUS
<1>2. /\ Types /\ Chains /\ Links /\ ThreadInv(me) /\ me.pc \in Searching
      /\ ReachedOrTail(me.y, me.lv) /\ Follows(me.x, me.y)
      /\ y \in Some /\ ReachedOrTail(y, me.lv) /\ Follows(me.x, y)
  BY <1>1, SearchFacts DEF Searching
<1> PICK c : c = [me EXCEPT !.pc = "unlink", !.z = y]
  OBVIOUS
<1>3. deleting[me.y][me.lv] => ThreadInv(c) /\ Goes(me, c)
  BY <1>1, <1>2, CheckedOK
<1>4. ThreadInv(Came(me, me.y)) /\ Goes(me, Came(me, me.y))
  BY <1>2, CameOK
<1> PICK r : r = IF deleting[me.y][me.lv] THEN c ELSE Came(me, me.y)
  OBVIOUS
<1>5. ThreadInv(r) /\ Goes(me, r)
  BY <1>3, <1>4
<1>6. Put(t, r) /\ UNCHANGED <<links, counts, keys, call>>
  BY DEF Check
<1> QED
  BY <1>1, <1>5, <1>6, GoesStep DEF Holding

\* Unlink.
LEMMA UnlinkStep == ASSUME ListIInv, NEW t \in Thread, Unlink(t) PROVE ListIInv'
<1> PICK me : me = th[t]
  OBVIOUS
<1>1. me.pc = "unlink"
  BY DEF Unlink
<1> PICK y : y = next[me.x][me.lv]
  OBVIOUS
<1>2. /\ Types /\ Chains /\ Links /\ ThreadInv(me) /\ me.pc \in Searching /\ me.lv \in Level
      /\ me.y \in Node /\ Reached(me.y, me.lv) /\ ReachedOrTail(y, me.lv) /\ Follows(me.x, y)
  BY <1>1, SearchFacts DEF Searching
<1>3. /\ Reached(me.x, me.lv) /\ ReachedOrTail(me.z, me.lv) /\ Follows(me.x, me.z)
      /\ deleting[me.y][me.lv] /\ next[me.y][me.lv] = me.z
  BY <1>1, <1>2 DEF ThreadInv, Hands
<1>4. CASE CanCas(me.x, me.lv, me.y)
  <2> PICK r : r = [me EXCEPT !.pc = "unref"]
    OBVIOUS
  <2>1. OnlyPc(me, r, "unref")
    BY <1>2, OnlyPcIs DEF ThreadInv, Busy, Searching
  <2>2. ThreadInv(r) /\ (Fresh(r) <=> Fresh(me)) /\ (Building(r) <=> Building(me))
    BY <1>1, <1>2, <2>1, PcOK
  <2>3. r.n = me.n /\ r.i = me.i /\ r.pc = "unref" /\ r.y = me.y /\ r.lv = me.lv
    BY <2>1, OnlyPcFields
  <2>4. Put(t, r) /\ next' = [next EXCEPT ![me.x][me.lv] = me.z] /\ UNCHANGED <<deleting, counts, keys, call>>
    BY <1>4 DEF Unlink
  <2>5. Moves(t, r)
    BY <2>4, PutMoves DEF ListIInv, Threads
  <2>6. Takes(me, r, me.y, me.lv)
    BY <1>1, <2>3 DEF Takes, Handed
  <2>7. Relinks(me.x, me.lv, next[me.y][me.lv])
    BY <1>3, <2>4 DEF Relinks
  <2>8. UNCHANGED <<deleting, counts, height, now_height, plan, present>>
    BY <2>4 DEF keys, call
  <2> QED
    <3>1. ThreadInv(r) /\ (Fresh(r) <=> Fresh(me)) /\ (Building(r) <=> Building(me)) /\ r.n = me.n /\ r.i = me.i
      BY <2>2, <2>3
    <3>2. /\ me.lv \in Level /\ Reached(me.x, me.lv) /\ me.y \in Node /\ deleting[me.y][me.lv]
          /\ me.pc # "mark"
      BY <1>1, <1>2, <1>3
    <3> QED
      BY <1>4, <2>5, <2>6, <2>7, <2>8, <3>1, <3>2, TakeOutStep
<1>5. CASE ~CanCas(me.x, me.lv, me.y)
  <2>1. /\ ThreadInv(SkipFrom(me, me.z)) /\ Goes(me, SkipFrom(me, me.z))
        /\ ThreadInv(CheckNext(me, y)) /\ Goes(me, CheckNext(me, y))
    BY <1>2, <1>3, SkipCheckOK
  <2> PICK r : r = IF deleting[me.x][me.lv] THEN SkipFrom(me, me.z) ELSE CheckNext(me, y)
    OBVIOUS
  <2>2. ThreadInv(r) /\ Goes(me, r)
    BY <2>1
  <2>3. Put(t, r) /\ UNCHANGED <<links, counts, keys, call>>
    BY <1>5 DEF Unlink, links
  <2> QED
    BY <1>1, <2>2, <2>3, GoesStep DEF Holding
<1> QED
  BY <1>4, <1>5

\* Unref.
LEMMA UnrefStep == ASSUME ListIInv, NEW t \in Thread, Unref(t) PROVE ListIInv'
<1> PICK me : me = th[t]
  OBVIOUS
<1>1. me.pc = "unref"
  BY DEF Unref
<1>2. /\ Types /\ Chains /\ Links /\ ThreadInv(me) /\ me.pc \in Searching /\ me.lv \in Level /\ me.y \in Node
  BY <1>1, SearchFacts DEF Searching
<1>3. ReachedOrTail(me.z, me.lv) /\ Follows(me.x, me.z)
  BY <1>1, <1>2 DEF ThreadInv, Hands
<1> PICK r : r = CheckNext(me, me.z)
  OBVIOUS
<1>4. ThreadInv(r) /\ Goes(me, r)
  BY <1>2, <1>3, SkipCheckOK
<1>5. Put(t, r) /\ DecreaseReference(me.y) /\ UNCHANGED <<links, keys, call>>
  BY DEF Unref
<1>6. Moves(t, r)
  BY <1>5, PutMoves DEF ListIInv, Threads
<1>7. \A n \in Node, j \in Level : ~Handed(r, n, j) /\ (Handed(me, n, j) <=> n = me.y /\ j = me.lv)
  BY <1>1, <1>4 DEF Handed, Goes
<1>8. /\ Fresh(r) <=> Fresh(me)
      /\ Building(r) <=> Building(me)
      /\ Owner(me) => r.n = me.n /\ r.i = me.i
  BY <1>4 DEF Goes
<1>9. UNCHANGED <<links, height, now_height, plan, present>> /\ me.pc # "mark"
  BY <1>1, <1>5 DEF keys, call
<1> QED
  BY <1>2, <1>4, <1>5, <1>6, <1>7, <1>8, <1>9, DropStep

\* A good predecessor of a splice is before or behind the key.
LEMMA ProbeStep == ASSUME ListIInv, NEW t \in Thread, Probe(t) PROVE ListIInv'
<1> PICK me : me = th[t]
  OBVIOUS
<1>1. me.pc = "probe"
  BY DEF Probe
<1>2. Types /\ Chains /\ Links /\ ThreadInv(me)
  BY OwnerFacts DEF ListIInv
<1> PICK a : a = [me EXCEPT !.probe = @ + 1]
  OBVIOUS
<1> PICK b : b = [Search(me, me.probe - 1, me.target, me.prev[me.probe], me.nxt[me.probe]) EXCEPT !.probe = 0]
  OBVIOUS
<1>3. /\ me.prev[me.probe] # Head => ThreadInv(a) /\ Goes(me, a)
      /\ ThreadInv(b) /\ Goes(me, b)
  BY <1>1, <1>2, ProbeOK
<1> PICK r : r = IF me.prev[me.probe] # Head /\ deleting[me.prev[me.probe]][me.probe] THEN a ELSE b
  OBVIOUS
<1>4. ThreadInv(r) /\ Goes(me, r)
  BY <1>3
<1>5. Put(t, r) /\ UNCHANGED <<links, counts, keys, call>>
  BY DEF Probe
<1> QED
  BY <1>1, <1>4, <1>5, GoesStep DEF Holding

\* A splice used again is looked through.
LEMMA ValidateStep == ASSUME ListIInv, NEW t \in Thread, Validate(t) PROVE ListIInv'
<1> PICK me : me = th[t]
  OBVIOUS
<1> PICK l : l = me.lv
  OBVIOUS
<1>1. me.pc = "valid"
  BY DEF Validate
<1>2. Types /\ Chains /\ Links /\ ThreadInv(me)
  BY OwnerFacts DEF ListIInv
<1> PICK up : up = IF next[me.prev[l]][l] # me.nxt[l] THEN l + 1
              ELSE IF me.prev[l] # Head /\ ~Before(me.prev[l], me.k) THEN Past(me, me.prev, l)
              ELSE IF Before(me.nxt[l], me.k) THEN Past(me, me.nxt, l)
              ELSE l
  OBVIOUS
<1>3. l \in 0 .. me.sh - 1 /\ me.sh \in 0 .. MaxHeight
  BY <1>1, <1>2 DEF ThreadInv, LocalType, Shape
<1>4. Reached(me.prev[l], l) /\ me.prev[l] \in Linkable
  <2>1. me.prev[l] \in Linkable
    BY <1>2, <1>3, NodeFacts DEF ThreadInv, LocalType
  <2> QED
    BY <1>2, <1>3, <2>1 DEF ThreadInv, SpliceInv
<1>5. \/ up = l + 1
      \/ up = Past(me, me.prev, l) /\ me.prev[l] # Head
      \/ up = Past(me, me.nxt, l) /\ me.nxt[l] # Tail
      \/ up = l /\ Bracket(me, l)
  <2>1. Before(me.nxt[l], me.k) => me.nxt[l] # Tail
    BY DEF Before
  <2>2. me.prev[l] # Head /\ Before(me.prev[l], me.k) => KeyOK(me.prev[l], me.k)
    BY <1>4 DEF Before, KeyOK, Linkable
  <2>3. me.prev[l] = Head => KeyOK(me.prev[l], me.k)
    BY DEF KeyOK
  <2>4. KeyOK(me.prev[l], me.k) /\ ~Before(me.nxt[l], me.k) => Bracket(me, l)
    BY DEF Bracket
  <2> QED
    BY <2>1, <2>2, <2>3, <2>4
<1> PICK r : r = IF l < up /\ up < me.sh THEN [me EXCEPT !.lv = up] ELSE Recompute(me, up)
  OBVIOUS
<1>6. ThreadInv(r) /\ Goes(me, r)
  <2> HIDE DEF ListIInv
  <2> QED
    BY <1>1, <1>2, <1>5, ValidateOK
<1>7. Put(t, r) /\ UNCHANGED <<links, counts, keys, call>>
  BY DEF Validate
<1> QED
  BY <1>1, <1>6, <1>7, GoesStep DEF Holding

\* After a compare-exchange that failed, or that need not be tried.
LEMMA RepairStep ==
  ASSUME ListIInv, NEW t \in Thread, NEW me, me = th[t], me.pc \in {"link0", "own", "cut"},
         NEW i, i = me.i, NEW bad, bad \in BOOLEAN, NEW then, then = me.pc,
         Put(t, Repair(me, i, bad, then)), UNCHANGED <<links, counts, keys, call>>
  PROVE  ListIInv'
<1>1. Types /\ Chains /\ Links /\ ThreadInv(me)
  BY OwnerFacts DEF ListIInv
<1> PICK r : r = Repair(me, i, bad, then)
  OBVIOUS
<1>2. ThreadInv(r) /\ Goes(me, r)
  BY <1>1, RepairOK
<1>3. me.pc \notin Holding /\ me.pc # "mark" /\ Put(t, r)
  BY DEF Holding
<1> QED
  BY <1>2, <1>3, GoesStep

\* The word a thread has looked at is marked or not.
LEMMA MarkType ==
  ASSUME Types, Links, Chains, NEW l \in Level, NEW p, Reached(p, l)
  PROVE  deleting[p][l] \in BOOLEAN
BY ReachFacts DEF Types

\* Dirty.
LEMMA DirtyStep == ASSUME ListIInv, NEW t \in Thread, Dirty(t) PROVE ListIInv'
<1> PICK me : me = th[t]
  OBVIOUS
<1>1. me.pc = "own"
  BY DEF Dirty
<1>2. Types /\ Chains /\ Links /\ ThreadInv(me)
  BY OwnerFacts DEF ListIInv
<1>3. me.i \in Level /\ Reached(me.prev[me.i], me.i)
  BY <1>1, <1>2, BuildingFacts
<1> PICK bad : bad = deleting[me.prev[me.i]][me.i]
  OBVIOUS
<1>4. bad \in BOOLEAN
  BY <1>2, <1>3, MarkType
<1>5. Put(t, Repair(me, me.i, bad, "own")) /\ UNCHANGED <<links, counts, keys, call>>
  BY DEF Dirty
<1> QED
  BY <1>1, <1>4, <1>5, RepairStep

\* An insert looks at level 0.
LEMMA Link0Action == ASSUME ListIInv, NEW t \in Thread, Link0(t) PROVE ListIInv'
<1> PICK me : me = th[t]
  OBVIOUS
<1>1. me.pc = "link0"
  BY DEF Link0
<1>2. Types /\ Chains /\ Links /\ ThreadInv(me) /\ DOMAIN th = Thread
  BY OwnerFacts DEF ListIInv, Threads
<1>3. /\ Fresh(me) /\ ~Building(me) /\ me.op = "insert" /\ me.i = 0
      /\ me.n \in Node /\ me.k = Key[me.n]
      /\ 0 < height[me.n] /\ refs[me.n] = 1 /\ me.n \notin retired
      /\ \A l \in Level : 0 < l /\ l < height[me.n] => next[me.n][l] = Head
      /\ Reached(me.prev[0], 0)
  BY <1>1, FreshFacts
<1>4. LocalType(me) /\ me.prev \in [0 .. MaxHeight -> Linkable]
  BY <1>2 DEF ThreadInv, LocalType
<1>5. CASE Is(me.nxt[0], me.k)
  <2> PICK r : r = Leave(t, FALSE, me.prev)
    OBVIOUS
  <2>1. Put(t, r) /\ UNCHANGED <<next, keys, deleting, counts, call>>
    BY <1>5 DEF Link0
  <2>2. LeftAs(me, r, FALSE, me.prev)
    BY <1>4, LeaveIs
  <2>3. /\ \A l \in 0 .. me.sh - 1 : Reached(me.prev[l], l) /\ ReachedOrTail(me.nxt[l], l)
        /\ \A l \in me.sh .. MaxHeight : me.prev[l] = Head /\ me.nxt[l] = Tail
    BY <1>2 DEF ThreadInv, SpliceInv
  <2>4. \A j, l \in 0 .. me.sh - 1 : j < l => NotAfter(me.prev[l], me.prev[j])
    BY <1>1, <1>2, <1>3 DEF ThreadInv, NestInv, Searching
  <2>5. ThreadInv(r) /\ ~Building(r) /\ Fresh(r)
    BY <1>3, <1>4, <2>2, <2>3, <2>4, LeftOK
  <2>6. r.pc = "done" /\ r.n = me.n
    BY <2>2 DEF LeftAs
  <2>7. SameHands(me, r)
    BY <1>1, <2>6, NoHands DEF Holding
  <2>8. Moves(t, r)
    BY <1>2, <2>1, PutMoves
  <2>9. UNCHANGED <<links, counts, height, now_height, present>> /\ plan' = plan
    BY <2>1 DEF links, keys, call
  <2> QED
    <3>1. plan' \in [Thread -> [left : Nat, ops : SUBSET STRING, nodes : SUBSET Node]]
      BY <1>2, <2>9 DEF Types
    <3> QED
      BY <1>1, <1>3, <2>5, <2>6, <2>7, <2>8, <2>9, <3>1, QuietStep
<1>6. CASE ~Is(me.nxt[0], me.k) /\ CanCas(me.prev[0], 0, me.nxt[0])
  <2> PICK r : r = LevelUp(t, 1)
    OBVIOUS
  <2>1. /\ Put(t, r)
        /\ next' = [next EXCEPT ![me.n][0] = me.nxt[0], ![me.prev[0]][0] = me.n]
        /\ KeysBecome(t, present \cup {me.k}) /\ UNCHANGED <<deleting, counts, call>>
    BY <1>6 DEF Link0
  <2>2. UpAs(me, r, 1)
    BY <1>3, <1>4, LevelUpIs
  <2>3. Moves(t, r)
    BY <1>2, <2>1, PutMoves
  <2>4. present' = present \cup {me.k} /\ UNCHANGED <<deleting, counts, height, now_height, plan>>
    BY <2>1 DEF KeysBecome, call
  <2> QED
    BY <1>1, <1>6, <2>1, <2>2, <2>3, <2>4, Link0Step
<1>7. CASE ~Is(me.nxt[0], me.k) /\ ~CanCas(me.prev[0], 0, me.nxt[0])
  <2> PICK bad : bad = deleting[me.prev[0]][0]
    OBVIOUS
  <2>1. bad \in BOOLEAN
    BY <1>2, <1>3, NodeFacts, MarkType
  <2>2. Put(t, Repair(me, 0, bad, "link0")) /\ UNCHANGED <<links, counts, keys, call>>
    BY <1>7 DEF Link0, links
  <2> PICK i : i = me.i
    OBVIOUS
  <2>3. Put(t, Repair(me, i, bad, "link0"))
    BY <1>3, <2>2
  <2> QED
    BY <1>1, <2>1, <2>2, <2>3, RepairStep
<1> QED
  BY <1>5, <1>6, <1>7

\* An insert ends because its node is marked where it is not linked yet.
LEMMA AbortStep ==
  ASSUME ListIInv, NEW t \in Thread, NEW me, me = th[t], me.pc \in {"own", "ref"},
         \A l \in Level : me.i <= l => deleting[me.n][l],
         Put(t, Finish(me, TRUE)), UNCHANGED <<links, counts, keys, call>>
  PROVE  ListIInv'
<1>1. Types /\ ThreadInv(me) /\ DOMAIN th = Thread
  BY OwnerFacts DEF ListIInv, Threads
<1>2. Building(me) /\ ~Fresh(me)
  BY <1>1, BuildingFacts
<1> PICK r : r = Finish(me, TRUE)
  OBVIOUS
<1>3. ThreadInv(r) /\ ~Fresh(r) /\ ~Building(r)
  BY <1>1, FinishOK DEF Busy, Owner
<1>4. r.pc = "done"
  BY DEF Finish, Done, IdleThread
<1>5. SameHands(me, r)
  BY <1>4, NoHands DEF Holding
<1>6. Moves(t, r)
  BY <1>1, PutMoves
<1>7. UNCHANGED <<links, counts, height, now_height, present>> /\ plan' = plan
  BY DEF keys, call
<1>8. plan' \in [Thread -> [left : Nat, ops : SUBSET STRING, nodes : SUBSET Node]]
  BY <1>1, <1>7 DEF Types
<1> QED
  BY <1>2, <1>3, <1>5, <1>6, <1>7, <1>8, QuietStep

\* Own.
LEMMA OwnAction == ASSUME ListIInv, NEW t \in Thread, Own(t) PROVE ListIInv'
<1> PICK me : me = th[t]
  OBVIOUS
<1>1. me.pc = "own" /\ ~IsDirty(me)
  BY DEF Own
<1>2. Types /\ ThreadInv(me) /\ DOMAIN th = Thread
  BY OwnerFacts DEF ListIInv, Threads
<1>3. me.i \in Level /\ me.n \in Node
  BY <1>1, <1>2, BuildingFacts
<1>4. CASE deleting[me.n][me.i]
  <2>1. \A l \in Level : me.i <= l => deleting[me.n][l]
    <3>1. \A l \in Level : me.i < l => deleting[me.n][l]
      BY <1>3, <1>4 DEF ListIInv, Marks
    <3>2. \A l \in Level : me.i <= l => l = me.i \/ me.i < l
      BY <1>3 DEF Level
    <3> QED
      BY <1>4, <3>1, <3>2
  <2>2. Put(t, Finish(me, TRUE)) /\ UNCHANGED <<links, counts, keys, call>>
    BY <1>4 DEF Own, links
  <2> QED
    BY <1>1, <2>1, <2>2, AbortStep
<1>5. CASE ~deleting[me.n][me.i]
  <2> PICK r : r = [me EXCEPT !.pc = "ref"]
    OBVIOUS
  <2>1. /\ Put(t, r) /\ next' = [next EXCEPT ![me.n][me.i] = me.nxt[me.i]]
        /\ UNCHANGED <<deleting, counts, keys, call>>
    BY <1>5 DEF Own
  <2>2. OnlyPc(me, r, "ref")
    BY <1>2, OnlyPcIs DEF ThreadInv, Busy
  <2>3. Moves(t, r)
    BY <1>2, <2>1, PutMoves
  <2>4. UNCHANGED <<deleting, counts, height, now_height, plan, present>>
    BY <2>1 DEF keys, call
  <2> QED
    BY <1>1, <1>5, <2>1, <2>2, <2>3, <2>4, OwnStep
<1> QED
  BY <1>4, <1>5

\* Ref.
LEMMA RefAction == ASSUME ListIInv, NEW t \in Thread, Ref(t) PROVE ListIInv'
<1> PICK me : me = th[t]
  OBVIOUS
<1>1. me.pc = "ref"
  BY DEF Ref
<1>2. Types /\ ThreadInv(me) /\ DOMAIN th = Thread
  BY OwnerFacts DEF ListIInv, Threads
<1>3. me.n \in Node /\ WasLinked(me.n)
  BY <1>1, <1>2, BuildingFacts
<1>4. CASE refs[me.n] = 0
  <2>1. \A l \in Level : me.i <= l => deleting[me.n][l]
    BY <1>3, <1>4, ZeroIsMarked
  <2>2. Put(t, Finish(me, TRUE)) /\ UNCHANGED <<links, counts, keys, call>>
    BY <1>4 DEF Ref, counts
  <2> QED
    BY <1>1, <2>1, <2>2, AbortStep
<1>5. CASE refs[me.n] # 0
  <2> PICK r : r = [me EXCEPT !.pc = "link"]
    OBVIOUS
  <2>1. Put(t, r) /\ refs' = [refs EXCEPT ![me.n] = @ + 1] /\ UNCHANGED <<links, retired, keys, call>>
    BY <1>5 DEF Ref
  <2>2. OnlyPc(me, r, "link")
    BY <1>2, OnlyPcIs DEF ThreadInv, Busy
  <2>3. Moves(t, r)
    BY <1>2, <2>1, PutMoves
  <2>4. UNCHANGED <<links, retired, height, now_height, plan, present>>
    BY <2>1 DEF keys, call
  <2> QED
    BY <1>1, <1>5, <2>1, <2>2, <2>3, <2>4, RefStep
<1> QED
  BY <1>4, <1>5

\* Link.
LEMMA LinkAction == ASSUME ListIInv, NEW t \in Thread, Link(t) PROVE ListIInv'
<1> PICK me : me = th[t]
  OBVIOUS
<1> PICK p : p = me.prev[me.i]
  OBVIOUS
<1>1. me.pc = "link"
  BY DEF Link
<1>2. Types /\ Chains /\ Links /\ ThreadInv(me) /\ DOMAIN th = Thread
  BY OwnerFacts DEF ListIInv, Threads
<1>3. me.i \in Level /\ me.n \in Node /\ Reached(p, me.i) /\ Building(me) /\ ~Fresh(me)
  BY <1>1, <1>2, BuildingFacts
<1>4. LocalType(me)
  BY <1>2 DEF ThreadInv
<1>5. CASE CanCas(p, me.i, me.nxt[me.i])
  <2> PICK r : r = LevelUp(t, me.i + 1)
    OBVIOUS
  <2>1. /\ Put(t, r) /\ next' = [next EXCEPT ![p][me.i] = me.n]
        /\ UNCHANGED <<deleting, counts, keys, call>>
    BY <1>5 DEF Link
  <2>2. UpAs(me, r, me.i + 1)
    BY <1>3, <1>4, LevelUpIs
  <2>3. Moves(t, r)
    BY <1>2, <2>1, PutMoves
  <2>4. UNCHANGED <<deleting, counts, height, now_height, plan, present>>
    BY <2>1 DEF keys, call
  <2>5. Relinks(p, me.i, me.n)
    BY <2>1 DEF Relinks
  <2> HIDE DEF ListIInv
  <2> QED
    BY <1>1, <1>5, <2>2, <2>3, <2>4, <2>5, LinkStep
<1>6. CASE ~CanCas(p, me.i, me.nxt[me.i])
  <2> PICK bad : bad = deleting[p][me.i]
    OBVIOUS
  <2>2. bad \in BOOLEAN
    BY <1>2, <1>3, MarkType
  <2>3. \E r : Put(t, r) /\ UNCHANGED <<links, counts, keys, call>> /\ OnlyPc(me, r, "undo")
    <3> PICK r : r = [me EXCEPT !.pc = "undo", !.bad = bad]
      OBVIOUS
    <3>0. Put(t, r) /\ UNCHANGED <<links, counts, keys, call>>
      BY <1>6 DEF Link, links
    <3>1. \A f \in Locals \ {"pc", "bad"} : r[f] = me[f]
      BY <1>4 DEF LocalType
    <3>2. DOMAIN r = Locals /\ r.pc = "undo" /\ r.bad = bad
      BY <1>4 DEF LocalType, Locals
    <3>3. /\ r.op = me.op /\ r.k = me.k /\ r.n = me.n /\ r.i = me.i
          /\ r.prev = me.prev /\ r.nxt = me.nxt /\ r.sh = me.sh /\ r.lv = me.lv /\ r.target = me.target
          /\ r.x = me.x /\ r.y = me.y /\ r.z = me.z /\ r.after = me.after /\ r.then = me.then
          /\ r.res = me.res /\ r.mode = me.mode /\ r.probe = me.probe /\ r.fix = me.fix /\ r.tight = me.tight
      BY <3>1 DEF Locals
    <3>4. LocalType(r)
      BY <1>4, <2>2, <3>2, <3>3 DEF LocalType, Busy
    <3> QED
      <4>1. OnlyPc(me, r, "undo")
        BY <3>1, <3>2, <3>4 DEF OnlyPc
      <4> QED
        BY <3>0, <4>1
  <2> PICK r : Put(t, r) /\ UNCHANGED <<links, counts, keys, call>> /\ OnlyPc(me, r, "undo")
    BY <2>3
  <2>1. Put(t, r) /\ UNCHANGED <<links, counts, keys, call>>
    OBVIOUS
  <2>4. ThreadInv(r) /\ (Fresh(r) <=> Fresh(me)) /\ (Building(r) <=> Building(me))
    BY <1>1, <1>2, PcOK
  <2>5. r.pc = "undo" /\ r.n = me.n /\ r.i = me.i
    BY OnlyPcFields
  <2>6. SameHands(me, r)
    BY <1>1, <2>5 DEF SameHands, Handed
  <2>7. Moves(t, r)
    BY <1>2, <2>1, PutMoves
  <2>8. UNCHANGED <<links, counts, height, now_height, present>> /\ plan' = plan
    BY <2>1 DEF keys, call
  <2>9. plan' \in [Thread -> [left : Nat, ops : SUBSET STRING, nodes : SUBSET Node]]
    BY <1>2, <2>8 DEF Types
  <2> QED
    BY <1>1, <1>3, <2>4, <2>5, <2>6, <2>7, <2>8, <2>9, QuietStep
<1> QED
  BY <1>5, <1>6

\* Undo.
LEMMA UndoAction == ASSUME ListIInv, NEW t \in Thread, Undo(t) PROVE ListIInv'
<1> PICK me : me = th[t]
  OBVIOUS
<1>1. me.pc = "undo"
  BY DEF Undo
<1>2. Types /\ Chains /\ Links /\ ThreadInv(me) /\ DOMAIN th = Thread
  BY OwnerFacts DEF ListIInv, Threads
<1>3. me.i \in Level /\ me.n \in Node
  BY <1>1, <1>2, BuildingFacts
<1>4. me.bad \in BOOLEAN
  BY <1>2 DEF ThreadInv, LocalType
<1>6. \E r : ThreadInv(r) /\ Goes(me, r) /\ Put(t, r)
  <2> PICK bad : bad = me.bad
    OBVIOUS
  <2> PICK q : q = Repair(me, me.i, bad, "own")
    OBVIOUS
  <2>1. ThreadInv(q) /\ Goes(me, q)
    BY <1>1, <1>2, <1>4, RepairOK
  <2> PICK r : r = [q EXCEPT !.bad = FALSE, !.tight = FALSE]
    OBVIOUS
  <2>2. ThreadInv(r) /\ Goes(me, r)
    BY <2>1, BadIsFree
  <2>3. Put(t, r)
    BY DEF Undo
  <2> QED
    BY <2>2, <2>3
<1> PICK r : ThreadInv(r) /\ Goes(me, r) /\ Put(t, r)
  BY <1>6
<1>7. DecreaseReference(me.n) /\ UNCHANGED <<links, keys, call>>
  BY DEF Undo
<1>8. Moves(t, r)
  BY <1>2, PutMoves
<1>9. \A n \in Node, j \in Level : ~Handed(r, n, j) /\ (Handed(me, n, j) <=> n = me.n /\ j = me.i)
  BY <1>1 DEF Handed, Goes
<1>10. /\ Fresh(r) <=> Fresh(me)
       /\ Building(r) <=> Building(me)
       /\ Owner(me) => r.n = me.n /\ r.i = me.i
  BY DEF Goes
<1>11. UNCHANGED <<links, height, now_height, plan, present>> /\ me.pc # "mark"
  BY <1>1, <1>7 DEF keys, call
<1> PICK m : m = me.n
  OBVIOUS
<1> PICK l : l = me.i
  OBVIOUS
<1>12. /\ m \in Node /\ l \in Level /\ DecreaseReference(m)
       /\ \A n \in Node, j \in Level : ~Handed(r, n, j) /\ (Handed(me, n, j) <=> n = m /\ j = l)
  BY <1>3, <1>7, <1>9
<1> QED
  BY <1>8, <1>10, <1>11, <1>12, DropStep

\* What an erase knows that cuts.
LEMMA CutFacts ==
  ASSUME ListIInv, NEW t \in Thread, NEW me, me = th[t], me.pc \in {"cut", "cutref"}
  PROVE  /\ ThreadInv(me) /\ ~Fresh(me) /\ ~Building(me)
         /\ me.n \in Node /\ me.i \in Level /\ deleting[me.n][me.i]
         /\ Reached(me.prev[me.i], me.i)
<1>1. ThreadInv(me) /\ Types
  BY OwnerFacts DEF ListIInv
<1>2. /\ me.n \in Node /\ deleting[me.n][0] /\ me.i < height[me.n] /\ height[me.n] <= me.sh
      /\ me.op # "insert"
  BY <1>1 DEF ThreadInv, NodeInv, Shape, SpliceOps
<1>3. me.i \in Nat /\ me.sh \in 0 .. MaxHeight /\ height[me.n] \in 0 .. MaxHeight
  BY <1>1, <1>2 DEF ThreadInv, LocalType, Types
<1>4. me.i \in Level /\ me.i \in 0 .. me.sh - 1
  BY <1>2, <1>3, NodeFacts DEF Level
<1>5. deleting[me.n][me.i]
  <2>1. me.i = 0 \/ 0 < me.i
    BY <1>3
  <2>2. 0 \in Level
    BY NodeFacts
  <2> QED
    BY <1>2, <1>4, <2>1, <2>2 DEF ListIInv, Marks
<1>6. Reached(me.prev[me.i], me.i)
  BY <1>1, <1>4 DEF ThreadInv, SpliceInv
<1> QED
  BY <1>1, <1>2, <1>4, <1>5, <1>6 DEF Fresh, Building

\* Cut.
LEMMA CutAction == ASSUME ListIInv, NEW t \in Thread, Cut(t) PROVE ListIInv'
<1> PICK me : me = th[t]
  OBVIOUS
<1> PICK p : p = me.prev[me.i]
  OBVIOUS
<1>1. me.pc = "cut"
  BY DEF Cut
<1>2. Types /\ Chains /\ Links /\ DOMAIN th = Thread
  BY DEF ListIInv, Threads
<1>3. /\ ThreadInv(me) /\ ~Fresh(me) /\ ~Building(me)
      /\ me.n \in Node /\ me.i \in Level /\ deleting[me.n][me.i]
      /\ Reached(p, me.i)
  BY <1>1, CutFacts
<1>4. CASE me.nxt[me.i] # me.n
  <2> PICK r : r = CutNext(me)
    OBVIOUS
  <2>1. ThreadInv(r) /\ Goes(me, r)
    BY <1>1, <1>2, <1>3, CutNextOK
  <2>2. Put(t, r) /\ UNCHANGED <<links, counts, keys, call>>
    BY <1>4 DEF Cut, links
  <2> QED
    BY <1>1, <2>1, <2>2, GoesStep DEF Holding
<1>5. CASE me.nxt[me.i] = me.n /\ CanCas(p, me.i, me.n)
  <2> PICK r : r = [me EXCEPT !.pc = "cutref"]
    OBVIOUS
  <2>1. OnlyPc(me, r, "cutref")
    BY <1>3, OnlyPcIs DEF ThreadInv, Busy
  <2>2. ThreadInv(r) /\ (Fresh(r) <=> Fresh(me)) /\ (Building(r) <=> Building(me))
    BY <1>1, <1>3, <2>1, PcOK
  <2>3. r.n = me.n /\ r.i = me.i /\ r.pc = "cutref"
    BY <2>1, OnlyPcFields
  <2>4. Put(t, r) /\ next' = [next EXCEPT ![p][me.i] = next[me.n][me.i]] /\ UNCHANGED <<deleting, counts, keys, call>>
    BY <1>5 DEF Cut
  <2>5. Moves(t, r)
    BY <1>2, <2>4, PutMoves
  <2> PICK y : y = me.n
    OBVIOUS
  <2> PICK l : l = me.i
    OBVIOUS
  <2>6. Takes(me, r, y, l)
    BY <1>1, <2>3 DEF Takes, Handed
  <2>7. UNCHANGED <<deleting, counts, height, now_height, plan, present>>
    BY <2>4 DEF keys, call
  <2>8. /\ l \in Level /\ Reached(p, l) /\ y \in Node /\ CanCas(p, l, y) /\ deleting[y][l]
        /\ Relinks(p, l, next[y][l]) /\ me.pc # "mark"
    BY <1>1, <1>3, <1>5, <2>4 DEF Relinks
  <2> QED
    BY <2>2, <2>3, <2>5, <2>6, <2>7, <2>8, TakeOutStep, ZenonT(30)
<1>6. CASE me.nxt[me.i] = me.n /\ ~CanCas(p, me.i, me.n)
  <2> PICK bad : bad = deleting[p][me.i]
    OBVIOUS
  <2>1. bad \in BOOLEAN
    BY <1>2, <1>3, MarkType
  <2>2. Put(t, Repair(me, me.i, bad, "cut")) /\ UNCHANGED <<links, counts, keys, call>>
    BY <1>6 DEF Cut, links
  <2> QED
    BY <1>1, <2>1, <2>2, RepairStep
<1> QED
  BY <1>4, <1>5, <1>6

\* CutRef.
LEMMA CutRefAction == ASSUME ListIInv, NEW t \in Thread, CutRef(t) PROVE ListIInv'
<1> PICK me : me = th[t]
  OBVIOUS
<1>1. me.pc = "cutref"
  BY DEF CutRef
<1>2. Types /\ DOMAIN th = Thread
  BY DEF ListIInv, Threads
<1>3. ThreadInv(me) /\ me.n \in Node /\ me.i \in Level
  BY <1>1, CutFacts
<1> PICK r : r = CutNext(me)
  OBVIOUS
<1>4. ThreadInv(r) /\ Goes(me, r)
  BY <1>1, <1>2, <1>3, CutNextOK
<1>5. Put(t, r) /\ DecreaseReference(me.n) /\ UNCHANGED <<links, keys, call>>
  BY DEF CutRef
<1>6. Moves(t, r)
  BY <1>2, <1>5, PutMoves
<1>7. \A n \in Node, j \in Level : ~Handed(r, n, j) /\ (Handed(me, n, j) <=> n = me.n /\ j = me.i)
  BY <1>1, <1>4 DEF Handed, Goes
<1>8. /\ Fresh(r) <=> Fresh(me)
      /\ Building(r) <=> Building(me)
      /\ Owner(me) => r.n = me.n /\ r.i = me.i
  BY <1>4 DEF Goes
<1>9. UNCHANGED <<links, height, now_height, plan, present>> /\ me.pc # "mark"
  BY <1>1, <1>5 DEF keys, call
<1> QED
  BY <1>3, <1>4, <1>5, <1>6, <1>7, <1>8, <1>9, DropStep

\* Mark.
LEMMA MarkAction == ASSUME ListIInv, NEW t \in Thread, Mark(t) PROVE ListIInv'
<1> PICK me : me = th[t]
  OBVIOUS
<1> PICK n : n = me.n
  OBVIOUS
<1> PICK i : i = me.i
  OBVIOUS
<1>1. me.pc = "mark" /\ deleting' = [deleting EXCEPT ![n][i] = TRUE]
  BY DEF Mark
<1>2. Types /\ Links /\ ThreadInv(me) /\ DOMAIN th = Thread
  BY OwnerFacts DEF ListIInv, Threads
<1>3. n \in Node /\ i \in Level /\ me.op \in {"erase", "erase_node"} /\ me.then = "none"
  BY <1>1, <1>2 DEF ThreadInv, NodeInv, Shape, Busy, Searching
<1>4. ~Owner(me)
  BY <1>3 DEF Owner, Fresh, Building
<1>5. deleting'[n][i]
  BY <1>1, <1>2, <1>3 DEF Types, Linkable
<1>6. UNCHANGED <<next, counts, height, now_height, plan>>
  BY DEF Mark, call
<1>7. CASE i # 0
  <2>1. \E r : /\ Put(t, r) /\ (ThreadInv(me)' => ThreadInv(r)')
               /\ r.pc = "mark" /\ r.n = n /\ ~Owner(r) /\ r.pc \notin Holding
    <3> PICK r : r = [me EXCEPT !.i = me.i - 1]
      OBVIOUS
    <3>1. me.i > 0
      BY <1>3, <1>7 DEF Level
    <3>2. Put(t, r)
      BY <3>1 DEF Mark
    <3>3. ThreadInv(me)' => ThreadInv(r)'
      BY <1>1, <1>5, <1>7, MarkDownPrime
    <3>4. r.pc = "mark" /\ r.n = n /\ r.op = me.op /\ r.then = me.then
      BY <1>1, <1>2 DEF ThreadInv, LocalType, Locals
    <3>5. ~Owner(r) /\ r.pc \notin Holding
      BY <1>3, <3>4 DEF Owner, Fresh, Building, Holding
    <3> QED
      BY <3>2, <3>3, <3>4, <3>5
  <2> PICK r : /\ Put(t, r) /\ (ThreadInv(me)' => ThreadInv(r)')
               /\ r.pc = "mark" /\ r.n = n /\ ~Owner(r) /\ r.pc \notin Holding
    BY <2>1
  <2>2. UNCHANGED keys
    <3>1. me.i > 0
      BY <1>3, <1>7 DEF Level
    <3> QED
      BY <3>1 DEF Mark
  <2>3. Moves(t, r)
    BY <1>2, PutMoves
  <2>4. present' = IF i = 0 /\ ~deleting[n][0] THEN present \ {me.k} ELSE present
    BY <1>7, <2>2 DEF keys
  <2> QED
    BY <1>1, <1>6, <2>3, <2>4, MarkStep
<1>8. CASE i = 0 /\ deleting[n][0]
  <2> PICK r : r = Finish(me, FALSE)
    OBVIOUS
  <2>0. ~(me.i > 0) /\ deleting[me.n][0]
    BY <1>8
  <2>1. Put(t, r) /\ UNCHANGED keys
    BY <2>0, Zenon DEF Mark
  <2>2. ThreadInv(r) /\ ~Owner(r) /\ Goes(me, r)
    BY <1>1, <1>2, <1>3, FinishOK DEF Busy
  <2>3. Types' /\ Keeps /\ LeavesAlone(Tail) /\ ThreadInv(me)' => ThreadInv(r)'
    BY <1>2, <2>2, ThreadKept DEF Owner
  <2>4. r.pc \notin Holding
    BY <2>2 DEF Goes, Holding
  <2>5. Moves(t, r)
    BY <1>2, <2>1, PutMoves
  <2>6. present' = IF i = 0 /\ ~deleting[n][0] THEN present \ {me.k} ELSE present
    BY <1>8, <2>1 DEF keys
  <2> QED
    BY <1>1, <1>6, <1>8, <2>2, <2>3, <2>4, <2>5, <2>6, MarkStep
<1>9. CASE i = 0 /\ ~deleting[n][0]
  <2> PICK h : h = height[n]
    OBVIOUS
  <2> PICK r : r = BeginCut(me, h)
    OBVIOUS
  <2>1. Put(t, r) /\ KeysBecome(t, present \ {me.k})
    BY <1>9 DEF Mark
  <2>2. h = height'[me.n] /\ deleting'[me.n][0]
    BY <1>5, <1>6, <1>9
  <2>3. Types' /\ ThreadInv(me)' => ThreadInv(r)' /\ Goes(me, r)
    BY <1>1, <2>2, BeginCutPrime
  <2>4. r.pc \notin Holding /\ ~Owner(r)
    <3>1. r.pc \in {"read", "cut"} /\ r.op = me.op
      <4>1. DOMAIN me = Locals
        BY <1>2 DEF ThreadInv, LocalType
      <4>2. CASE h > me.sh
        <5>1. r = [WholeSearch(me, h) EXCEPT !.then = "cut", !.i = h - 1]
          BY <4>2 DEF BeginCut
        <5> QED
          BY <4>1, <5>1 DEF WholeSearch, Search, Locals
      <4>3. CASE ~(h > me.sh)
        <5>1. r = [me EXCEPT !.pc = "cut", !.i = h - 1]
          BY <4>3 DEF BeginCut
        <5> QED
          BY <4>1, <5>1 DEF Locals
      <4> QED
        BY <4>2, <4>3
    <3> QED
      BY <1>3, <3>1 DEF Holding, Owner, Fresh, Building
  <2>5. Moves(t, r)
    BY <1>2, <2>1, PutMoves
  <2>6. present' = IF i = 0 /\ ~deleting[n][0] THEN present \ {me.k} ELSE present
    BY <1>9, <2>1 DEF KeysBecome
  <2> QED
    BY <1>1, <1>6, <1>9, <2>3, <2>4, <2>5, <2>6, MarkStep
<1> QED
  BY <1>7, <1>8, <1>9

\* Return.
LEMMA ReturnAction == ASSUME ListIInv, NEW t \in Thread, Return(t) PROVE ListIInv'
<1> PICK me : me = th[t]
  OBVIOUS
<1>1. me.pc = "done"
  BY DEF Return
<1>2. Types /\ ThreadInv(me) /\ DOMAIN th = Thread
  BY OwnerFacts DEF ListIInv, Threads
<1> PICK r : r = [IdleThread EXCEPT !.prev = me.prev, !.nxt = me.nxt, !.sh = me.sh]
  OBVIOUS
<1>3. ThreadInv(r) /\ ~Fresh(r) /\ ~Building(r) /\ r.pc = "idle"
  BY <1>1, <1>2, ReturnOK
<1>4. Put(t, r)
  BY DEF Return, Put
<1>5. Moves(t, r)
  BY <1>2, <1>4, PutMoves
<1>6. UNCHANGED <<links, retired, present, now_height, plan>>
  BY DEF Return
<1>7. CASE Refused(t)
  <2>1. height' = [height EXCEPT ![me.n] = 0] /\ refs' = [refs EXCEPT ![me.n] = 0]
    BY <1>7 DEF Return
  <2> QED
    BY <1>3, <1>5, <1>6, <1>7, <2>1, RefusedStep
<1>8. CASE ~Refused(t)
  <2>1. height' = height /\ refs' = refs
    BY <1>8 DEF Return
  <2>2. ~Fresh(me)
    <3>1. me.then = "none"
      BY <1>1, <1>2 DEF ThreadInv, Shape
    <3> QED
      BY <1>1, <1>8, <3>1 DEF Refused, Fresh
  <2>3. ~Building(me)
    BY <1>1 DEF Building, Busy, Searching
  <2>4. SameHands(me, r)
    BY <1>1, <1>3, NoHands DEF Holding
  <2>5. plan' \in [Thread -> [left : Nat, ops : SUBSET STRING, nodes : SUBSET Node]]
    BY <1>2, <1>6 DEF Types
  <2>6. UNCHANGED <<links, counts, height, now_height, present>>
    BY <1>6, <2>1 DEF counts
  <2> QED
    BY <1>1, <1>3, <1>5, <2>2, <2>3, <2>4, <2>5, <2>6, QuietStep
<1> QED
  BY <1>7, <1>8

\* A call begins: the bound on the calls.
LEMMA PlanTyped ==
  ASSUME Types, NEW t \in Thread, NEW op, NEW ks, BeginCall(t, op, ks)
  PROVE  plan' \in [Thread -> [left : Nat, ops : SUBSET STRING, nodes : SUBSET Node]]
<1> PICK P : P = [left : Nat, ops : SUBSET STRING, nodes : SUBSET Node]
  OBVIOUS
<1>1. plan' = [plan EXCEPT ![t].left = @ - 1] /\ plan[t].left > 0
  BY DEF BeginCall
<1>2. plan \in [Thread -> P] /\ plan[t] \in P
  BY DEF Types
<1>3. [plan[t] EXCEPT !.left = @ - 1] \in P
  <2>1. plan[t].left - 1 \in Nat
    BY <1>1, <1>2
  <2> QED
    BY <1>2, <2>1
<1>4. plan' = [plan EXCEPT ![t] = [plan[t] EXCEPT !.left = @ - 1]]
  BY <1>1
<1>5. plan' \in [Thread -> P]
  BY <1>2, <1>3, <1>4
<1> QED
  BY <1>5

\* A call that reads, or an erase, begins.
LEMMA BeginStep ==
  ASSUME ListIInv, NEW t \in Thread, NEW me, me = th[t], NEW op, NEW ks, BeginCall(t, op, ks),
         NEW r, Put(t, r), ThreadInv(r), ~Fresh(r), ~Building(r), r.pc = "read",
         UNCHANGED <<links, counts, height, now_height>>
  PROVE  ListIInv'
<1>1. Types /\ ThreadInv(me) /\ DOMAIN th = Thread
  BY OwnerFacts DEF ListIInv, Threads
<1>2. me.pc = "idle" /\ present' = present
  BY DEF BeginCall
<1>3. plan' \in [Thread -> [left : Nat, ops : SUBSET STRING, nodes : SUBSET Node]]
  BY <1>1, PlanTyped
<1>4. ~Fresh(me) /\ ~Building(me)
  <2>1. me.op = "none"
    BY <1>1, <1>2 DEF ThreadInv, Shape
  <2> QED
    BY <2>1 DEF Fresh, Building
<1>5. SameHands(me, r)
  BY <1>2, NoHands DEF Holding
<1>6. Moves(t, r)
  BY <1>1, PutMoves
<1> QED
  BY <1>2, <1>3, <1>4, <1>5, <1>6, QuietStep

\* A thread that has not called anything yet.
LEMMA IdleOK == ThreadInv(IdleThread) /\ ~Owner(IdleThread) /\ IdleThread.pc = "idle"
<1> PICK r : r = IdleThread
  OBVIOUS
<1>1. /\ DOMAIN r = Locals /\ r.pc = "idle" /\ r.op = "none" /\ r.k = 0 /\ r.n = Tail /\ r.i = 0 /\ r.sh = 0
      /\ r.prev = [l \in 0 .. MaxHeight |-> Head] /\ r.nxt = [l \in 0 .. MaxHeight |-> Tail]
      /\ r.lv = 0 /\ r.target = 0 /\ r.x = Head /\ r.y = Tail /\ r.z = Tail /\ r.after = Tail
      /\ r.then = "none" /\ r.probe = 0 /\ r.bad = FALSE /\ r.res = FALSE /\ r.mode = "none"
      /\ r.fix = "fresh" /\ r.tight = TRUE
  BY DEF IdleThread, Locals
<1>2. LocalType(r)
  <2>1. /\ r.prev \in [0 .. MaxHeight -> Linkable] /\ r.nxt \in [0 .. MaxHeight -> Some]
        /\ r.x \in Linkable /\ r.y \in Some /\ r.z \in Some /\ r.after \in Some /\ r.n \in Some
    BY <1>1 DEF Linkable, Some
  <2>2. r.k \in Int /\ r.i \in Nat /\ r.sh \in 0 .. MaxHeight /\ r.lv \in Nat /\ r.target \in Nat /\ r.probe \in Nat
    BY <1>1, NodeFacts
  <2>3. r.bad \in BOOLEAN /\ r.res \in BOOLEAN /\ r.tight \in BOOLEAN
    BY <1>1
  <2> QED
    BY <1>1, <2>1, <2>2, <2>3 DEF LocalType
<1>3. Shape(r)
  BY <1>1 DEF Shape, Busy, Searching, SpliceOps
<1>4. Hands(r) /\ BracketInv(r)
  BY <1>1 DEF Hands, BracketInv, Searching, SpliceOps
<1>5. SpliceInv(r) /\ NestInv(r)
  <2>1. 0 .. r.sh - 1 = {}
    BY <1>1
  <2>2. \A l \in 0 .. MaxHeight : r.prev[l] = Head /\ r.nxt[l] = Tail
    BY <1>1
  <2> QED
    BY <1>1, <2>1, <2>2 DEF SpliceInv, NestInv
<1>6. ~Owner(r)
  BY <1>1 DEF Owner, Fresh, Building
<1>7. NodeInv(r)
  BY <1>1, <1>6 DEF NodeInv, Owner, Busy, Searching
<1> QED
  BY <1>1, <1>2, <1>3, <1>4, <1>5, <1>6, <1>7 DEF ThreadInv

\* The fields of such a thread that the calls which only read begin with.
LEMMA IdleLocals ==
  /\ DOMAIN IdleThread = Locals /\ IdleThread.k \in Int /\ IdleThread.i \in Nat
  /\ IdleThread.mode \in {"none", "le", "lt", "ge", "gt", "last"}
<1>1. LocalType(IdleThread)
  BY IdleOK DEF ThreadInv
<1> QED
  BY <1>1 DEF LocalType

\* r is the thread me at the beginning of a search that reads
ReadsAs(me, r, from, op, k, mode, i) ==
    /\ DOMAIN r = Locals /\ r.pc = "read" /\ r.op = op /\ r.lv = from /\ r.target = 0 /\ r.x = Head
    /\ r.after = Tail /\ r.k = k /\ r.mode = mode /\ r.i = i
    /\ \A f \in Locals \ {"pc", "op", "lv", "target", "x", "after", "k", "mode", "i"} : r[f] = me[f]

\* Find, Seek, Scan and RefreshAllLinks begin at the head.
LEMMA ReadsStep ==
  ASSUME ListIInv, NEW t \in Thread, NEW me, me = IdleThread, NEW name, NEW ks,
         NEW from \in Level, NEW op \in {"find", "seek", "scan", "refresh"}, NEW k \in Int,
         NEW mode \in {"none", "le", "lt", "ge", "gt", "last"}, NEW i \in Nat,
         op = "refresh" => i \in 1 .. MaxHeight, op = "scan" => from = 0, op = "find" => mode = "ge",
         NEW r, ReadsAs(me, r, from, op, k, mode, i), Reads(t, name, ks, r)
  PROVE  ListIInv'
<1>1. ThreadInv(me)
  BY IdleOK
<1>0. /\ DOMAIN r = Locals /\ r.pc = "read" /\ r.op = op /\ r.lv = from /\ r.target = 0 /\ r.x = Head
      /\ r.after = Tail /\ r.k = k /\ r.mode = mode /\ r.i = i
      /\ \A f \in Locals \ {"pc", "op", "lv", "target", "x", "after", "k", "mode", "i"} : r[f] = me[f]
  BY DEF ReadsAs
<1>2. BeginCall(t, name, ks) /\ Put(t, r) /\ UNCHANGED <<links, counts, height, now_height>>
  BY DEF Reads
<1>3. me.pc = "idle"
  BY IdleOK
<1>4. /\ r.n = me.n /\ r.prev = me.prev /\ r.nxt = me.nxt /\ r.sh = me.sh
      /\ r.y = me.y /\ r.z = me.z /\ r.then = me.then /\ r.probe = me.probe /\ r.bad = me.bad
      /\ r.res = me.res /\ r.fix = me.fix /\ r.tight = me.tight
  BY <1>0 DEF Locals
<1>5. LocalType(me) /\ me.then = "none"
  BY <1>1, <1>3 DEF ThreadInv, Shape
<1>6. LocalType(r)
  <2>1. from \in Nat
    BY DEF Level
  <2> QED
    BY <1>0, <1>4, <1>5, <2>1 DEF LocalType, Busy, Searching, Linkable, Some
<1>7. ThreadInv(r) /\ ~Fresh(r) /\ ~Building(r)
  <2>1. r.then = "none"
    BY <1>4, <1>5
  <2> QED
    BY <1>0, <1>1, <1>3, <1>4, <1>6, <2>1, StartReadOK
<1> QED
  BY <1>0, <1>2, <1>7, BeginStep

\* The fields a search sets.
LEMMA SearchIs ==
  ASSUME NEW me, DOMAIN me = Locals, NEW from, NEW to, NEW before, NEW after,
         NEW q, q = Search(me, from, to, before, after)
  PROVE  /\ DOMAIN q = Locals /\ q.pc = "read" /\ q.lv = from /\ q.target = to /\ q.x = before /\ q.after = after
         /\ \A f \in Locals \ {"pc", "lv", "target", "x", "after"} : q[f] = me[f]
BY DEF Search, Locals

\* What a thread that begins has, and the keys and the height it begins with.
LEMMA BeginFacts ==
  ASSUME ListIInv, NEW t \in Thread
  PROVE  /\ Types /\ ThreadInv(th[t]) /\ DOMAIN th[t] = Locals /\ th[t].k \in Int /\ th[t].i \in Nat
         /\ th[t].mode \in {"none", "le", "lt", "ge", "gt", "last"}
         /\ \A n \in plan[t].nodes : n \in Node /\ Key[n] \in Int
         /\ now_height - 1 \in Level /\ now_height \in 1 .. MaxHeight
<1>1. Types /\ ThreadInv(th[t])
  BY OwnerFacts DEF ListIInv
<1>2. LocalType(th[t])
  BY <1>1 DEF ThreadInv
<1>3. \A n \in plan[t].nodes : n \in Node /\ Key[n] \in Int
  <2>1. plan[t].nodes \subseteq Node
    BY <1>1 DEF Types
  <2> QED
    BY <2>1, NodeFacts
<1>4. now_height - 1 \in Level /\ now_height \in 1 .. MaxHeight
  BY <1>1, NodeFacts DEF Types, Level
<1> QED
  BY <1>1, <1>2, <1>3, <1>4 DEF LocalType

\* What a find begins with.
LEMMA FindReads ==
  ASSUME ListIInv, NEW t \in Thread, NEW k \in Int, Find(t, k)
  PROVE  \E r : Reads(t, "find", {k}, r) /\ ReadsAs(IdleThread, r, now_height - 1, "find", k, "ge", IdleThread.i)
<1> PICK me : me = IdleThread
  OBVIOUS
<1>1. DOMAIN me = Locals
  BY IdleLocals
<1> PICK from : from = now_height - 1
  OBVIOUS
<1> PICK q : q = Search(me, from, 0, Head, Tail)
  OBVIOUS
<1>2. /\ DOMAIN q = Locals /\ q.pc = "read" /\ q.lv = from /\ q.target = 0 /\ q.x = Head /\ q.after = Tail
      /\ \A f \in Locals \ {"pc", "lv", "target", "x", "after"} : q[f] = me[f]
  BY <1>1, SearchIs
<1> PICK r : r = [q EXCEPT !.op = "find", !.k = k, !.mode = "ge"]
  OBVIOUS
<1>3. Reads(t, "find", {k}, r)
  BY DEF Find
<1>4. DOMAIN r = Locals /\ r.op = "find" /\ r.k = k /\ r.mode = "ge"
  BY <1>2 DEF Locals
<1>5. \A f \in Locals \ {"op", "k", "mode"} : r[f] = q[f]
  BY <1>2
<1>6. /\ r.pc = "read" /\ r.lv = from /\ r.target = 0 /\ r.x = Head /\ r.after = Tail /\ r.i = me.i
      /\ \A f \in Locals \ {"pc", "op", "lv", "target", "x", "after", "k", "mode", "i"} : r[f] = me[f]
  BY <1>2, <1>5 DEF Locals
<1>7. ReadsAs(me, r, from, "find", k, "ge", me.i)
  BY <1>4, <1>6 DEF ReadsAs
<1> QED
  BY <1>3, <1>7

\* Find.
LEMMA FindStep == ASSUME ListIInv, NEW t \in Thread, NEW n \in plan[t].nodes, Find(t, Key[n]) PROVE ListIInv'
<1> PICK me : me = IdleThread
  OBVIOUS
<1> PICK k : k = Key[n]
  OBVIOUS
<1> PICK from : from = now_height - 1
  OBVIOUS
<1> PICK i : i = me.i
  OBVIOUS
<1>1. k \in Int /\ i \in Nat /\ from \in Level
  BY BeginFacts, IdleLocals
<1>2. Find(t, k)
  OBVIOUS
<1> PICK r : Reads(t, "find", {k}, r) /\ ReadsAs(me, r, from, "find", k, "ge", i)
  BY <1>1, <1>2, FindReads
<1> PICK op, name, ks, mode : op = "find" /\ name = "find" /\ ks = {k} /\ mode = "ge"
  OBVIOUS
<1>3. ReadsAs(me, r, from, op, k, mode, i) /\ Reads(t, name, ks, r)
  OBVIOUS
<1>4. /\ op \in {"find", "seek", "scan", "refresh"} /\ op # "refresh" /\ op # "scan" /\ mode = "ge"
      /\ mode \in {"none", "le", "lt", "ge", "gt", "last"}
  OBVIOUS
<1> QED
  BY <1>1, <1>3, <1>4, ReadsStep

\* What a seek begins with.
LEMMA SeekReads ==
  ASSUME ListIInv, NEW t \in Thread, NEW k \in Int, NEW mode, Seek(t, mode, k)
  PROVE  \E r : Reads(t, mode, KeySet, r) /\ ReadsAs(IdleThread, r, now_height - 1, "seek", k, mode, IdleThread.i)
<1> PICK me : me = IdleThread
  OBVIOUS
<1>1. DOMAIN me = Locals
  BY IdleLocals
<1> PICK from : from = now_height - 1
  OBVIOUS
<1> PICK q : q = Search(me, from, 0, Head, Tail)
  OBVIOUS
<1>2. /\ DOMAIN q = Locals /\ q.pc = "read" /\ q.lv = from /\ q.target = 0 /\ q.x = Head /\ q.after = Tail
      /\ \A f \in Locals \ {"pc", "lv", "target", "x", "after"} : q[f] = me[f]
  BY <1>1, SearchIs
<1> PICK r : r = [q EXCEPT !.op = "seek", !.k = k, !.mode = mode]
  OBVIOUS
<1>3. Reads(t, mode, KeySet, r)
  BY DEF Seek
<1>4. DOMAIN r = Locals /\ r.op = "seek" /\ r.k = k /\ r.mode = mode
  BY <1>2 DEF Locals
<1>5. \A f \in Locals \ {"op", "k", "mode"} : r[f] = q[f]
  BY <1>2
<1>6. /\ r.pc = "read" /\ r.lv = from /\ r.target = 0 /\ r.x = Head /\ r.after = Tail /\ r.i = me.i
      /\ \A f \in Locals \ {"pc", "op", "lv", "target", "x", "after", "k", "mode", "i"} : r[f] = me[f]
  BY <1>2, <1>5 DEF Locals
<1>7. ReadsAs(me, r, from, "seek", k, mode, me.i)
  BY <1>4, <1>6 DEF ReadsAs
<1> QED
  BY <1>3, <1>7

\* Seek.
LEMMA SeekStep ==
  ASSUME ListIInv, NEW t \in Thread, NEW k \in Int, NEW mode \in {"le", "lt", "ge", "gt", "last"},
         Seek(t, mode, k)
  PROVE  ListIInv'
<1> PICK me : me = IdleThread
  OBVIOUS
<1> PICK from : from = now_height - 1
  OBVIOUS
<1> PICK i : i = me.i
  OBVIOUS
<1>1. i \in Nat /\ from \in Level
  BY BeginFacts, IdleLocals
<1> PICK r : Reads(t, mode, KeySet, r) /\ ReadsAs(me, r, from, "seek", k, mode, i)
  BY SeekReads
<1> PICK op, name, ks : op = "seek" /\ name = mode /\ ks = KeySet
  OBVIOUS
<1>2. ReadsAs(me, r, from, op, k, mode, i) /\ Reads(t, name, ks, r)
  OBVIOUS
<1>3. /\ op \in {"find", "seek", "scan", "refresh"} /\ op # "refresh" /\ op # "find" /\ op # "scan"
      /\ mode \in {"none", "le", "lt", "ge", "gt", "last"}
  OBVIOUS
<1> QED
  BY <1>1, <1>2, <1>3, ReadsStep

\* What a scan begins with.
LEMMA ScanReads ==
  ASSUME ListIInv, NEW t \in Thread, Scan(t), NEW me, me = IdleThread
  PROVE  \E r : Reads(t, "scan", KeySet, r) /\ ReadsAs(me, r, 0, "scan", me.k, me.mode, me.i)
<1>1. DOMAIN me = Locals
  BY IdleLocals
<1> PICK q : q = Search(me, 0, 0, Head, Tail)
  OBVIOUS
<1>2. /\ DOMAIN q = Locals /\ q.pc = "read" /\ q.lv = 0 /\ q.target = 0 /\ q.x = Head /\ q.after = Tail
      /\ \A f \in Locals \ {"pc", "lv", "target", "x", "after"} : q[f] = me[f]
  BY <1>1, SearchIs
<1> PICK r : r = [q EXCEPT !.op = "scan"]
  OBVIOUS
<1>3. Reads(t, "scan", KeySet, r)
  BY DEF Scan
<1>4. DOMAIN r = Locals /\ r.op = "scan"
  BY <1>2 DEF Locals
<1>5. \A f \in Locals \ {"op"} : r[f] = q[f]
  BY <1>2
<1>6. /\ r.pc = "read" /\ r.lv = 0 /\ r.target = 0 /\ r.x = Head /\ r.after = Tail
      /\ r.k = me.k /\ r.mode = me.mode /\ r.i = me.i
      /\ \A f \in Locals \ {"pc", "op", "lv", "target", "x", "after", "k", "mode", "i"} : r[f] = me[f]
  BY <1>2, <1>5 DEF Locals
<1>7. ReadsAs(me, r, 0, "scan", me.k, me.mode, me.i)
  BY <1>4, <1>6 DEF ReadsAs
<1> QED
  BY <1>3, <1>7

\* Scan.
LEMMA ScanStep == ASSUME ListIInv, NEW t \in Thread, Scan(t) PROVE ListIInv'
<1> PICK me : me = IdleThread
  OBVIOUS
<1> PICK i, k, mode, z : i = me.i /\ k = me.k /\ mode = me.mode /\ z = 0
  OBVIOUS
<1>1. z \in Level /\ k \in Int /\ i \in Nat /\ mode \in {"none", "le", "lt", "ge", "gt", "last"}
  BY IdleLocals, NodeFacts
<1> PICK r : Reads(t, "scan", KeySet, r) /\ ReadsAs(me, r, 0, "scan", me.k, me.mode, me.i)
  BY ScanReads
<1> PICK op, name, ks : op = "scan" /\ name = "scan" /\ ks = KeySet
  OBVIOUS
<1>2. ReadsAs(me, r, z, op, k, mode, i) /\ Reads(t, name, ks, r)
  OBVIOUS
<1>3. op \in {"find", "seek", "scan", "refresh"} /\ op # "refresh" /\ op # "find" /\ z = 0
  OBVIOUS
<1> QED
  BY <1>1, <1>2, <1>3, ReadsStep

\* What refresh_all_links begins with.
LEMMA RefreshReads ==
  ASSUME ListIInv, NEW t \in Thread, RefreshAllLinks(t), NEW me, me = IdleThread
  PROVE  \E r : Reads(t, "refresh", {}, r) /\ ReadsAs(me, r, 0, "refresh", me.k, me.mode, now_height)
<1>1. DOMAIN me = Locals
  BY IdleLocals
<1> PICK i : i = now_height
  OBVIOUS
<1> PICK q : q = Search(me, 0, 0, Head, Tail)
  OBVIOUS
<1>2. /\ DOMAIN q = Locals /\ q.pc = "read" /\ q.lv = 0 /\ q.target = 0 /\ q.x = Head /\ q.after = Tail
      /\ \A f \in Locals \ {"pc", "lv", "target", "x", "after"} : q[f] = me[f]
  BY <1>1, SearchIs
<1> PICK r : r = [q EXCEPT !.op = "refresh", !.i = i]
  OBVIOUS
<1>3. Reads(t, "refresh", {}, r)
  BY DEF RefreshAllLinks
<1>4. DOMAIN r = Locals /\ r.op = "refresh" /\ r.i = i
  BY <1>2 DEF Locals
<1>5. \A f \in Locals \ {"op", "i"} : r[f] = q[f]
  BY <1>2
<1>6. /\ r.pc = "read" /\ r.lv = 0 /\ r.target = 0 /\ r.x = Head /\ r.after = Tail
      /\ r.k = me.k /\ r.mode = me.mode
      /\ \A f \in Locals \ {"pc", "op", "lv", "target", "x", "after", "k", "mode", "i"} : r[f] = me[f]
  BY <1>2, <1>5 DEF Locals
<1>7. ReadsAs(me, r, 0, "refresh", me.k, me.mode, i)
  BY <1>4, <1>6 DEF ReadsAs
<1> QED
  BY <1>3, <1>7

\* RefreshAllLinks.
LEMMA RefreshStep == ASSUME ListIInv, NEW t \in Thread, RefreshAllLinks(t) PROVE ListIInv'
<1> PICK me : me = IdleThread
  OBVIOUS
<1> PICK i, k, mode, z : i = now_height /\ k = me.k /\ mode = me.mode /\ z = 0
  OBVIOUS
<1>1. /\ z \in Level /\ k \in Int /\ i \in Nat /\ i \in 1 .. MaxHeight
      /\ mode \in {"none", "le", "lt", "ge", "gt", "last"}
  BY BeginFacts, IdleLocals, NodeFacts
<1> PICK r : Reads(t, "refresh", {}, r) /\ ReadsAs(me, r, 0, "refresh", me.k, me.mode, now_height)
  BY RefreshReads
<1> PICK op, name, ks : op = "refresh" /\ name = "refresh" /\ ks = {}
  OBVIOUS
<1>2. ReadsAs(me, r, z, op, k, mode, i) /\ Reads(t, name, ks, r)
  OBVIOUS
<1>3. op \in {"find", "seek", "scan", "refresh"} /\ op # "scan" /\ op # "find"
  OBVIOUS
<1> QED
  BY <1>1, <1>2, <1>3, ReadsStep

\* q is the thread me at the beginning of a whole search
WholeAs(me, q, h) ==
    /\ DOMAIN q = Locals /\ q.pc = "read" /\ q.lv = h - 1 /\ q.target = 0 /\ q.x = Head /\ q.after = Tail
    /\ q.sh = h /\ q.prev = [l \in 0 .. MaxHeight |-> Head] /\ q.nxt = [l \in 0 .. MaxHeight |-> Tail]
    /\ \A f \in Locals \ {"pc", "lv", "target", "x", "after", "sh", "prev", "nxt"} : q[f] = me[f]

\* The fields recompute_splice_levels sets.
LEMMA WholeSearchIs ==
  ASSUME NEW me, DOMAIN me = Locals, NEW h, NEW q, q = WholeSearch(me, h)
  PROVE  WholeAs(me, q, h)
<1> PICK from : from = h - 1
  OBVIOUS
<1> PICK p : p = Search(me, from, 0, Head, Tail)
  OBVIOUS
<1>1. /\ DOMAIN p = Locals /\ p.pc = "read" /\ p.lv = from /\ p.target = 0 /\ p.x = Head /\ p.after = Tail
      /\ \A f \in Locals \ {"pc", "lv", "target", "x", "after"} : p[f] = me[f]
  BY SearchIs
<1>2. q = [p EXCEPT !.sh = h, !.prev = IdleThread.prev, !.nxt = IdleThread.nxt]
  BY DEF WholeSearch
<1>3. DOMAIN q = Locals /\ q.sh = h /\ q.prev = IdleThread.prev /\ q.nxt = IdleThread.nxt
  BY <1>1, <1>2 DEF Locals
<1>4. \A f \in Locals \ {"sh", "prev", "nxt"} : q[f] = p[f]
  BY <1>1, <1>2
<1>5. q.pc = "read" /\ q.lv = h - 1 /\ q.target = 0 /\ q.x = Head /\ q.after = Tail
  BY <1>1, <1>4 DEF Locals
<1>6. IdleThread.prev = [l \in 0 .. MaxHeight |-> Head] /\ IdleThread.nxt = [l \in 0 .. MaxHeight |-> Tail]
  BY DEF IdleThread
<1> QED
  BY <1>1, <1>3, <1>4, <1>5, <1>6 DEF WholeAs

\* r is the thread me at the beginning of an erase
ErasesAs(me, r, h, op, k, n) ==
    /\ DOMAIN r = Locals /\ r.pc = "read" /\ r.op = op /\ r.k = k /\ r.n = n /\ r.then = "pick"
    /\ r.lv = h - 1 /\ r.target = 0 /\ r.x = Head /\ r.after = Tail
    /\ r.sh = h /\ r.prev = [l \in 0 .. MaxHeight |-> Head] /\ r.nxt = [l \in 0 .. MaxHeight |-> Tail]
    /\ \A f \in {"i", "y", "z", "probe", "bad", "res", "mode", "fix", "tight"} : r[f] = me[f]

\* Erase and EraseNode begin with a whole search.
LEMMA EraseBegins ==
  ASSUME ListIInv, NEW t \in Thread, NEW me, me = th[t], NEW ks,
         NEW h \in 1 .. MaxHeight, NEW op \in {"erase", "erase_node"}, NEW k \in Int, NEW n \in Some \cup {Head},
         op = "erase_node" => n \in Node /\ k = Key[n],
         BeginCall(t, op, ks), NEW r, ErasesAs(me, r, h, op, k, n), Put(t, r),
         UNCHANGED <<links, counts, height, now_height>>
  PROVE  ListIInv'
<1>1. /\ DOMAIN r = Locals /\ r.pc = "read" /\ r.op = op /\ r.k = k /\ r.n = n /\ r.then = "pick"
      /\ r.lv = h - 1 /\ r.target = 0 /\ r.x = Head /\ r.after = Tail
      /\ r.sh = h /\ r.prev = [l \in 0 .. MaxHeight |-> Head] /\ r.nxt = [l \in 0 .. MaxHeight |-> Tail]
      /\ r.i = me.i /\ r.y = me.y /\ r.z = me.z /\ r.probe = me.probe /\ r.bad = me.bad /\ r.res = me.res
      /\ r.mode = me.mode /\ r.fix = me.fix /\ r.tight = me.tight
  BY DEF ErasesAs
<1>2. LocalType(me)
  BY OwnerFacts DEF ListIInv, ThreadInv
<1>3. LocalType(r)
  <2>1. h - 1 \in Nat /\ h \in 0 .. MaxHeight
    BY NodeFacts
  <2> QED
    BY <1>1, <1>2, <2>1 DEF LocalType, Busy, Searching, Linkable, Some, SpliceOps
<1>4. ThreadInv(r) /\ ~Fresh(r) /\ ~Building(r)
  BY <1>1, <1>3, StartEraseOK
<1>5. r.pc = "read"
  BY <1>1
<1> QED
  BY <1>4, <1>5, BeginStep

\* What an erase with a key begins with.
LEMMA EraseIs ==
  ASSUME ListIInv, NEW t \in Thread, NEW k, Erase(t, k), NEW me, me = th[t]
  PROVE  \E r : Put(t, r) /\ ErasesAs(me, r, now_height, "erase", k, me.n)
<1> PICK h, n : h = now_height /\ n = me.n
  OBVIOUS
<1> PICK q : q = WholeSearch(me, h)
  OBVIOUS
<1>1. WholeAs(me, q, h)
  BY BeginFacts, WholeSearchIs
<1> PICK r : r = [q EXCEPT !.op = "erase", !.k = k, !.then = "pick"]
  OBVIOUS
<1>2. Put(t, r)
  BY DEF Erase
<1>3. DOMAIN r = Locals /\ r.op = "erase" /\ r.k = k /\ r.then = "pick"
  BY <1>1 DEF WholeAs, Locals
<1>4. \A f \in Locals \ {"op", "k", "then"} : r[f] = q[f]
  BY <1>1 DEF WholeAs
<1>5. /\ r.pc = "read" /\ r.lv = h - 1 /\ r.target = 0 /\ r.x = Head /\ r.after = Tail /\ r.n = n
      /\ r.sh = h /\ r.prev = [l \in 0 .. MaxHeight |-> Head] /\ r.nxt = [l \in 0 .. MaxHeight |-> Tail]
      /\ \A f \in {"i", "y", "z", "probe", "bad", "res", "mode", "fix", "tight"} : r[f] = me[f]
  BY <1>1, <1>4 DEF WholeAs, Locals
<1>6. ErasesAs(me, r, h, "erase", k, n)
  BY <1>3, <1>5 DEF ErasesAs
<1> QED
  BY <1>2, <1>6

\* Erase.
LEMMA EraseStep == ASSUME ListIInv, NEW t \in Thread, NEW m \in plan[t].nodes, Erase(t, Key[m]) PROVE ListIInv'
<1> PICK me : me = th[t]
  OBVIOUS
<1> PICK k, h, n : k = Key[m] /\ h = now_height /\ n = me.n
  OBVIOUS
<1>1. k \in Int /\ h \in 1 .. MaxHeight /\ n \in Some \cup {Head}
  <2>1. LocalType(me)
    BY OwnerFacts DEF ListIInv, ThreadInv
  <2> QED
    BY <2>1, BeginFacts DEF LocalType
<1>2. Erase(t, k)
  OBVIOUS
<1> PICK r : Put(t, r) /\ ErasesAs(me, r, h, "erase", k, n)
  BY <1>2, EraseIs
<1>4. BeginCall(t, "erase", {k}) /\ UNCHANGED <<links, counts, height, now_height>>
  BY DEF Erase
<1> QED
  BY <1>1, <1>4, EraseBegins

\* The height of the search of an erase with a node.
LEMMA LargerIn ==
  ASSUME ListIInv, NEW n \in Node
  PROVE  Larger(height[n], now_height) \in 1 .. MaxHeight
<1>1. height[n] \in 0 .. MaxHeight /\ now_height \in 1 .. MaxHeight
  BY DEF ListIInv, Types
<1> QED
  BY <1>1, NodeFacts DEF Larger

\* What an erase with a node begins with.
LEMMA EraseNodeIs ==
  ASSUME ListIInv, NEW t \in Thread, NEW n, EraseNode(t, n), NEW me, me = th[t]
  PROVE  \E r : Put(t, r) /\ ErasesAs(me, r, Larger(height[n], now_height), "erase_node", Key[n], n)
<1> PICK h, k : h = Larger(height[n], now_height) /\ k = Key[n]
  OBVIOUS
<1> PICK q : q = WholeSearch(me, h)
  OBVIOUS
<1>1. WholeAs(me, q, h)
  BY BeginFacts, WholeSearchIs
<1> PICK r : r = [q EXCEPT !.op = "erase_node", !.k = k, !.n = n, !.then = "pick"]
  OBVIOUS
<1>2. Put(t, r)
  BY DEF EraseNode
<1>3. DOMAIN r = Locals /\ r.op = "erase_node" /\ r.k = k /\ r.n = n /\ r.then = "pick"
  BY <1>1 DEF WholeAs, Locals
<1>4. \A f \in Locals \ {"op", "k", "n", "then"} : r[f] = q[f]
  BY <1>1 DEF WholeAs
<1>5. /\ r.pc = "read" /\ r.lv = h - 1 /\ r.target = 0 /\ r.x = Head /\ r.after = Tail
      /\ r.sh = h /\ r.prev = [l \in 0 .. MaxHeight |-> Head] /\ r.nxt = [l \in 0 .. MaxHeight |-> Tail]
      /\ \A f \in {"i", "y", "z", "probe", "bad", "res", "mode", "fix", "tight"} : r[f] = me[f]
  BY <1>1, <1>4 DEF WholeAs, Locals
<1>6. ErasesAs(me, r, h, "erase_node", k, n)
  BY <1>3, <1>5 DEF ErasesAs
<1> QED
  BY <1>2, <1>6

\* EraseNode.
LEMMA EraseNodeStep == ASSUME ListIInv, NEW t \in Thread, NEW n \in plan[t].nodes, EraseNode(t, n) PROVE ListIInv'
<1> PICK me : me = th[t]
  OBVIOUS
<1> PICK h, k : h = Larger(height[n], now_height) /\ k = Key[n]
  OBVIOUS
<1>1. k \in Int /\ n \in Node /\ n \in Some \cup {Head}
  BY BeginFacts DEF Some
<1>2. h \in 1 .. MaxHeight
  BY <1>1, LargerIn
<1> PICK r : Put(t, r) /\ ErasesAs(me, r, h, "erase_node", k, n)
  BY EraseNodeIs
<1>5. BeginCall(t, "erase_node", {k}) /\ UNCHANGED <<links, counts, height, now_height>>
  BY DEF EraseNode
<1> QED
  BY <1>1, <1>2, <1>5, EraseBegins

\* q is the thread me when it is about to insert n
InsertsAs(me, q, n) ==
    /\ DOMAIN q = Locals /\ q.op = "insert" /\ q.k = Key[n] /\ q.n = n /\ q.then = "link0"
    /\ \A f \in Locals \ {"op", "k", "n", "then", "alone"} : q[f] = me[f]

\* The fields an insert sets.
LEMMA InsertingIs ==
  ASSUME NEW t, NEW me, me = th[t], DOMAIN me = Locals, NEW n, NEW q, q = Inserting(t, n)
  PROVE  InsertsAs(me, q, n)
<1> PICK k : k = Key[n]
  OBVIOUS
<1> PICK a : a = Alone(t)
  OBVIOUS
<1>1. q = [me EXCEPT !.op = "insert", !.k = k, !.n = n, !.then = "link0", !.alone = a]
  BY DEF Inserting
<1>2. DOMAIN q = Locals /\ q.op = "insert" /\ q.k = k /\ q.n = n /\ q.then = "link0"
  BY <1>1 DEF Locals
<1>3. \A f \in Locals \ {"op", "k", "n", "then", "alone"} : q[f] = me[f]
  BY <1>1
<1> QED
  BY <1>2, <1>3 DEF InsertsAs

\* r is the thread me that begins an insert of n with a search of h levels
WholeInsert(me, n, h, r) ==
    /\ LocalType(r) /\ r.op = "insert" /\ r.k = Key[n] /\ r.n = n /\ r.then = "link0" /\ r.i = me.i
    /\ r.pc = "read" /\ r.sh = h /\ r.lv = r.sh - 1 /\ r.target = 0 /\ r.x = Head /\ r.after = Tail
    /\ r.prev = [l \in 0 .. MaxHeight |-> Head] /\ r.nxt = [l \in 0 .. MaxHeight |-> Tail]

\* The local variables of an insert that begins with a whole search.
LEMMA WholeTyped ==
  ASSUME NEW me, LocalType(me), NEW n \in Node, NEW q, InsertsAs(me, q, n),
         NEW h \in 1 .. MaxHeight, NEW r, WholeAs(q, r, h)
  PROVE  WholeInsert(me, n, h, r)
<1>1. /\ DOMAIN r = Locals /\ r.pc = "read" /\ r.lv = h - 1 /\ r.target = 0 /\ r.x = Head /\ r.after = Tail
      /\ r.sh = h /\ r.prev = [l \in 0 .. MaxHeight |-> Head] /\ r.nxt = [l \in 0 .. MaxHeight |-> Tail]
  BY DEF WholeAs
<1>2. /\ r.op = "insert" /\ r.k = Key[n] /\ r.n = n /\ r.then = "link0"
      /\ r.i = q.i /\ r.y = q.y /\ r.z = q.z /\ r.probe = q.probe /\ r.bad = q.bad /\ r.res = q.res
      /\ r.mode = q.mode /\ r.fix = q.fix /\ r.tight = q.tight
  BY DEF WholeAs, InsertsAs, Locals
<1>3. /\ q.i = me.i /\ q.y = me.y /\ q.z = me.z /\ q.probe = me.probe /\ q.bad = me.bad /\ q.res = me.res
      /\ q.mode = me.mode /\ q.fix = me.fix /\ q.tight = me.tight
  BY DEF InsertsAs, Locals
<1>4. h - 1 \in Nat /\ h \in 0 .. MaxHeight /\ Key[n] \in Int
  BY NodeFacts
<1>5. LocalType(r)
  BY <1>1, <1>2, <1>3, <1>4 DEF LocalType, Busy, Searching, Linkable, Some, SpliceOps
<1> QED
  BY <1>1, <1>2, <1>3, <1>5 DEF WholeInsert

\* An insert begins, with a whole search.
LEMMA WholeBegun ==
  ASSUME NEW t, NEW me, me = th[t], LocalType(me), Shape(me), me.pc = "idle", NEW n \in Node,
         NEW h \in 1 .. MaxHeight, h = now_height', NEW r, r = WholeSearch(Inserting(t, n), h)
  PROVE  Begun(me, n, r)'
<1> PICK q : q = Inserting(t, n)
  OBVIOUS
<1>1. InsertsAs(me, q, n)
  BY InsertingIs DEF LocalType
<1>2. WholeAs(q, r, h)
  BY <1>1, WholeSearchIs DEF InsertsAs
<1>3. WholeInsert(me, n, h, r)
  BY <1>1, <1>2, WholeTyped
<1>4. me.i = 0
  BY DEF Shape
<1>5. LocalType(r)'
  BY <1>3 DEF WholeInsert, LocalType
<1>6. r.sh = now_height'
  BY <1>3 DEF WholeInsert
<1> QED
  BY <1>3, <1>4, <1>5, <1>6 DEF WholeInsert, Begun

\* An insert begins, with a splice used again.
LEMMA AgainBegun ==
  ASSUME NEW t, NEW me, me = th[t], LocalType(me), Shape(me), me.pc = "idle", NEW n \in Node,
         me.sh >= now_height', NEW fix \in {"partial", "whole"},
         NEW r, r = [Inserting(t, n) EXCEPT !.pc = "valid", !.fix = fix]
  PROVE  Begun(me, n, r)'
<1> PICK q : q = Inserting(t, n)
  OBVIOUS
<1>1. InsertsAs(me, q, n)
  BY InsertingIs DEF LocalType
<1>2. r = [q EXCEPT !.pc = "valid", !.fix = fix]
  OBVIOUS
<1>3. DOMAIN r = Locals /\ r.pc = "valid" /\ r.fix = fix /\ \A f \in Locals \ {"pc", "fix"} : r[f] = q[f]
  BY <1>1, <1>2 DEF InsertsAs, Locals
<1>4. /\ r.op = "insert" /\ r.k = Key[n] /\ r.n = n /\ r.then = "link0"
      /\ r.i = q.i /\ r.y = q.y /\ r.z = q.z /\ r.probe = q.probe /\ r.bad = q.bad /\ r.res = q.res
      /\ r.mode = q.mode /\ r.tight = q.tight /\ r.lv = q.lv /\ r.target = q.target /\ r.x = q.x
      /\ r.after = q.after /\ r.sh = q.sh /\ r.prev = q.prev /\ r.nxt = q.nxt
  BY <1>1, <1>3 DEF InsertsAs, Locals
<1>5. /\ q.i = me.i /\ q.y = me.y /\ q.z = me.z /\ q.probe = me.probe /\ q.bad = me.bad /\ q.res = me.res
      /\ q.mode = me.mode /\ q.tight = me.tight /\ q.lv = me.lv /\ q.target = me.target /\ q.x = me.x
      /\ q.after = me.after /\ q.sh = me.sh /\ q.prev = me.prev /\ q.nxt = me.nxt
  BY <1>1 DEF InsertsAs, Locals
<1>6. me.i = 0 /\ me.lv = 0
  BY DEF Shape
<1>7. LocalType(r)
  <2>1. Key[n] \in Int
    BY NodeFacts
  <2> QED
    BY <1>3, <1>4, <1>5, <2>1 DEF LocalType, Busy, Searching, Linkable, Some, SpliceOps
<1>8. LocalType(r)'
  BY <1>7 DEF LocalType
<1> QED
  BY <1>3, <1>4, <1>5, <1>6, <1>8 DEF Begun

\* Insert and InsertAgain.
LEMMA InsertBegins ==
  ASSUME ListIInv, NEW t \in Thread, NEW me, me = th[t], NEW op, NEW ks, BeginCall(t, op, ks),
         NEW n \in Node, NEW h \in 1 .. MaxHeight, Prepare(n, h), NEW r, Put(t, r), Begun(me, n, r)'
  PROVE  ListIInv'
<1>1. me.pc = "idle" /\ present' = present
  BY DEF BeginCall
<1>2. plan' \in [Thread -> [left : Nat, ops : SUBSET STRING, nodes : SUBSET Node]]
  BY PlanTyped DEF ListIInv
<1>3. Moves(t, r)
  BY PutMoves DEF ListIInv, Threads
<1> QED
  BY <1>1, <1>2, <1>3, PrepareStep

\* Insert.
LEMMA InsertStep ==
  ASSUME ListIInv, NEW t \in Thread, NEW n \in plan[t].nodes, NEW h \in 1 .. MaxHeight, Insert(t, n, h)
  PROVE  ListIInv'
<1> PICK me : me = th[t]
  OBVIOUS
<1> PICK H : H = now_height'
  OBVIOUS
<1>1. BeginCall(t, "insert", {Key[n]}) /\ Prepare(n, h) /\ n \in Node
  BY BeginFacts DEF Insert
<1>2. LocalType(me) /\ Shape(me)
  BY OwnerFacts DEF ListIInv, ThreadInv
<1>3. H \in 1 .. MaxHeight
  <2>1. now_height \in 1 .. MaxHeight
    BY DEF ListIInv, Types
  <2> QED
    BY <1>1, <2>1, NodeFacts DEF Prepare, Larger
<1> PICK r : r = WholeSearch(Inserting(t, n), H)
  OBVIOUS
<1>4. Put(t, r)
  BY DEF Insert
<1>5. me.pc = "idle"
  BY <1>1 DEF BeginCall
<1>6. Begun(me, n, r)'
  BY <1>1, <1>2, <1>3, <1>5, WholeBegun
<1> QED
  BY <1>1, <1>4, <1>6, InsertBegins

\* InsertAgain.
LEMMA InsertAgainStep ==
  ASSUME ListIInv, NEW t \in Thread, NEW n \in plan[t].nodes, NEW h \in 1 .. MaxHeight,
         NEW fix \in {"partial", "whole"}, InsertAgain(t, n, h, fix)
  PROVE  ListIInv'
<1> PICK me : me = th[t]
  OBVIOUS
<1> PICK H : H = now_height'
  OBVIOUS
<1>1. BeginCall(t, "insert_again", {Key[n]}) /\ Prepare(n, h) /\ n \in Node
  BY BeginFacts DEF InsertAgain
<1>2. LocalType(me) /\ Shape(me)
  BY OwnerFacts DEF ListIInv, ThreadInv
<1>3. H \in 1 .. MaxHeight
  <2>1. now_height \in 1 .. MaxHeight
    BY DEF ListIInv, Types
  <2> QED
    BY <1>1, <2>1, NodeFacts DEF Prepare, Larger
<1>4. me.pc = "idle"
  BY <1>1 DEF BeginCall
<1>5. CASE me.sh < H
  <2> PICK r : r = WholeSearch(Inserting(t, n), H)
    OBVIOUS
  <2>1. Put(t, r)
    BY <1>5 DEF InsertAgain
  <2>2. Begun(me, n, r)'
    BY <1>1, <1>2, <1>3, <1>4, WholeBegun
  <2> QED
    BY <1>1, <2>1, <2>2, InsertBegins
<1>6. CASE ~(me.sh < H)
  <2>1. \E r : Put(t, r) /\ Begun(me, n, r)'
    <3> PICK r : r = [Inserting(t, n) EXCEPT !.pc = "valid", !.fix = fix]
      OBVIOUS
    <3>1. Put(t, r)
      BY <1>6 DEF InsertAgain
    <3>2. me.sh >= now_height'
      BY <1>2, <1>3, <1>6, NodeFacts DEF LocalType
    <3>3. Begun(me, n, r)'
      BY <1>1, <1>2, <1>4, <3>2, AgainBegun
    <3> QED
      BY <3>1, <3>3
  <2> QED
    BY <1>1, <2>1, InsertBegins
<1> QED
  BY <1>5, <1>6

\* The invariant speaks of these variables.
LEMMA Stutters == ASSUME ListIInv, UNCHANGED vars PROVE ListIInv'
<1>1. /\ next' = next /\ deleting' = deleting /\ height' = height /\ refs' = refs /\ now_height' = now_height
      /\ th' = th /\ plan' = plan /\ present' = present /\ retired' = retired
  BY DEF vars, links, counts, keys, call
<1>2. \A n : WasLinked(n)' <=> WasLinked(n)
  BY <1>1 DEF WasLinked, Refused
<1>3. \A l : Walk(l)' = Walk(l)
  BY <1>1 DEF Walk
<1>4. \A l : Chain(l)' = Chain(l)
  BY <1>3 DEF Chain
<1>5. \A n, l : Reached(n, l)' <=> Reached(n, l)
  BY <1>1, <1>2, <1>4 DEF Reached
<1>6. \A n, l : ReachedOrTail(n, l)' <=> ReachedOrTail(n, l)
  BY <1>5 DEF ReachedOrTail
<1>7. \A n : Counted(n)' = Counted(n)
  BY <1>1, <1>4 DEF Counted
<1>8. Types' /\ Chains' /\ Marks' /\ Marking' /\ Whole' /\ Owners' /\ Counts' /\ SetIsLevel0'
  BY <1>1, <1>2, <1>4, <1>7
     DEF ListIInv, Types, Chains, IsChain, Marks, Marking, Whole, Owners, Counts, SetIsLevel0
<1>9. Links'
  BY <1>1, <1>2, <1>4, <1>5 DEF ListIInv, Links
<1>10. HandsApart'
  BY <1>1, <1>2, <1>4 DEF ListIInv, HandsApart
<1>11. Threads'
  <2>1. \A me : Hands(me) => Hands(me)'
    BY <1>1, <1>5, <1>6 DEF Hands
  <2>2. \A me : SpliceInv(me) => SpliceInv(me)'
    BY <1>5, <1>6 DEF SpliceInv
  <2>3. \A me : NodeInv(me) => NodeInv(me)'
    <3> SUFFICES ASSUME NEW me, NodeInv(me) PROVE NodeInv(me)'
      OBVIOUS
    <3>1. /\ refs'[me.n] = refs[me.n] /\ (me.n \notin retired <=> me.n \notin retired')
          /\ height'[me.n] = height[me.n] /\ next'[me.n] = next[me.n] /\ deleting'[me.n] = deleting[me.n]
      BY <1>1
    <3>2. /\ (WasLinked(me.n)' <=> WasLinked(me.n))
          /\ \A l : (Reached(me.n, l)' <=> Reached(me.n, l)) /\ Chain(l)' = Chain(l)
      BY <1>2, <1>4, <1>5
    <3> QED
      BY <3>1, <3>2 DEF NodeInv
  <2>4. \A me : ThreadInv(me) => ThreadInv(me)'
    BY <2>1, <2>2, <2>3 DEF ThreadInv
  <2> QED
    BY <1>1, <2>4 DEF ListIInv, Threads
<1> QED
  BY <1>8, <1>9, <1>10, <1>11 DEF ListIInv

\* Every step keeps the invariant.
LEMMA ListStep == ASSUME ListIInv, [Next]_vars PROVE ListIInv'
<1>1. ASSUME NEW t \in Thread, Call(t) PROVE ListIInv'
  <2>1. \A n \in plan[t].nodes : Key[n] \in Int
    BY BeginFacts
  <2>2. CASE \E n \in plan[t].nodes, h \in 1 .. MaxHeight :
               Insert(t, n, h) \/ \E fix \in {"partial", "whole"} : InsertAgain(t, n, h, fix)
    BY <2>2, InsertStep, InsertAgainStep
  <2>3. CASE \E n \in plan[t].nodes : EraseNode(t, n)
    BY <2>3, EraseNodeStep
  <2>4. CASE \E n \in plan[t].nodes : Erase(t, Key[n]) \/ Find(t, Key[n])
    BY <2>4, EraseStep, FindStep
  <2>5. CASE \E n \in plan[t].nodes, mode \in {"le", "lt", "ge", "gt"} : Seek(t, mode, Key[n])
    <3> PICK n \in plan[t].nodes, mode \in {"le", "lt", "ge", "gt"} : Seek(t, mode, Key[n])
      BY <2>5
    <3> PICK k : k = Key[n]
      OBVIOUS
    <3>1. Seek(t, mode, k) /\ k \in Int /\ mode \in {"le", "lt", "ge", "gt", "last"}
      BY <2>1
    <3> QED
      BY <3>1, SeekStep
  <2>6. CASE Seek(t, "last", 0)
    <3> PICK k : k = 0
      OBVIOUS
    <3> PICK mode : mode = "last"
      OBVIOUS
    <3>1. Seek(t, mode, k) /\ k \in Int /\ mode \in {"le", "lt", "ge", "gt", "last"}
      BY <2>6
    <3> QED
      BY <3>1, SeekStep
  <2>7. CASE Scan(t) \/ RefreshAllLinks(t)
    BY <2>7, ScanStep, RefreshStep
  <2> QED
    BY <1>1, <2>2, <2>3, <2>4, <2>5, <2>6, <2>7 DEF Call
<1>2. ASSUME NEW t \in Thread, Step(t) PROVE ListIInv'
  BY <1>2, ReadStep, SkipStep, CheckStep, UnlinkStep, UnrefStep, ProbeStep, ValidateStep, Link0Action,
     DirtyStep, OwnAction, RefAction, LinkAction, UndoAction, MarkAction, CutAction, CutRefAction,
     ReturnAction DEF Step
<1> QED
  BY <1>1, <1>2, Stutters DEF Next

-------------------------------------------------------------------------------
\* Some nodes have a first one.
LEMMA FirstKey ==
  ASSUME NEW D \in SUBSET Node, D # {}
  PROVE  \E y \in D : \A z \in D : Key[y] <= Key[z]
<1> DEFINE B(y) == {v \in D : Key[v] < Key[y]}
           T == {Cardinality(B(y)) : y \in D}
<1>1. IsFiniteSet(D) /\ \A y \in D : Key[y] \in Int
  BY NodeFacts, FS_Subset
<1>2. ASSUME NEW y \in D PROVE IsFiniteSet(B(y)) /\ Cardinality(B(y)) \in Nat
  <2>1. B(y) \subseteq D
    OBVIOUS
  <2> HIDE DEF B
  <2> QED
    BY <1>1, <2>1, FS_Subset, FS_CardinalityType
<1>3. T \in SUBSET Nat /\ T # {}
  BY <1>2
<1>4. PICK c \in T : \A d \in T : c <= d
  BY <1>3, Least
<1>5. PICK y \in D : c = Cardinality(B(y))
  OBVIOUS
<1>6. ASSUME NEW z \in D, ~(Key[y] <= Key[z]) PROVE FALSE
  <2>1. Key[z] < Key[y] /\ ~(Key[z] < Key[z])
    BY <1>1, <1>6
  <2>2. B(z) \subseteq B(y) /\ z \in B(y) /\ z \notin B(z)
    BY <1>1, <2>1
  <2>3. Cardinality(B(y)) <= Cardinality(B(z))
    BY <1>4, <1>5
  <2> HIDE DEF B
  <2>4. Cardinality(B(z)) <= Cardinality(B(y)) /\ (Cardinality(B(z)) = Cardinality(B(y)) => B(z) = B(y))
    BY <1>2, <2>2, FS_Subset
  <2>5. Cardinality(B(z)) \in Nat /\ Cardinality(B(y)) \in Nat
    BY <1>2
  <2> QED
    BY <2>2, <2>3, <2>4, <2>5
<1> QED
  BY <1>6

\* The nodes of height above l, and those among which the next is to be found.
At(hs, l) == {n \in Node : hs[n] > l}
Beyond(hs, n, l) == {m \in At(hs, l) : n # Head => Key[m] > Key[n]}
FirstOf(hs, n, l) == {m \in Beyond(hs, n, l) : \A o \in Beyond(hs, n, l) : Key[m] <= Key[o]}

\* The links of a list built by insertions.
LEMMA ListOfIs ==
  ASSUME NEW hs, NEW n \in Linkable, NEW l \in Level
  PROVE  ListOf(hs)[n][l] =
           IF (n = Head \/ n \in At(hs, l)) /\ FirstOf(hs, n, l) # {}
           THEN CHOOSE m \in FirstOf(hs, n, l) : TRUE ELSE Tail
<1> DEFINE at(k) == {x \in Node : hs[x] > k}
           succ(x, k) == {m \in at(k) : (x # Head => Key[m] > Key[x])
                            /\ \A o \in at(k) : (x # Head => Key[o] > Key[x]) => Key[m] <= Key[o]}
<1>1. ListOf(hs) = [x \in Linkable |-> [k \in Level |->
            IF (x = Head \/ x \in at(k)) /\ succ(x, k) # {} THEN CHOOSE m \in succ(x, k) : TRUE ELSE Tail]]
  BY DEF ListOf
<1>2. at(l) = At(hs, l) /\ succ(n, l) = FirstOf(hs, n, l)
  BY DEF At, Beyond, FirstOf
<1> HIDE DEF at, succ
<1>3. ListOf(hs)[n][l] = IF (n = Head \/ n \in at(l)) /\ succ(n, l) # {} THEN CHOOSE m \in succ(n, l) : TRUE ELSE Tail
  BY <1>1
<1> QED
  BY <1>2, <1>3

\* It leads from each node to the first beyond it.
LEMMA ListOfLinks ==
  ASSUME NEW hs, NEW n \in Linkable, NEW l \in Level, NEW y, y = ListOf(hs)[n][l]
  PROVE  /\ y \in Some
         /\ y # Tail => /\ y \in At(hs, l) /\ (n = Head \/ (n \in At(hs, l) /\ Key[n] < Key[y]))
                        /\ \A z \in At(hs, l) : (n = Head \/ Key[n] < Key[z]) => Key[y] <= Key[z]
         /\ y = Tail /\ (n = Head \/ n \in At(hs, l)) =>
               \A z \in At(hs, l) : ~(n = Head \/ Key[n] < Key[z])
<1>0. At(hs, l) \subseteq Node /\ Beyond(hs, n, l) \subseteq Node
  BY DEF At, Beyond
<1>1. CASE (n = Head \/ n \in At(hs, l)) /\ FirstOf(hs, n, l) # {}
  <2>1. y \in FirstOf(hs, n, l)
    BY <1>1, ListOfIs
  <2>2. y \in At(hs, l) /\ (n # Head => Key[y] > Key[n]) /\ y \in Node /\ y # Tail
    BY <1>0, <2>1, NodeFacts DEF FirstOf, Beyond
  <2>3. \A z \in At(hs, l) : (n # Head => Key[z] > Key[n]) => Key[y] <= Key[z]
    BY <2>1 DEF FirstOf, Beyond
  <2>4. n \in At(hs, l) => Key[n] \in Int
    BY <1>0, NodeFacts
  <2>5. \A z \in At(hs, l) : Key[z] \in Int
    BY <1>0, NodeFacts
  <2>6. n = Head \/ (n \in At(hs, l) /\ Key[n] < Key[y])
    BY <1>1, <2>2, <2>4, <2>5
  <2>7. \A z \in At(hs, l) : (n = Head \/ Key[n] < Key[z]) => Key[y] <= Key[z]
    BY <1>1, <2>3, <2>4, <2>5
  <2> QED
    BY <2>2, <2>6, <2>7 DEF Some
<1>2. CASE ~((n = Head \/ n \in At(hs, l)) /\ FirstOf(hs, n, l) # {})
  <2>1. y = Tail
    BY <1>2, ListOfIs
  <2>2. ASSUME n = Head \/ n \in At(hs, l), NEW z \in At(hs, l), n = Head \/ Key[n] < Key[z]
        PROVE  FALSE
    <3>1. n \in At(hs, l) => Key[n] \in Int /\ Key[z] \in Int
      BY <1>0, <2>2, NodeFacts
    <3>2. z \in Beyond(hs, n, l)
      BY <2>2, <3>1, NodeFacts DEF Beyond
    <3>3. FirstOf(hs, n, l) # {}
      BY <1>0, <3>2, FirstKey DEF FirstOf
    <3> QED
      BY <1>2, <2>2, <3>3
  <2> QED
    BY <2>1, <2>2 DEF Some
<1> QED
  BY <1>1, <1>2

\* A set of numbers up to N has a greatest one.
LEMMA Greatest ==
  ASSUME NEW N \in Nat, NEW T \in SUBSET (0 .. N), T # {}
  PROVE  \E x \in T : \A y \in T : y <= x
<1> DEFINE S == {N - x : x \in T}
<1>1. S \in SUBSET Nat /\ S # {}
  OBVIOUS
<1>2. PICK m \in S : \A k \in S : m <= k
  BY <1>1, Least
<1>3. PICK x \in T : m = N - x
  OBVIOUS
<1>4. ASSUME NEW y \in T PROVE y <= x
  <2>1. N - y \in S
    OBVIOUS
  <2>2. m <= N - y
    BY <1>2, <2>1
  <2> QED
    BY <1>3, <2>2
<1> QED
  BY <1>4

\* The heights of a list that insertions have built.
Built(hs) ==
    /\ hs \in [Node -> 0 .. MaxHeight]
    /\ \A m, n \in Node : m # n /\ hs[m] > 0 /\ hs[n] > 0 => Key[m] # Key[n]
    /\ InitFrom(hs)

\* Its chains are sorted, and hold the nodes that are high enough.
LEMMA BuiltChains ==
  ASSUME NEW hs, Built(hs)
  PROVE  Chains /\ \A l \in Level : Chain(l) = At(hs, l)
<1>1. next = ListOf(hs) /\ hs \in [Node -> 0 .. MaxHeight]
  BY DEF Built, InitFrom
<1>2. ASSUME NEW l \in Level PROVE IsChain(l, At(hs, l))
  <2> PICK C : C = At(hs, l)
    OBVIOUS
  <2>1. C \subseteq Node /\ \A n \in C : hs[n] > l /\ hs[n] \in Int
    BY <1>1 DEF At
  <2>2. \A m, n \in C : Key[m] = Key[n] => m = n
    <3>1. \A n \in C : hs[n] > 0
      BY <2>1 DEF Level
    <3> QED
      BY <2>1, <3>1 DEF Built
  <2>3. ASSUME NEW x \in C \cup {Head}
        PROVE  /\ next[x][l] \in C \cup {Tail}
               /\ x \in C /\ next[x][l] \in C => Key[x] < Key[next[x][l]]
               /\ \A z \in C : (x = Head \/ Key[x] < Key[z]) =>
                     next[x][l] \in C /\ Key[next[x][l]] <= Key[z]
    <3> PICK y : y = next[x][l]
      OBVIOUS
    <3>1. x \in Linkable /\ (x = Head \/ x \in C) /\ (x \in C => x # Head)
      BY <2>1, <2>3, NodeFacts DEF Linkable
    <3>2. y = ListOf(hs)[x][l]
      BY <1>1
    <3>3. /\ y # Tail => /\ y \in C /\ (x = Head \/ (x \in C /\ Key[x] < Key[y]))
                         /\ \A z \in C : (x = Head \/ Key[x] < Key[z]) => Key[y] <= Key[z]
          /\ y = Tail => \A z \in C : ~(x = Head \/ Key[x] < Key[z])
      BY <3>1, <3>2, ListOfLinks
    <3>4. y \in C => y # Tail
      BY <2>1, NodeFacts
    <3> QED
      BY <3>1, <3>3, <3>4
  <2> QED
    BY <2>1, <2>2, <2>3 DEF IsChain
<1>3. \A l \in Level : Chain(l) = At(hs, l)
  BY <1>2, ChainIs
<1> QED
  BY <1>2, <1>3 DEF Chains

\* The invariant holds of it.
LEMMA BuiltInv == ASSUME NEW hs, Built(hs) PROVE ListIInv
<1>1. /\ next = ListOf(hs) /\ deleting = [n \in Linkable |-> [l \in Level |-> FALSE]]
      /\ height = hs /\ refs = hs /\ th = [t \in Thread |-> IdleThread] /\ plan \in Plans
      /\ present = {Key[n] : n \in {m \in Node : hs[m] > 0}} /\ retired = {}
      /\ hs \in [Node -> 0 .. MaxHeight]
  BY DEF Built, InitFrom
<1>2. \A t \in Thread : ThreadInv(th[t]) /\ ~Owner(th[t]) /\ th[t].pc = "idle"
  BY <1>1, IdleOK
<1>3. \A n \in Node : WasLinked(n) <=> hs[n] > 0
  BY <1>1, <1>2, WasLinkedIs DEF Owner
<1>4. Chains /\ \A l \in Level : Chain(l) = At(hs, l)
  BY BuiltChains
<1>5. \A n \in Linkable, l \in Level :
         /\ next[n][l] \in Some /\ next[n][l] # Head
         /\ next[n][l] # Tail => next[n][l] \in At(hs, l) /\ Follows(n, next[n][l])
  <2> SUFFICES ASSUME NEW n \in Linkable, NEW l \in Level
               PROVE  /\ next[n][l] \in Some /\ next[n][l] # Head
                      /\ next[n][l] # Tail => next[n][l] \in At(hs, l) /\ Follows(n, next[n][l])
    OBVIOUS
  <2> PICK y : y = next[n][l]
    OBVIOUS
  <2>1. y = ListOf(hs)[n][l]
    BY <1>1
  <2>2. y \in Some /\ (y # Tail => y \in At(hs, l) /\ (n = Head \/ Key[n] < Key[y]))
    BY <2>1, ListOfLinks
  <2> QED
    BY <2>2, NodeFacts DEF Some, Follows
<1>6. \A l \in Level : l \in Nat
  BY DEF Level
<1>7. \A n \in Node, l \in Level : hs[n] > l => Reached(n, l) /\ n \in Chain(l)
  <2> SUFFICES ASSUME NEW n \in Node, NEW l \in Level, hs[n] > l PROVE Reached(n, l) /\ n \in Chain(l)
    OBVIOUS
  <2>1. n \in Chain(l)
    BY <1>4 DEF At
  <2>2. WasLinked(n) /\ l < height[n]
    <3>1. hs[n] \in Int /\ l \in Nat
      BY <1>1, <1>6
    <3> QED
      BY <1>1, <1>3, <3>1
  <2>3. next[n][l] # Head
    BY <1>5 DEF Linkable
  <2> QED
    BY <2>1, <2>2, <2>3 DEF Reached
<1>8. Types
  <2>1. next \in [Linkable -> [Level -> Linkable \cup {Tail}]]
    <3>1. /\ next = [n \in Linkable |-> next[n]]
          /\ \A n \in Linkable : next[n] = [l \in Level |-> next[n][l]]
      BY <1>1 DEF ListOf
    <3>2. \A n \in Linkable, l \in Level : next[n][l] \in Linkable \cup {Tail}
      BY <1>5 DEF Some, Linkable
    <3> QED
      BY <3>1, <3>2
  <2>2. deleting \in [Linkable -> [Level -> BOOLEAN]]
    BY <1>1
  <2>3. height \in [Node -> 0 .. MaxHeight] /\ refs \in [Node -> Nat]
    <3>1. 0 .. MaxHeight \subseteq Nat
      OBVIOUS
    <3> QED
      BY <1>1, <3>1
  <2>4. now_height \in 1 .. MaxHeight /\ \A n \in Node : height[n] <= now_height
    <3> DEFINE top == {hs[n] : n \in Node} \cup {1}
    <3>1. now_height = CHOOSE h \in top : \A g \in top : g <= h
      BY DEF Built, InitFrom
    <3>2. top \in SUBSET (0 .. MaxHeight) /\ top # {} /\ 1 \in top /\ \A n \in Node : hs[n] \in top
      BY <1>1, NodeFacts
    <3> HIDE DEF top
    <3>3. \E h \in top : \A g \in top : g <= h
      BY <3>2, NodeFacts, Greatest
    <3>4. now_height \in top /\ \A g \in top : g <= now_height
      BY <3>1, <3>3
    <3>5. now_height \in 0 .. MaxHeight /\ 1 <= now_height
      BY <3>2, <3>4
    <3> QED
      BY <1>1, <3>2, <3>4, <3>5, NodeFacts
  <2>5. plan \in [Thread -> [left : Nat, ops : SUBSET STRING, nodes : SUBSET Node]]
    BY <1>1, ListAssumption
  <2> QED
    BY <2>1, <2>2, <2>3, <2>4, <2>5 DEF Types
<1>9. Threads
  BY <1>1, <1>2 DEF Threads
<1>10. Links
  <2>1. \A n \in Linkable, l \in Level : next[n][l] \in Node => Reached(next[n][l], l) /\ Follows(n, next[n][l])
    <3> SUFFICES ASSUME NEW n \in Linkable, NEW l \in Level, next[n][l] \in Node
                 PROVE  Reached(next[n][l], l) /\ Follows(n, next[n][l])
      OBVIOUS
    <3>1. next[n][l] \in At(hs, l) /\ Follows(n, next[n][l])
      BY <1>5, NodeFacts
    <3> QED
      BY <1>7, <3>1 DEF At
  <2>2. \A l \in Level : \A n \in Chain(l) : Reached(n, l)
    BY <1>4, <1>7 DEF At
  <2>3. \A n \in Node : WasLinked(n) => Reached(n, 0)
    BY <1>3, <1>7, NodeFacts
  <2>4. \A n \in Node, l, j \in Level : l < height[n] /\ j < l => Reached(n, j)
    <3> SUFFICES ASSUME NEW n \in Node, NEW l \in Level, NEW j \in Level, l < height[n], j < l PROVE Reached(n, j)
      OBVIOUS
    <3>1. hs[n] > j
      BY <1>1, <1>6
    <3> QED
      BY <1>7, <3>1
  <2> QED
    BY <2>1, <2>2, <2>3, <2>4 DEF Links
<1>11. Marks /\ Marking
  <2>1. \A n \in Linkable, l \in Level : ~deleting[n][l]
    BY <1>1
  <2>2. Node \subseteq Linkable /\ Head \in Linkable /\ MaxHeight - 1 \in Level
    BY NodeFacts DEF Linkable
  <2> QED
    BY <2>1, <2>2 DEF Marks, Marking
<1>12. Whole
  <2> SUFFICES ASSUME NEW n \in Node, NEW l \in Level, l < height[n] PROVE n \in Chain(l)
    BY DEF Whole
  <2>1. hs[n] > l
    BY <1>1, <1>6
  <2> QED
    BY <1>7, <2>1
<1>13. Owners
  BY <1>2 DEF Owners
<1>14. \A t \in Thread, n \in Node, l \in Level : ~Handed(th[t], n, l)
  BY <1>2 DEF Handed
<1>15. HandsApart
  BY <1>14, <1>2 DEF HandsApart, Owner
<1>16. Counts
  <2>1. ASSUME NEW n \in Node, WasLinked(n)
        PROVE  refs[n] = Cardinality(Counted(n)) /\ (n \in retired <=> refs[n] = 0)
    <3> PICK h : h = hs[n]
      OBVIOUS
    <3>1. h \in 0 .. MaxHeight /\ h > 0 /\ refs[n] = h
      BY <1>1, <1>3, <2>1
    <3>2. Counted(n) = {l \in Level : n \in At(hs, l)}
      BY <1>4, <1>14 DEF Counted
    <3>3. {l \in Level : n \in At(hs, l)} = 0 .. h - 1
      <4>1. \A l \in Level : n \in At(hs, l) <=> h > l
        BY DEF At
      <4> QED
        BY <3>1, <4>1, NodeFacts DEF Level
    <3>4. Cardinality(0 .. h - 1) = h
      <4>1. 0 <= h - 1 /\ h - 1 \in Int
        BY <3>1
      <4>2. Cardinality(0 .. h - 1) = h - 1 - 0 + 1
        BY <4>1, FS_Interval
      <4> QED
        BY <3>1, <4>2
    <3>5. Cardinality(Counted(n)) = h
      BY <3>2, <3>3, <3>4
    <3>6. n \notin retired /\ refs[n] # 0
      BY <1>1, <3>1
    <3> QED
      BY <3>1, <3>5, <3>6
  <2>2. \A n \in Node : height[n] = 0 => refs[n] = 0
    BY <1>1
  <2> QED
    BY <1>1, <2>1, <2>2 DEF Counts
<1>17. SetIsLevel0
  <2>1. {m \in Chain(0) : ~deleting[m][0]} = {m \in Node : hs[m] > 0}
    BY <1>1, <1>4, NodeFacts DEF At, Linkable
  <2> QED
    BY <1>1, <2>1 DEF SetIsLevel0
<1> QED
  BY <1>4, <1>8, <1>9, <1>10, <1>11, <1>12, <1>13, <1>15, <1>16, <1>17 DEF ListIInv

-------------------------------------------------------------------------------
\* Every reachable state satisfies the invariant.
LEMMA ListIInvHolds == Spec => []ListIInv
<1>1. Init => ListIInv
  <2> SUFFICES ASSUME Init PROVE ListIInv
    OBVIOUS
  <2>1. PICK hs \in [Node -> 0 .. MaxHeight] :
           /\ \A m, n \in Node : m # n /\ hs[m] > 0 /\ hs[n] > 0 => Key[m] # Key[n]
           /\ InitFrom(hs)
    BY DEF Init
  <2> QED
    BY <2>1, BuiltInv DEF Built
<1>2. ListIInv /\ [Next]_vars => ListIInv'
  BY ListStep
<1> QED
  BY <1>1, <1>2, PTL DEF Spec

\* No node has more references than there are levels.
LEMMA TypesHold == ListIInv => TypeOK
<1> SUFFICES ASSUME ListIInv PROVE TypeOK
  OBVIOUS
<1>1. ASSUME NEW n \in Node PROVE refs[n] \in 0 .. MaxHeight
  <2>1. refs[n] \in Nat /\ height[n] \in 0 .. MaxHeight
    BY DEF ListIInv, Types
  <2>2. CASE height[n] = 0
    BY <2>2, NodeFacts DEF ListIInv, Counts
  <2>3. CASE WasLinked(n)
    BY <2>3, CountedFinite DEF ListIInv, Counts
  <2>4. CASE height[n] # 0 /\ ~WasLinked(n)
    <3>1. height[n] > 0
      BY <2>1, <2>4
    <3>2. PICK t \in Thread : th[t].n = n /\ Fresh(th[t])
      BY <2>4, <3>1, WasLinkedIs
    <3>3. refs[n] = 1
      BY <3>2, OwnerFacts DEF ListIInv, ThreadInv, NodeInv
    <3> QED
      BY <3>3, NodeFacts
  <2> QED
    BY <2>2, <2>3, <2>4
<1>2. refs \in [Node -> 0 .. MaxHeight]
  BY <1>1 DEF ListIInv, Types
<1> QED
  BY <1>2 DEF ListIInv, Types, TypeOK

\* With no call under way a node of the set is linked at all its levels, and
\* nothing else is but marked nodes.
LEMMA WellFormedHolds == ListIInv => WellFormed
<1> SUFFICES ASSUME ListIInv, Quiescent, NEW l \in Level, NEW n
             PROVE  n \in Chain(l) /\ ~deleting[n][l] <=> n \in Chain(0) /\ ~deleting[n][0] /\ height[n] > l
  BY Zenon DEF WellFormed
<1>0. Chain(l) \subseteq Node /\ Chain(0) \subseteq Node /\ 0 \in Level /\ MaxHeight - 1 \in Level
  BY NodeFacts DEF ListIInv, Chains, IsChain
<1>1. ASSUME n \in Node, deleting[n][0] PROVE deleting[n][l]
  <2>1. l = 0 \/ 0 < l
    BY DEF Level
  <2> QED
    BY <1>0, <1>1, <2>1 DEF ListIInv, Marks
<1>2. ASSUME n \in Node, deleting[n][l] PROVE deleting[n][MaxHeight - 1]
  <2>1. l = MaxHeight - 1 \/ l < MaxHeight - 1
    BY NodeFacts DEF Level
  <2> QED
    BY <1>0, <1>2, <2>1 DEF ListIInv, Marks
<1>3. ASSUME n \in Node, deleting[n][MaxHeight - 1] PROVE deleting[n][0]
  <2>1. \A t \in Thread : th[t].pc # "mark"
    BY DEF Quiescent
  <2> QED
    BY <1>3, <2>1 DEF ListIInv, Marking
<1>4. ASSUME n \in Chain(l), ~deleting[n][l] PROVE n \in Chain(0) /\ ~deleting[n][0] /\ height[n] > l
  <2>1. n \in Node /\ Reached(n, l)
    BY <1>0, <1>4 DEF ListIInv, Links
  <2>2. l < height[n]
    BY <2>1, NodeFacts DEF Reached
  <2>3. Reached(n, 0)
    <3>1. 0 <= l
      BY DEF Level
    <3> QED
      BY <1>0, <2>1, <3>1, ReachFacts DEF ListIInv
  <2>4. n \in Chain(0) \/ deleting[n][0]
    BY <2>1, <2>3, NodeFacts DEF Reached
  <2>5. height[n] > l
    BY <2>1, <2>2 DEF ListIInv, Types, Level
  <2> QED
    BY <1>1, <1>4, <2>1, <2>4, <2>5
<1>5. ASSUME n \in Chain(0), ~deleting[n][0], height[n] > l PROVE n \in Chain(l) /\ ~deleting[n][l]
  <2>1. n \in Node /\ WasLinked(n)
    <3>1. n \in Node /\ Reached(n, 0)
      BY <1>0, <1>5 DEF ListIInv, Links
    <3> QED
      BY <3>1, NodeFacts DEF Reached
  <2>2. l < height[n]
    BY <1>5, <2>1 DEF ListIInv, Types, Level
  <2>3. \A t \in Thread : ~Building(th[t])
    BY DEF Quiescent, Building, Busy, Searching
  <2>4. n \in Chain(l) \/ deleting[n][MaxHeight - 1]
    BY <2>1, <2>2, <2>3 DEF ListIInv, Whole
  <2> QED
    BY <1>2, <1>3, <1>5, <2>1, <2>4
<1> QED
  BY <1>4, <1>5

\* The splices of inserts and erases bracket their keys.
LEMMA BracketsHold == ListIInv => SpliceBrackets
<1> SUFFICES ASSUME ListIInv, NEW t \in Thread, NEW me, me = th[t],
                    NEW i, i = IF me.pc = "link0" THEN 0 ELSE me.i
             PROVE  /\ me.pc \in {"link0", "own", "link", "cut"} =>
                          /\ me.prev[i] = Head \/ Before(me.prev[i], me.k)
                          /\ ~Before(me.nxt[i], me.k)
                    /\ me.pc = "link" => ~Is(me.nxt[i], me.k)
  BY Zenon DEF SpliceBrackets
<1>1. ThreadInv(me) /\ Types
  BY OwnerFacts DEF ListIInv
<1>2. ASSUME Bracket(me, i) PROVE (me.prev[i] = Head \/ Before(me.prev[i], me.k)) /\ ~Before(me.nxt[i], me.k)
  BY <1>2, NodeFacts DEF Bracket, KeyOK, Before
<1>3. CASE me.pc = "link0"
  BY <1>2, <1>3, FreshFacts
<1>4. CASE me.pc \in {"own", "link"}
  BY <1>1, <1>2, <1>4, BuildingFacts
<1>5. CASE me.pc = "cut"
  <2>1. me.op # "insert" /\ me.n \in Node /\ me.i < height[me.n] /\ height[me.n] <= me.sh
    BY <1>1, <1>5 DEF ThreadInv, NodeInv, Shape, SpliceOps
  <2>2. me.i \in Nat /\ me.sh \in 0 .. MaxHeight /\ height[me.n] \in 0 .. MaxHeight
    BY <1>1, <2>1 DEF ThreadInv, LocalType, Types
  <2>3. me.i \in 0 .. me.sh - 1 /\ Low(me) <= me.i
    BY <2>1, <2>2 DEF Low
  <2>4. Bracket(me, me.i)
    BY <1>1, <1>5, <2>3 DEF ThreadInv, BracketInv
  <2> QED
    BY <1>2, <1>5, <2>4
<1> QED
  BY <1>3, <1>4, <1>5

\* The references in hands, one for a level each.
HandLevel(t) == IF th[t].pc = "unref" THEN th[t].lv ELSE th[t].i

\* A thread with a reference in its hands has it for one level.
LEMMA HandIs ==
  ASSUME ListIInv, NEW n \in Node, NEW t \in Thread
  PROVE  /\ t \in InHand(n) => HandLevel(t) \in Level /\ Handed(th[t], n, HandLevel(t))
         /\ \A l \in Level : Handed(th[t], n, l) => t \in InHand(n) /\ l = HandLevel(t)
<1> PICK me : me = th[t]
  OBVIOUS
<1>1. Types /\ ThreadInv(me)
  BY OwnerFacts DEF ListIInv
<1>2. t \in InHand(n) <=> (me.pc = "unref" /\ me.y = n) \/ (me.pc \in {"cutref", "link", "undo"} /\ me.n = n)
  BY DEF InHand
<1>3. me.pc = "unref" => me.lv \in Level /\ HandLevel(t) = me.lv
  BY <1>1 DEF ThreadInv, Shape, Searching, HandLevel
<1>4. me.pc \in {"cutref", "link", "undo"} => me.i \in Level /\ HandLevel(t) = me.i
  BY <1>1, CutFacts, BuildingFacts DEF HandLevel
<1> QED
  BY <1>2, <1>3, <1>4 DEF Handed

\* The counts are what RefsExact says of them.
LEMMA RefsHold == ListIInv => RefsExact
<1> SUFFICES ASSUME ListIInv, NEW n \in Node, WasLinked(n)
             PROVE  /\ refs[n] = Cardinality({l \in Level : n \in Chain(l)}) + Cardinality(InHand(n))
                    /\ n \in retired <=> refs[n] = 0
  <2>1. \A n : {l \in Level : n \in [k \in Level |-> Chain(k)][l]} = {l \in Level : n \in Chain(l)}
    OBVIOUS
  <2> QED
    BY <2>1, Zenon DEF RefsExact
<1>1. refs[n] = Cardinality(Counted(n)) /\ (n \in retired <=> refs[n] = 0)
  BY DEF ListIInv, Counts
<1> DEFINE A == {l \in Level : n \in Chain(l)}
           B == {l \in Level : \E t \in Thread : Handed(th[t], n, l)}
<1>2. InHand(n) \subseteq Thread
  BY DEF InHand
<1>3. Counted(n) = A \cup B /\ A \cap B = {}
  BY DEF Counted, ListIInv, HandsApart
<1>4. \E g : g \in Bijection(B, InHand(n))
  <2> DEFINE g == [l \in B |-> CHOOSE t \in Thread : Handed(th[t], n, l)]
  <2>1. \A l \in B : g[l] \in Thread /\ Handed(th[g[l]], n, l)
    OBVIOUS
  <2>2. DOMAIN g = B /\ g = [l \in B |-> g[l]]
    OBVIOUS
  <2> HIDE DEF g
  <2>3. \A l \in B : l \in Level /\ g[l] \in InHand(n) /\ l = HandLevel(g[l])
    BY <2>1, HandIs
  <2>4. g \in [B -> InHand(n)]
    BY <2>2, <2>3
  <2>5. \A k, l \in B : g[k] = g[l] => k = l
    BY <2>3
  <2>6. ASSUME NEW t \in InHand(n) PROVE \E l \in B : g[l] = t
    <3>1. t \in Thread /\ HandLevel(t) \in Level /\ Handed(th[t], n, HandLevel(t))
      BY <1>2, HandIs
    <3> PICK l : l = HandLevel(t)
      OBVIOUS
    <3>2. l \in B
      BY <3>1
    <3>3. g[l] = t
      BY <2>1, <3>1, <3>2 DEF ListIInv, HandsApart
    <3> QED
      BY <3>2, <3>3
  <2> QED
    BY <2>4, <2>5, <2>6 DEF Bijection, Injection, Surjection, IsInjective
<1>5. IsFiniteSet(A) /\ IsFiniteSet(B)
  <2>1. A \subseteq Level /\ B \subseteq Level /\ IsFiniteSet(Level)
    BY CountedFinite
  <2> QED
    BY <2>1, FS_Subset
<1> HIDE DEF A, B
<1>6. Cardinality(InHand(n)) = Cardinality(B)
  <2>1. ExistsBijection(B, InHand(n))
    BY <1>4 DEF ExistsBijection
  <2> QED
    BY <1>5, <2>1, FS_Bijection
<1>7. Cardinality(A \cup B) = Cardinality(A) + Cardinality(B)
  <2>1. Cardinality(A \cup B) = Cardinality(A) + Cardinality(B) - Cardinality(A \cap B)
    BY <1>5, FS_Union
  <2>2. Cardinality(A) \in Nat /\ Cardinality(B) \in Nat
    BY <1>5, FS_CardinalityType
  <2>3. Cardinality(A \cap B) = 0
    <3>1. A \cap B = {}
      BY <1>3
    <3> QED
      BY <3>1, FS_EmptySet
  <2> QED
    BY <2>1, <2>2, <2>3
<1> QED
  BY <1>1, <1>3, <1>6, <1>7 DEF A

\* The levels of the skip list are one set: each is sorted and ends at the
\* tail, the keys of level 0 that are not marked are the keys of the set, with
\* no call under way its nodes are linked at each level of their height, and
\* what an insert links between, or an erase cuts after, brackets the key.
THEOREM ListInvHolds == Spec => []ListInv
<1>1. ListIInv => ListInv
  BY TypesHold, SortedHolds, WellFormedHolds, BracketsHold DEF ListInv, ListIInv
<1> QED
  BY <1>1, ListIInvHolds, PTL

\* The reference count of a node is the number of levels it is linked at plus
\* the references in the hands of threads, and it is retired at zero: a node is
\* neither reclaimed while a level leads to it, nor forgotten.
THEOREM RefsExactHolds == Spec => []RefsExact
BY RefsHold, ListIInvHolds, PTL

=============================================================================
