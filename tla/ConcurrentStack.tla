-------------------------- MODULE ConcurrentStack ---------------------------
(***************************************************************************)
(* The stack of util/concurrent_stack.h: push and pop by compare-exchange  *)
(* on top_, without any protection of the node that a pop, or top(), looks *)
(* at.  Memory is reused.  When a pop takes off a node that another thread *)
(* looks at, that thread may read memory that was deleted, or exchange     *)
(* top_ for a successor it read before the node was popped and pushed      *)
(* again.  Until that happens the stack is right, however many threads     *)
(* push and pop.  A weak compare-exchange may fail by itself.              *)
(***************************************************************************)
EXTENDS Integers, Sequences, FiniteSets

CONSTANTS
    Pusher, Popper,   \* the threads that push, and those that pop or ask for the top
    Addr,             \* memory for nodes
    Null,             \* nullptr
    Pushes            \* bound on the pushes; the value pushed is its number

\* the memory of a node: its value and the node below
NodeType == [value : Nat, next : Addr \cup {Null}]

\* Null is neither an address nor a node
ASSUME StackAssumption ==
    /\ IsFiniteSet(Addr) /\ IsFiniteSet(Pusher \cup Popper)
    /\ Null \notin Addr /\ Null \notin NodeType

VARIABLES
    top,        \* top_
    node,       \* node[a]: the stack_node at address a, or Null when it is free
    th,         \* th[t]: program counter, the node in hand, new_front, and its value
    pushed,     \* history: how many pushes have begun
    contents,   \* history: the values on the stack, top first
    broken,     \* history: memory that was freed has been used
    undercut    \* history: a pop has taken a node that another thread looked at

stackVars == <<top, node, th, pushed, contents, broken, undercut>>

Idle == [pc |-> "idle", a |-> Null, front |-> Null, value |-> 0, expect |-> 0]
Become(t, r) == th' = [th EXCEPT ![t] = r]

StackInit ==
    /\ top = Null
    /\ node = [a \in Addr |-> Null]
    /\ th = [t \in Pusher \cup Popper |-> Idle]
    /\ pushed = 0
    /\ contents = <<>>
    /\ broken = FALSE
    /\ undercut = FALSE

\* push: a new node that points to the top just loaded
PushNew(t, a) ==
    /\ th[t].pc = "idle" /\ pushed < Pushes
    /\ node[a] = Null
    /\ node' = [node EXCEPT ![a] = [value |-> pushed + 1, next |-> top]]
    /\ pushed' = pushed + 1
    /\ Become(t, [Idle EXCEPT !.pc = "push", !.a = a])
    /\ UNCHANGED <<top, contents, broken, undercut>>

\* the exchange succeeds, or loads the present top into the node and is retried
PushCas(t) ==
    LET a == th[t].a IN
    /\ th[t].pc = "push" /\ node[a] # Null
    /\ \/ /\ top = node[a].next
          /\ top' = a
          /\ contents' = <<node[a].value>> \o contents
          /\ Become(t, Idle)
          /\ UNCHANGED node
       \/ /\ node' = [node EXCEPT ![a].next = top]
          /\ UNCHANGED <<top, contents, th>>
    /\ UNCHANGED <<pushed, broken, undercut>>

\* the value on top, 0 if there should be none
TopValue == IF contents = <<>> THEN 0 ELSE Head(contents)

\* pop and top(): load the top; an empty stack has nothing to return
Load(t, pc) ==
    /\ th[t].pc = "idle"
    /\ Become(t, IF top = Null THEN Idle
                 ELSE [Idle EXCEPT !.pc = pc, !.a = top, !.expect = TopValue])
    /\ UNCHANGED <<top, node, pushed, contents, broken, undercut>>

PopLoad(t) == Load(t, "front")
TopLoad(t) == Load(t, "look")

\* new_front = top->next
PopFront(t) ==
    LET a == th[t].a IN
    /\ th[t].pc = "front" /\ node[a] # Null
    /\ Become(t, [th[t] EXCEPT !.pc = "pop", !.front = node[a].next])
    /\ UNCHANGED <<top, node, pushed, contents, broken, undercut>>

\* others that look at the node t is about to take
Onlookers(t) ==
    {u \in Popper \ {t} : th[u].pc \in {"look", "front", "pop"} /\ th[u].a = th[t].a}

\* the exchange succeeds
PopDone(t) ==
    /\ th[t].pc = "pop" /\ top = th[t].a
    /\ top' = th[t].front
    /\ Become(t, [th[t] EXCEPT !.pc = "take", !.expect = TopValue])
    /\ contents' = IF contents = <<>> THEN <<>> ELSE Tail(contents)
    /\ undercut' = (undercut \/ Onlookers(t) # {})
    /\ UNCHANGED <<node, pushed, broken>>

\* a plausible bug: new_front is not read again after a failed exchange
PopRetryStale(t) ==
    /\ th[t].pc = "pop"
    /\ Become(t, IF top = Null THEN Idle ELSE [th[t] EXCEPT !.a = top])
    /\ UNCHANGED <<top, node, pushed, contents, broken, undercut>>

\* the exchange fails and loads the present top, and new_front is read again
PopRetry(t) ==
    /\ th[t].pc = "pop"
    /\ Become(t, IF top = Null THEN Idle ELSE [Idle EXCEPT !.pc = "front", !.a = top])
    /\ UNCHANGED <<top, node, pushed, contents, broken, undercut>>

\* copy the value, delete the node, return
PopTake(t) ==
    LET a == th[t].a IN
    /\ th[t].pc = "take" /\ node[a] # Null
    /\ Become(t, [th[t] EXCEPT !.pc = "popped", !.value = node[a].value])
    /\ node' = [node EXCEPT ![a] = Null]
    /\ UNCHANGED <<top, pushed, contents, broken, undercut>>

\* top() returns the value of the node it has loaded
TopRead(t) ==
    LET a == th[t].a IN
    /\ th[t].pc = "look" /\ node[a] # Null
    /\ Become(t, [th[t] EXCEPT !.pc = "popped", !.value = node[a].value])
    /\ UNCHANGED <<top, node, pushed, contents, broken, undercut>>

PopReturn(t) ==
    /\ th[t].pc = "popped"
    /\ Become(t, Idle)
    /\ UNCHANGED <<top, node, pushed, contents, broken, undercut>>

\* undefined behaviour: a node in hand has been deleted.  The runs end here
UseFreedNode(t) ==
    /\ th[t].pc \in {"push", "look", "front", "take"} /\ node[th[t].a] = Null
    /\ broken' = TRUE
    /\ UNCHANGED <<top, node, th, pushed, contents, undercut>>

Pop(t) == PopLoad(t) \/ PopFront(t) \/ PopDone(t) \/ PopRetry(t) \/ PopTake(t) \/ PopReturn(t)

StackNext ==
    /\ ~broken
    /\ \/ \E t \in Pusher : PushCas(t) \/ \E a \in Addr : PushNew(t, a)
       \/ \E t \in Popper : Pop(t) \/ TopLoad(t) \/ TopRead(t)
       \/ \E t \in Pusher \cup Popper : UseFreedNode(t)

StackSpec == StackInit /\ [][StackNext]_stackVars

(***************************************************************************)
(* Properties.                                                             *)
(***************************************************************************)
\* The state of the stack and of its threads keeps its shape.
StackTypeOK ==
    /\ top \in Addr \cup {Null} /\ node \in [Addr -> NodeType \cup {Null}]
    /\ th \in [Pusher \cup Popper ->
                  [pc : {"idle", "push", "look", "front", "pop", "take", "popped"}, a : Addr \cup {Null},
                   front : Addr \cup {Null}, value : Nat, expect : Nat]]
    /\ pushed \in Nat /\ contents \in Seq(Nat) /\ {broken, undercut} \subseteq BOOLEAN

\* the address below the i-th of a path
Below(path, i) == IF i < Len(contents) THEN path[i + 1] ELSE Null

\* the nodes at these addresses are linked from top_ and hold the contents
Chain(path) ==
    /\ top = Below(path, 0)
    /\ \A i \in DOMAIN path : node[path[i]] = [value |-> contents[i], next |-> Below(path, i)]
    /\ \A i, j \in DOMAIN path : path[i] = path[j] => i = j

\* The linked nodes hold, in order, what was pushed and not popped: no
\* exchange of top_ loses a node pushed meanwhile or brings back a popped one.
ChainIsStack == \E path \in [1 .. Len(contents) -> Addr] : Chain(path)

\* A pop returns the value that was on top when its exchange succeeded, top()
\* the one on top when it looked, and nobody uses a node that was deleted.
ReturnsTop ==
    /\ ~broken
    /\ \A t \in Popper : th[t].pc = "popped" => th[t].value = th[t].expect

\* the memory in use, and the threads that have a node off the stack
Used == {a \in Addr : node[a] # Null}
InHand == {t \in Pusher \cup Popper : th[t].pc \in {"push", "take"}}

\* No node is leaked or freed twice: memory in use is on the stack or in the
\* hands of the one push or pop that owns it.
OwnedOnce == Cardinality(Used) = Len(contents) + Cardinality(InHand)

\* The stack keeps what it was given, in order, and its memory, whatever pushes
\* and pops come between the loads and the exchange of a pop and reuse addresses,
\* until a pop takes off a node that another thread is looking at.
StackInv == StackTypeOK /\ (~undercut => ChainIsStack /\ ReturnsTop /\ OwnedOnce)
=============================================================================
