---------------------------- MODULE LogWorkerProofs ----------------------------
(***************************************************************************)
(* Proofs about LogWorker, for any number of threads, streams and lines,   *)
(* and any size of the buffer.                                             *)
(***************************************************************************)
EXTENDS LogWorker, FiniteSetTheorems, SequenceTheorems, TLAPS

RingType == [start : Nat, end : Nat, ext_end : Nat]
TakenType == [len : Int, extlen : Int, end : Nat, ext : Nat]
ProdType == [pc : PrintPc, s : Stream, len : LineLens \cup {0}]
WkType == [pc : WorkPc, log : Stream \cup {NULL}, taken : TakenType, dropped : Nat]

\* LogTypeOK with what the worker carries and the history variables
TypeInv ==
  /\ ring \in [Stream -> RingType]
  /\ cells \in [Stream -> [Offset -> Nat]]
  /\ dropped \in [Stream -> Nat]
  /\ status \in [Stream -> {"new", "open", "freed"}]
  /\ is_exit \in [Stream -> BOOLEAN] /\ is_wait \in BOOLEAN /\ run \in BOOLEAN
  /\ next \in [Stream -> Stream \cup {NULL}]
  /\ log \in Stream \cup {NULL} /\ notify_log \in Stream \cup {NULL}
  /\ prod \in [Producer -> ProdType]
  /\ wk \in WkType
  /\ main \in {"running", "stored", "joining", "done"}
  /\ accepted \in [Stream -> Seq(Nat)]
  /\ refused \in [Stream -> Nat] /\ recorded \in [Stream -> Nat] /\ stray \in [Stream -> BOOLEAN]

\* who prints on a stream holds it open
PrintInv ==
  /\ \A p \in Producer : prod[p].pc # "idle" =>
        status[prod[p].s] = "open" /\ ~is_exit[prod[p].s] /\ run
  /\ main # "running" => ~run

\* the list has the open streams only, and no cycle
ListInv ==
  /\ log # NULL => status[log] = "open"
  /\ \A s \in Stream : status[s] = "open" /\ next[s] # NULL => status[next[s]] = "open"
  /\ \E rank \in [Stream -> Nat] :
        \A s \in Stream : status[s] = "open" /\ next[s] # NULL => rank[next[s]] < rank[s]

\* the worker writes streams that are open, also after it has freed one, and
\* sleeps and ends when all of them are written
WorkInv ==
  /\ wk.pc \in {"top", "pick"} /\ wk.log # NULL /\ next[wk.log] # NULL =>
        status[next[wk.log]] = "open"
  /\ wk.pc \in {"write", "write_ext", "release", "wake"} =>
        wk.log \in Stream /\ status[wk.log] = "open"
  /\ wk.pc = "exited" => ~run /\ ~AnyData
  /\ wk.pc = "waiting" => is_wait /\ ~AnyData
  /\ \A s \in Stream : status[s] = "new" => ~HasData(ring[s])

\* what holds of the threads, the list and the worker whatever is in the rings
ControlInv == TypeInv /\ PrintInv /\ ListInv /\ WorkInv

-------------------------------------------------------------------------------
\* waiters counts who waits or was woken and has not resumed
Waits(s) == {p \in Producer : prod[p].pc \in {"waiting", "woken"} /\ prod[p].s = s}

WaitersInv ==
  /\ waiters \in [Stream -> Nat]
  /\ \A s \in Stream : waiters[s] = Cardinality(Waits(s))

\* The shape of a ring whose lines are all shorter than max_line_size: a ring
\* that has wrapped is never full up to the start.
RingOK(r) ==
  /\ r.start <= BuffSize - MaxLine /\ r.end <= BuffSize - MaxLine /\ r.ext_end <= BuffSize
  /\ r.ext_end = 0 => r.start <= r.end
  /\ r.ext_end > 0 => /\ r.ext_end > BuffSize - MaxLine
                      /\ r.end < r.start \/ r.end = 0

\* what the worker took is the beginning of what the ring r has by now
TakenOK(r, t) ==
  \/ /\ t.ext = 0 /\ t.extlen = 0 /\ t.len = t.end - r.start
     /\ r.start <= t.end /\ t.end <= BuffSize - MaxLine
     /\ r.ext_end = 0 => t.end <= r.end
  \/ /\ t.ext > 0 /\ r.ext_end = t.ext /\ t.len = r.ext_end - r.start
     /\ t.extlen = t.end /\ t.end <= r.end

BytesIn(c, o, n) == [i \in 1 .. n |-> c[o + i - 1]]

\* the bytes a and then the bytes b
Cat(a, b) == a \o b

\* what is unread in a ring r with the bytes c
UnreadIn(c, r) ==
  IF r.ext_end > 0
  THEN Cat(BytesIn(c, r.start, r.ext_end - r.start), BytesIn(c, 0, r.end))
  ELSE BytesIn(c, r.start, r.end - r.start)

\* the ring without the bytes that Write has written
FirstWritten(r, t) ==
  IF t.ext > 0 THEN [r EXCEPT !.start = 0, !.ext_end = 0] ELSE [r EXCEPT !.start = t.end]

\* the ring of stream s without what the worker has written of it
View(s) ==
  IF wk.log = s /\ wk.pc = "write_ext" THEN FirstWritten(ring[s], wk.taken)
  ELSE IF wk.log = s /\ wk.pc = "release" THEN Release(ring[s], wk.taken)
  ELSE ring[s]

\* written and unread are the lines accepted, in the middle of a write too
LinesInv ==
  /\ out \in [Stream -> Seq(Nat)]
  /\ \A s \in Stream : RingOK(ring[s])
  /\ wk.pc \in {"write", "write_ext", "release"} => TakenOK(ring[wk.log], wk.taken)
  /\ \A s \in Stream : Cat(out[s], UnreadIn(cells[s], View(s))) = accepted[s]

\* dropped lines are with the worker only while it writes
DropInv == wk.pc \notin {"write", "write_ext"} => wk.dropped = 0

\* OnlyLines, with the lines refused that wait to be written about
RefusedInv ==
  \A s \in Stream : stray[s] \/ dropped[s] > 0 \/ (wk.log = s /\ wk.dropped > 0) => refused[s] > 0

\* the inductive invariant
IInv == ControlInv /\ WaitersInv /\ LinesInv /\ DropInv /\ RefusedInv /\ FlushedWhenFreed

-------------------------------------------------------------------------------
(***************************************************************************)
(* Types.                                                                  *)
(***************************************************************************)
\* Taking from a ring, pushing to it and releasing keep the shapes.
LEMMA RingTypes ==
  ASSUME NEW r \in RingType
  PROVE  /\ Taken(r) \in TakenType
         /\ \A len \in Nat : Push(r, len) \in RingType
         /\ \A t \in TakenType : Release(r, t) \in RingType
<1>1. Taken(r) \in TakenType
  BY DEF Taken, TakenType, RingType
<1>2. ASSUME NEW len \in Nat PROVE Push(r, len) \in RingType
  <2>1. r.end + len \in Nat
    BY DEF RingType
  <2>2. \A n \in Nat : /\ [r EXCEPT !.end = n] \in RingType
                      /\ [r EXCEPT !.ext_end = n, !.end = 0] \in RingType
    BY DEF RingType
  <2> QED
    BY <2>1, <2>2 DEF Push
<1>3. ASSUME NEW t \in TakenType PROVE Release(r, t) \in RingType
  BY DEF Release, RingType, TakenType
<1> QED
  BY <1>1, <1>2, <1>3

\* The worker goes to another place, and to another stream.
LEMMA WorkerTypes ==
  ASSUME NEW w \in WkType, NEW pc \in WorkPc, NEW l \in Stream \cup {NULL}
  PROVE  /\ [w EXCEPT !.pc = pc] \in WkType
         /\ [w EXCEPT !.pc = pc, !.log = l] \in WkType
         /\ [w EXCEPT !.pc = pc, !.dropped = 0] \in WkType
         /\ [w EXCEPT !.pc = pc, !.taken = Nothing] \in WkType
<1>1. Nothing \in TakenType
  BY DEF Nothing, Taken, EmptyRing, TakenType
<1> QED
  BY <1>1 DEF WkType

\* What each step of a print does to its thread.
LEMMA ProdTypes ==
  ASSUME TypeInv, NEW p \in Producer
  PROVE  /\ \A pc \in PrintPc : [prod EXCEPT ![p].pc = pc] \in [Producer -> ProdType]
         /\ [prod EXCEPT ![p] = Quiet] \in [Producer -> ProdType]
         /\ \A pc \in PrintPc, s \in Stream, len \in LineLens :
               [prod EXCEPT ![p] = [pc |-> pc, s |-> s, len |-> len]] \in [Producer -> ProdType]
         /\ prod[p].s \in Stream /\ prod[p].len \in Nat
<1>1. prod \in [Producer -> ProdType]
  BY DEF TypeInv
<1>2. Quiet \in ProdType
  BY StreamAssumption DEF Quiet, ProdType, PrintPc
<1>3. \A g \in ProdType, pc \in PrintPc : [g EXCEPT !.pc = pc] \in ProdType
  BY DEF ProdType
<1>4. \A pc \in PrintPc, s \in Stream, len \in LineLens : [pc |-> pc, s |-> s, len |-> len] \in ProdType
  BY DEF ProdType
<1>5. \A g \in ProdType : [prod EXCEPT ![p] = g] \in [Producer -> ProdType]
  BY <1>1
<1>6. prod[p] \in ProdType
  BY <1>1
<1>7. prod[p].s \in Stream /\ prod[p].len \in Nat
  <2>1. LineLens \cup {0} \subseteq Nat
    BY StreamAssumption, RingAssumption
  <2> QED
    BY <1>6, <2>1 DEF ProdType
<1> QED
  BY <1>2, <1>3, <1>4, <1>5, <1>6, <1>7

\* A drop counts and returns; a signal moves the worker only.
LEMMA DropAndSignal ==
  ASSUME TypeInv, NEW p \in Producer
  PROVE  /\ Drop(p) => /\ prod' \in [Producer -> ProdType]
                       /\ dropped' \in [Stream -> Nat] /\ refused' \in [Stream -> Nat]
         /\ Signal => wk' \in WkType
<1>1. ASSUME Drop(p) PROVE /\ prod' \in [Producer -> ProdType]
                          /\ dropped' \in [Stream -> Nat] /\ refused' \in [Stream -> Nat]
  <2>1. prod' \in [Producer -> ProdType]
    BY <1>1, ProdTypes DEF Drop, Return
  <2>2. \A f \in [Stream -> Nat] : [f EXCEPT ![prod[p].s] = @ + 1] \in [Stream -> Nat]
    BY ProdTypes
  <2>3. dropped' \in [Stream -> Nat] /\ refused' \in [Stream -> Nat]
    BY <1>1, <2>2 DEF Drop, TypeInv
  <2> QED
    BY <2>1, <2>3
<1>2. ASSUME Signal PROVE wk' \in WkType
  <2>1. wk \in WkType /\ "signalled" \in WorkPc
    BY DEF TypeInv, WorkPc
  <2>2. [wk EXCEPT !.pc = "signalled"] \in WkType
    BY <2>1, WorkerTypes, StreamAssumption
  <2> QED
    BY <1>2, <2>1, <2>2 DEF Signal
<1> QED
  BY <1>1, <1>2

\* A visit keeps the types of the list and of the worker.
LEMMA VisitTypes ==
  ASSUME TypeInv, NEW s \in Stream, Visit(s)
  PROVE  /\ status' \in [Stream -> {"new", "open", "freed"}] /\ is_exit' = is_exit
         /\ next' \in [Stream -> Stream \cup {NULL}] /\ log' \in Stream \cup {NULL}
         /\ dropped' \in [Stream -> Nat] /\ wk' \in WkType
<1>1. /\ wk \in WkType /\ ring[s] \in RingType
      /\ status \in [Stream -> {"new", "open", "freed"}]
      /\ next \in [Stream -> Stream \cup {NULL}] /\ log \in Stream \cup {NULL}
      /\ dropped \in [Stream -> Nat]
  BY DEF TypeInv
<1>2. {"top", "write"} \subseteq WorkPc
  BY DEF WorkPc
<1>3. CASE HasData(ring[s])
  <2>1. Taken(ring[s]) \in TakenType
    BY <1>1, RingTypes
  <2>2. [pc |-> "write", log |-> s, taken |-> Taken(ring[s]), dropped |-> dropped[s]] \in WkType
    BY <1>1, <1>2, <2>1 DEF WkType
  <2>3. [dropped EXCEPT ![s] = 0] \in [Stream -> Nat]
    BY <1>1
  <2> QED
    BY <1>1, <1>3, <2>2, <2>3 DEF Visit, lists
<1>4. CASE ~HasData(ring[s]) /\ is_exit[s]
  <2>1. CloseIdle(s) /\ dropped' = dropped
    BY <1>4 DEF Visit
  <2>2. wk' \in WkType
    BY <1>1, <1>2, <2>1, WorkerTypes DEF CloseIdle
  <2>3. /\ status' \in [Stream -> {"new", "open", "freed"}] /\ is_exit' = is_exit
        /\ next' \in [Stream -> Stream \cup {NULL}] /\ log' \in Stream \cup {NULL}
    BY <1>1, <2>1 DEF CloseIdle, Unlink
  <2> QED
    BY <1>1, <2>1, <2>2, <2>3
<1>5. CASE ~HasData(ring[s]) /\ ~is_exit[s]
  <2>1. [wk EXCEPT !.pc = "top", !.log = s] \in WkType
    BY <1>1, <1>2, WorkerTypes
  <2> QED
    BY <1>1, <1>5, <2>1 DEF Visit, lists
<1> QED
  BY <1>3, <1>4, <1>5

\* Every step keeps the types.
LEMMA TypeStep ==
  ASSUME ControlInv, Next
  PROVE  TypeInv'
<1> TypeInv
  BY DEF ControlInv
<1>1. ASSUME NEW p \in Producer, NEW s \in Stream, NEW len \in LineLens, Call(p, s, len) PROVE TypeInv'
  <2>1. {"try", "ask"} \subseteq PrintPc
    BY DEF PrintPc
  <2>2. prod' \in [Producer -> ProdType]
    BY <1>1, <2>1, ProdTypes DEF Call
  <2> QED
    BY <1>1, <2>2 DEF Call, TypeInv, lists, data, drops, written, told
<1>2. {"try", "towait", "waiting", "woken"} \subseteq PrintPc
  BY DEF PrintPc
<1>3. ASSUME NEW p \in Producer, NEW pc \in PrintPc, Goto(p, pc) PROVE prod' \in [Producer -> ProdType]
  BY <1>3, ProdTypes DEF Goto
<1>6. ASSUME NEW p \in Producer, NeedDrop(p) PROVE TypeInv'
  <2>1. prod' \in [Producer -> ProdType] /\ dropped' \in [Stream -> Nat] /\ refused' \in [Stream -> Nat]
    <3>1. CASE Room(ring[prod[p].s]) < MaxLine
      BY <1>6, <3>1, DropAndSignal DEF NeedDrop
    <3>2. CASE ~(Room(ring[prod[p].s]) < MaxLine)
      BY <1>2, <1>3, <1>6, <3>2 DEF NeedDrop, drops, TypeInv
    <3> QED
      BY <3>1, <3>2
  <2> QED
    BY <1>6, <2>1 DEF NeedDrop, TypeInv, lists, data, written, told
<1>7. ASSUME NEW p \in Producer, PutLine(p) PROVE TypeInv'
  <2> DEFINE s == prod[p].s
             line == 1 + (IF accepted[s] = <<>> THEN 0 ELSE Last(accepted[s]))
  <2>1. s \in Stream /\ prod[p].len \in Nat /\ ring[s] \in RingType /\ accepted[s] \in Seq(Nat)
    BY ProdTypes DEF TypeInv
  <2>2. line \in Nat
    BY <2>1 DEF Last
  <2>3. Push(ring[s], prod[p].len) \in RingType
    BY <2>1, RingTypes
  <2>5. accepted[s] \o [i \in 1 .. prod[p].len |-> line] \in Seq(Nat)
    <3>1. [i \in 1 .. prod[p].len |-> line] \in Seq(Nat)
      BY <2>1, <2>2
    <3> QED
      BY <2>1, <3>1
  <2>6. ring' \in [Stream -> RingType]
    BY <1>7, <2>3 DEF PutLine, TypeInv
  <2>7. cells' \in [Stream -> [Offset -> Nat]]
    <3>1. cells \in [Stream -> [Offset -> Nat]]
      BY DEF TypeInv
    <3> QED
      BY <1>7, <2>1, <2>2, <3>1 DEF PutLine
  <2>8. accepted' \in [Stream -> Seq(Nat)]
    BY <1>7, <2>5 DEF PutLine, TypeInv
  <2>9. notify_log' \in Stream \cup {NULL} /\ wk' \in WkType
    BY <1>7, <2>1, DropAndSignal DEF PutLine, Tell, TypeInv
  <2>10. prod' \in [Producer -> ProdType]
    BY <1>7, ProdTypes DEF PutLine, Return
  <2> HIDE DEF s, line
  <2> QED
    BY <1>7, <2>6, <2>7, <2>8, <2>9, <2>10 DEF PutLine, TypeInv, lists, drops, written, told
<1>8. ASSUME NEW p \in Producer, Full(p) PROVE TypeInv'
  <2>1. notify_log' \in Stream \cup {NULL} /\ wk' \in WkType
    BY <1>8, ProdTypes, DropAndSignal DEF Full, TypeInv
  <2>2. prod' \in [Producer -> ProdType] /\ dropped' \in [Stream -> Nat] /\ refused' \in [Stream -> Nat]
    <3>1. CASE prod[p].s \in Blocking
      BY <1>2, <1>3, <1>8, <3>1 DEF Full, drops, TypeInv
    <3>2. CASE prod[p].s \notin Blocking
      BY <1>8, <3>2, DropAndSignal DEF Full
    <3> QED
      BY <3>1, <3>2
  <2> QED
    BY <1>8, <2>1, <2>2 DEF Full, TypeInv, lists, data, written, told
<1>9. ASSUME NEW p \in Producer, Wait(p) \/ Resume(p) \/ SpuriousWake(p) PROVE TypeInv'
  <2>1. prod' \in [Producer -> ProdType]
    BY <1>2, <1>3, <1>9 DEF Wait, Resume, SpuriousWake
  <2> QED
    BY <1>9, <2>1 DEF Wait, Resume, SpuriousWake, TypeInv, lists, data, drops, written, told
<1>10. ASSUME NEW s \in Stream, Open(s) PROVE TypeInv'
  <2>1. /\ status' \in [Stream -> {"new", "open", "freed"}]
        /\ next' \in [Stream -> Stream \cup {NULL}] /\ log' \in Stream \cup {NULL}
    BY <1>10 DEF Open, TypeInv
  <2> QED
    BY <1>10, <2>1 DEF Open, TypeInv, data, drops, written, told
<1>11. ASSUME NEW s \in Stream, Close(s) PROVE TypeInv'
  <2>1. is_exit' \in [Stream -> BOOLEAN]
    BY <1>11 DEF Close, TypeInv
  <2> QED
    BY <1>11, <2>1 DEF Close, TypeInv, data, drops, written, told
<1>12. ASSUME NEW pc \in WorkPc, NEW l \in Stream \cup {NULL}
       PROVE  [wk EXCEPT !.pc = pc] \in WkType /\ [wk EXCEPT !.pc = pc, !.log = l] \in WkType
  BY WorkerTypes DEF TypeInv
<1>13. CASE Top \/ UseFreed \/ SpuriousAwake
  <2>1. {"exited", "pick", "undefined", "signalled"} \subseteq WorkPc
    BY DEF WorkPc
  <2>2. wk' \in WkType
    BY <1>12, <1>13, <2>1 DEF Top, UseFreed, SpuriousAwake
  <2> QED
    BY <1>13, <2>2 DEF Top, UseFreed, SpuriousAwake, TypeInv, lists, data, drops, written, told
<1>14. CASE Pick
  <2> DEFINE s == IF wk.log = NULL THEN log ELSE next[wk.log]
  <2>1. s \in Stream \cup {NULL}
    BY DEF TypeInv, WkType
  <2>2. PickFrom(s) /\ UNCHANGED <<data, refused, written, waiters, notify_log, run, prod, main, printed>>
    BY <1>14 DEF Pick
  <2> HIDE DEF s
  <2>3. CASE s = NULL \/ (~AnyData /\ run)
    <3>1. {"top", "waiting"} \subseteq WorkPc
      BY DEF WorkPc
    <3>2. /\ [wk EXCEPT !.pc = "top", !.log = NULL] \in WkType
          /\ [wk EXCEPT !.pc = "waiting", !.log = s] \in WkType
      BY <1>12, <2>1, <3>1
    <3>3. wk' \in WkType /\ is_wait' \in BOOLEAN /\ UNCHANGED <<lists, dropped>>
      BY <2>2, <2>3, <3>2 DEF PickFrom, TypeInv
    <3> QED
      BY <2>2, <3>3 DEF TypeInv, lists, data, written, told
  <2>4. CASE s # NULL /\ (AnyData \/ ~run)
    <3>1. s \in Stream /\ Visit(s) /\ UNCHANGED is_wait
      BY <2>1, <2>2, <2>4 DEF PickFrom
    <3> QED
      BY <2>2, <3>1, VisitTypes DEF TypeInv, data, written, told
  <2> QED
    BY <2>3, <2>4
<1>15. CASE Awake
  <2>1. CASE notify_log = NULL
    <3>1. "top" \in WorkPc
      BY DEF WorkPc
    <3>2. wk' \in WkType
      BY <1>12, <1>15, <2>1, <3>1 DEF Awake
    <3> QED
      BY <1>15, <2>1, <3>2 DEF Awake, TypeInv, lists, data, written, told
  <2>2. CASE notify_log # NULL
    <3>1. notify_log \in Stream /\ Visit(notify_log)
      BY <1>15, <2>2 DEF Awake
    <3> QED
      BY <1>15, <3>1, VisitTypes DEF Awake, TypeInv, data, written, told
  <2> QED
    BY <2>1, <2>2
<1>16. CASE Write
  <2>1. wk' \in WkType
    BY <1>12, <1>16 DEF Write, WorkPc
  <2> QED
    BY <1>16, <2>1 DEF Write, TypeInv, lists, data, drops, told
<1>17. CASE WriteExt
  <2>1. wk' \in WkType
    BY <1>17, WorkerTypes, StreamAssumption DEF WriteExt, WorkPc, TypeInv
  <2>2. recorded' \in [Stream -> Nat] /\ stray' \in [Stream -> BOOLEAN]
    <3>1. /\ wk.dropped \in Nat /\ wk.log \in Stream
          /\ recorded \in [Stream -> Nat] /\ stray \in [Stream -> BOOLEAN]
      BY <1>17 DEF WriteExt, ControlInv, WorkInv, TypeInv, WkType
    <3> QED
      BY <1>17, <3>1 DEF WriteExt, WriteDropped
  <2> QED
    BY <1>17, <2>1, <2>2 DEF WriteExt, TypeInv, lists, data, drops
<1>18. CASE ReleaseTaken
  <2>1. wk.log \in Stream /\ wk.taken \in TakenType /\ ring[wk.log] \in RingType
    BY <1>18 DEF ReleaseTaken, ControlInv, WorkInv, TypeInv, WkType
  <2>2. ring' \in [Stream -> RingType]
    BY <1>18, <2>1, RingTypes DEF ReleaseTaken, TypeInv
  <2>3. wk' \in WkType
    BY <1>18, WorkerTypes, StreamAssumption DEF ReleaseTaken, WorkPc, TypeInv
  <2> QED
    BY <1>18, <2>2, <2>3 DEF ReleaseTaken, TypeInv, lists, drops, written, told
<1>19. CASE WakeWaiters
  <2>1. prod' \in [Producer -> ProdType]
    <3>1. \A p \in Producer : prod[p] \in ProdType /\ [prod[p] EXCEPT !.pc = "woken"] \in ProdType
      BY <1>2 DEF TypeInv, ProdType
    <3> QED
      BY <1>19, <3>1 DEF WakeWaiters
  <2>2. wk' \in WkType
    BY <1>12, <1>19 DEF WakeWaiters, WorkPc
  <2> QED
    BY <1>19, <2>1, <2>2 DEF WakeWaiters, TypeInv, lists, data, drops, written, told
<1>20. CASE Exit
  <2>1. CASE ExitStore
    BY <2>1 DEF ExitStore, TypeInv, lists, data, drops, written, told
  <2>2. CASE ExitSignal
    <3>1. wk' \in WkType
      <4>1. wk \in WkType /\ "signalled" \in WorkPc
        BY DEF TypeInv, WorkPc
      <4> QED
        BY <1>12, <2>2, <4>1, StreamAssumption DEF ExitSignal, Signal
    <3> QED
      BY <2>2, <3>1 DEF ExitSignal, TypeInv, lists, data, drops, written, told
  <2>3. CASE ExitClose
    BY <2>3 DEF ExitClose, TypeInv, data, drops, written, told
  <2> QED
    BY <1>20, <2>1, <2>2, <2>3 DEF Exit
<1> QED
  BY <1>1, <1>6, <1>7, <1>8, <1>9, <1>10, <1>11, <1>13, <1>14, <1>15, <1>16, <1>17, <1>18, <1>19,
     <1>20
  DEF Next, Printing, Worker

-------------------------------------------------------------------------------
(***************************************************************************)
(* The list of streams, and where the worker is in it.                     *)
(***************************************************************************)
\* Taking an open stream out leaves a list of the others.
LEMMA UnlinkList ==
  ASSUME TypeInv, ListInv, NEW s \in Stream, status[s] = "open", Unlink(s)
  PROVE  /\ ListInv'
         /\ next'[s] = next[s] /\ (next[s] # NULL => status'[next[s]] = "open")
         /\ status' = [status EXCEPT ![s] = "freed"]
<1>1. /\ status' = [status EXCEPT ![s] = "freed"]
      /\ log' = IF log = s THEN next[s] ELSE log
      /\ \A q \in Stream : next'[q] = IF status[q] = "open" /\ next[q] = s THEN next[s] ELSE next[q]
      /\ \A q \in Stream : status'[q] = IF q = s THEN "freed" ELSE status[q]
      /\ \A q \in Stream : next[q] \in Stream \cup {NULL}
      /\ log \in Stream \cup {NULL} /\ NULL \notin Stream
  BY StreamAssumption DEF Unlink, TypeInv
<1>2. PICK rank \in [Stream -> Nat] :
        \A q \in Stream : status[q] = "open" /\ next[q] # NULL => rank[next[q]] < rank[q]
  BY DEF ListInv
<1>3. next[s] # NULL => next[s] # s /\ status[next[s]] = "open"
  BY <1>1, <1>2 DEF ListInv
<1>4. log' # NULL => status'[log'] = "open"
  BY <1>1, <1>3 DEF ListInv
<1>5. ASSUME NEW q \in Stream, status'[q] = "open", next'[q] # NULL
      PROVE  status'[next'[q]] = "open" /\ rank[next'[q]] < rank[q]
  <2>1. q # s /\ status[q] = "open"
    BY <1>1, <1>5
  <2>2. CASE next[q] = s
    <3>1. next'[q] = next[s] /\ next[s] \in Stream
      BY <1>1, <1>5, <2>1, <2>2
    <3>2. rank[next[s]] < rank[s] /\ rank[s] < rank[q]
      BY <1>1, <1>2, <2>1, <2>2, <3>1
    <3>3. rank[next[s]] \in Nat /\ rank[s] \in Nat /\ rank[q] \in Nat
      BY <3>1
    <3> QED
      BY <1>1, <1>3, <3>1, <3>2, <3>3
  <2>3. CASE next[q] # s
    <3>1. next'[q] = next[q] /\ next[q] \in Stream
      BY <1>1, <1>5, <2>3
    <3> QED
      BY <1>1, <1>2, <2>1, <2>3, <3>1 DEF ListInv
  <2> QED
    BY <2>2, <2>3
<1>6. ListInv'
  BY <1>4, <1>5 DEF ListInv
<1> QED
  BY <1>1, <1>3, <1>6

\* A visit of an open stream keeps the list, the threads and the worker right.
LEMMA VisitKeeps ==
  ASSUME ControlInv, NEW s \in Stream, status[s] = "open", Visit(s),
         UNCHANGED <<ring, prod, run, main>>
  PROVE  PrintInv' /\ ListInv' /\ WorkInv'
<1> TypeInv /\ PrintInv /\ ListInv /\ WorkInv
  BY DEF ControlInv
<1>1. wk \in [pc : WorkPc, log : Stream \cup {NULL}, taken : TakenType, dropped : Nat]
  BY DEF TypeInv, WkType
<1>2. CASE HasData(ring[s])
  <2>1. wk'.pc = "write" /\ wk'.log = s /\ UNCHANGED lists
    BY <1>2 DEF Visit
  <2>2. PrintInv'
    BY <2>1 DEF PrintInv, lists
  <2>3. ListInv'
    BY <2>1 DEF ListInv, lists
  <2>4. WorkInv'
    BY <2>1 DEF WorkInv, lists
  <2> QED
    BY <2>2, <2>3, <2>4
<1>3. CASE ~HasData(ring[s]) /\ is_exit[s]
  <2>1. Unlink(s) /\ wk' = [wk EXCEPT !.pc = "top", !.log = IF log = s THEN NULL ELSE s]
    BY <1>3 DEF Visit, CloseIdle
  <2>2. /\ ListInv' /\ next'[s] = next[s] /\ (next[s] # NULL => status'[next[s]] = "open")
        /\ status' = [status EXCEPT ![s] = "freed"] /\ is_exit' = is_exit
    BY <2>1, UnlinkList DEF Unlink
  <2>3. \A q \in Stream : status'[q] = IF q = s THEN "freed" ELSE status[q]
    BY <2>2 DEF TypeInv
  <2>4. PrintInv'
    <3>1. \A p \in Producer : prod[p].s \in Stream
      BY ProdTypes
    <3> QED
      BY <1>3, <2>2, <2>3, <3>1 DEF PrintInv
  <2>5. WorkInv'
    <3>1. wk'.pc = "top" /\ wk'.log \in {NULL, s}
      BY <1>1, <2>1
    <3> QED
      BY <2>2, <2>3, <3>1 DEF WorkInv
  <2> QED
    BY <2>2, <2>4, <2>5
<1>4. CASE ~HasData(ring[s]) /\ ~is_exit[s]
  <2>1. wk'.pc = "top" /\ wk'.log = s /\ UNCHANGED lists
    BY <1>1, <1>4 DEF Visit
  <2>2. PrintInv'
    BY <2>1 DEF PrintInv, lists
  <2>3. ListInv'
    BY <2>1 DEF ListInv, lists
  <2>4. WorkInv'
    BY <2>1 DEF WorkInv, ListInv, lists
  <2> QED
    BY <2>2, <2>3, <2>4
<1> QED
  BY <1>2, <1>3, <1>4

\* The stream that the worker picks is in the list, also after a freed one.
LEMMA PickOpen ==
  ASSUME ControlInv, wk.pc = "pick"
  PROVE  LET s == IF wk.log = NULL THEN log ELSE next[wk.log] IN
         s = NULL \/ (s \in Stream /\ status[s] = "open")
BY DEF ControlInv, TypeInv, WkType, ListInv, WorkInv

\* A signal, or none, leaves the worker where it was or wakes it.
SignalOrNot ==
  /\ wk'.log = wk.log /\ wk'.taken = wk.taken /\ wk'.dropped = wk.dropped
  /\ wk'.pc = wk.pc \/ (wk.pc = "waiting" /\ wk'.pc = "signalled")

\* No thread begins to print, and none changes its stream.
NoneBegins == \A p \in Producer : prod'[p].pc # "idle" => prod[p].pc # "idle" /\ prod'[p].s = prod[p].s

\* Both of a signal and of its absence.
LEMMA SignalMoves ==
  ASSUME TypeInv, Signal \/ wk' = wk
  PROVE  SignalOrNot
BY DEF TypeInv, WkType, Signal, SignalOrNot

\* A thread that prints goes on, or returns.
LEMMA GotoReturn ==
  ASSUME TypeInv, NEW p \in Producer, prod[p].pc # "idle",
         Return(p) \/ \E pc : Goto(p, pc)
  PROVE  NoneBegins /\ \A q \in Producer : q # p => prod'[q] = prod[q]
<1>1. prod \in [Producer -> ProdType]
  BY DEF TypeInv
<1>2. \A pc : \A g \in ProdType : [g EXCEPT !.pc = pc].s = g.s
  BY DEF ProdType
<1>3. Quiet.pc = "idle"
  BY DEF Quiet
<1>4. CASE Return(p)
  BY <1>1, <1>3, <1>4 DEF Return, NoneBegins
<1>5. ASSUME NEW pc, Goto(p, pc) PROVE NoneBegins /\ \A q \in Producer : q # p => prod'[q] = prod[q]
  BY <1>1, <1>2, <1>5 DEF Goto, NoneBegins
<1> QED
  BY <1>4, <1>5

\* A step that leaves the lists and the rings alone, and of the worker at most
\* wakes it, keeps all that.
LEMMA QuietStep ==
  ASSUME ControlInv, UNCHANGED <<lists, ring, is_wait, run>>, SignalOrNot, NoneBegins,
         main' # "running" => main # "running"
  PROVE  PrintInv' /\ ListInv' /\ WorkInv'
<1>1. PrintInv'
  BY DEF ControlInv, PrintInv, lists, NoneBegins
<1>2. ListInv'
  BY DEF ControlInv, ListInv, lists
<1>3. WorkInv'
  <2>1. AnyData' = AnyData
    BY DEF AnyData, lists
  <2> QED
    BY <2>1 DEF ControlInv, WorkInv, lists, SignalOrNot
<1> QED
  BY <1>1, <1>2, <1>3

\* Every step keeps what holds of the threads, the list and the worker.
LEMMA ControlStep ==
  ASSUME ControlInv, [Next]_vars
  PROVE  ControlInv'
<1> TypeInv /\ PrintInv /\ ListInv /\ WorkInv
  BY DEF ControlInv
<1>1. CASE UNCHANGED vars
  <2>1. TypeInv'
    BY <1>1 DEF vars, lists, data, drops, written, TypeInv, told
  <2>2. PrintInv'
    BY <1>1 DEF vars, lists, data, drops, written, PrintInv
  <2>3. ListInv'
    BY <1>1 DEF vars, lists, data, drops, written, ListInv
  <2>4. WorkInv'
    BY <1>1 DEF vars, lists, data, drops, written, WorkInv, AnyData
  <2> QED
    BY <2>1, <2>2, <2>3, <2>4 DEF ControlInv
<1>2. wk' = wk => SignalOrNot
  BY DEF SignalOrNot
<1>3. prod' = prod => NoneBegins
  BY DEF NoneBegins
<1>4. ASSUME NEW p \in Producer, NEW s \in Stream, NEW len \in LineLens, Call(p, s, len)
      PROVE  PrintInv' /\ ListInv' /\ WorkInv'
  <2>1. PrintInv'
    <3>1. \A q \in Producer : prod'[q].pc # "idle" =>
             \/ q = p /\ prod'[q].s = s
             \/ prod[q].pc # "idle" /\ prod'[q].s = prod[q].s
      BY <1>4 DEF Call, TypeInv
    <3> QED
      BY <1>4, <3>1 DEF Call, PrintInv, lists
  <2>2. ListInv'
    BY <1>4 DEF Call, ListInv, lists
  <2>3. WorkInv'
    BY <1>4 DEF Call, WorkInv, AnyData, lists, data
  <2> QED
    BY <2>1, <2>2, <2>3
<1>5. ASSUME NEW p \in Producer, NeedDrop(p) \/ Full(p) \/ Wait(p) \/ Resume(p) \/ SpuriousWake(p)
      PROVE  PrintInv' /\ ListInv' /\ WorkInv'
  <2>1. prod[p].pc # "idle" /\ (Return(p) \/ \E pc : Goto(p, pc))
    BY <1>5 DEF NeedDrop, Full, Wait, Resume, SpuriousWake, Drop
  <2>2. Signal \/ wk' = wk
    BY <1>5 DEF NeedDrop, Full, Wait, Resume, SpuriousWake
  <2>3. UNCHANGED <<lists, ring, is_wait, run, main>>
    BY <1>5 DEF NeedDrop, Full, Wait, Resume, SpuriousWake, data
  <2> QED
    BY <2>1, <2>2, <2>3, GotoReturn, SignalMoves, QuietStep
<1>6. ASSUME NEW p \in Producer, PutLine(p) PROVE PrintInv' /\ ListInv' /\ WorkInv'
  <2> DEFINE s == prod[p].s
  <2>1. s \in Stream /\ prod[p].pc # "idle" /\ status[s] = "open" /\ run
    BY <1>6, ProdTypes DEF PutLine, PrintInv
  <2>2. NoneBegins
    BY <1>6, <2>1, GotoReturn DEF PutLine
  <2>3. /\ UNCHANGED <<lists, is_wait, run, main>>
        /\ \A q \in Stream : q # s => ring'[q] = ring[q]
        /\ IF is_wait THEN Signal ELSE wk' = wk
    BY <1>6 DEF PutLine, Tell, TypeInv
  <2> HIDE DEF s
  <2>4. SignalOrNot /\ wk'.pc # "waiting"
    <3>1. wk.pc = "waiting" => is_wait
      BY DEF WorkInv
    <3> QED
      BY <2>3, <3>1, SignalMoves DEF Signal, TypeInv, WkType
  <2>5. PrintInv'
    BY <2>2, <2>3 DEF PrintInv, NoneBegins, lists
  <2>6. ListInv'
    BY <2>3 DEF ListInv, lists
  <2>7. WorkInv'
    BY <2>1, <2>3, <2>4 DEF WorkInv, SignalOrNot, lists
  <2> QED
    BY <2>5, <2>6, <2>7
<1>7. ASSUME NEW s \in Stream, Open(s) PROVE PrintInv' /\ ListInv' /\ WorkInv'
  <2>1. /\ status[s] = "new" /\ status'[s] = "open"
        /\ \A q \in Stream : q # s => status'[q] = status[q] /\ next'[q] = next[q]
        /\ next'[s] = log /\ log' = s /\ log \in Stream \cup {NULL} /\ NULL \notin Stream
        /\ \A q \in Stream : next[q] \in Stream \cup {NULL}
        /\ UNCHANGED <<is_exit, ring, prod, wk, is_wait, run, main>>
    BY <1>7, StreamAssumption DEF Open, TypeInv, data
  <2>2. PrintInv'
    <3>1. \A p \in Producer : prod[p].s \in Stream
      BY ProdTypes
    <3> QED
      BY <2>1, <3>1 DEF PrintInv
  <2>3. ListInv'
    <3>1. PICK rank \in [Stream -> Nat] :
            \A q \in Stream : status[q] = "open" /\ next[q] # NULL => rank[next[q]] < rank[q]
      BY DEF ListInv
    <3> DEFINE top == IF log = NULL THEN 0 ELSE rank[log] + 1
               new == [rank EXCEPT ![s] = top]
    <3>2. top \in Nat
      BY <2>1
    <3>3. new \in [Stream -> Nat] /\ new[s] = top /\ \A q \in Stream : q # s => new[q] = rank[q]
      BY <3>2
    <3>4. ASSUME NEW q \in Stream, status'[q] = "open", next'[q] # NULL
          PROVE  status'[next'[q]] = "open" /\ new[next'[q]] < new[q]
      <4>1. CASE q = s
        <5>1. next'[q] = log /\ log \in Stream /\ status[log] = "open" /\ log # s
          BY <2>1, <3>4, <4>1 DEF ListInv
        <5>2. new[log] = rank[log] /\ new[q] = rank[log] + 1 /\ rank[log] \in Nat
          BY <2>1, <3>3, <4>1, <5>1
        <5> HIDE DEF new, top
        <5> QED
          BY <2>1, <5>1, <5>2
      <4>2. CASE q # s
        <5>1. next'[q] = next[q] /\ status[q] = "open" /\ next[q] \in Stream
          BY <2>1, <3>4, <4>2
        <5>2. status[next[q]] = "open" /\ next[q] # s
          BY <2>1, <3>4, <5>1 DEF ListInv
        <5>3. new[next[q]] = rank[next[q]] /\ new[q] = rank[q] /\ rank[next[q]] < rank[q]
          BY <2>1, <3>1, <3>3, <3>4, <4>2, <5>1, <5>2
        <5> HIDE DEF new, top
        <5> QED
          BY <2>1, <5>1, <5>2, <5>3
      <4> QED
        BY <4>1, <4>2
    <3> HIDE DEF new, top
    <3>5. status'[log'] = "open"
      BY <2>1
    <3> QED
      BY <3>3, <3>4, <3>5 DEF ListInv
  <2>4. WorkInv'
    <3>1. wk.log \in Stream \cup {NULL}
      BY DEF TypeInv, WkType
    <3>2. AnyData' = AnyData
      BY <2>1 DEF AnyData, WorkInv
    <3>3. log # NULL => status'[log] = "open"
      BY <2>1 DEF ListInv
    <3>4. wk.pc \in {"top", "pick"} /\ wk.log # NULL /\ next'[wk.log] # NULL => status'[next'[wk.log]] = "open"
      BY <2>1, <3>1, <3>3 DEF WorkInv
    <3>5. \A q \in Stream : status'[q] # "new" \/ (status[q] = "new" /\ q # s)
      BY <2>1
    <3>6. \A q \in Stream : status[q] = "open" => status'[q] = "open"
      BY <2>1
    <3> QED
      BY <2>1, <3>1, <3>2, <3>4, <3>5, <3>6 DEF WorkInv
  <2> QED
    BY <2>2, <2>3, <2>4
<1>8. ASSUME NEW s \in Stream, Close(s) PROVE PrintInv' /\ ListInv' /\ WorkInv'
  <2>1. PrintInv'
    <3>1. \A q \in Stream : q # s => is_exit'[q] = is_exit[q]
      BY <1>8 DEF Close, TypeInv
    <3>2. \A p \in Producer : prod[p].s \in Stream
      BY ProdTypes
    <3> QED
      BY <1>8, <3>1, <3>2 DEF Close, PrintInv
  <2>2. ListInv'
    BY <1>8 DEF Close, ListInv
  <2>3. WorkInv'
    BY <1>8 DEF Close, WorkInv, AnyData, data
  <2> QED
    BY <2>1, <2>2, <2>3
<1>9. ASSUME Top \/ UseFreed \/ SpuriousAwake PROVE PrintInv' /\ ListInv' /\ WorkInv'
  <2>1. /\ UNCHANGED <<lists, ring, prod, run, main, is_wait>>
        /\ wk'.log = wk.log
        /\ \/ wk.pc = "top" /\ wk'.pc = (IF ~run /\ ~AnyData THEN "exited" ELSE "pick")
           \/ wk'.pc \in {"undefined", "signalled"}
    BY <1>9 DEF Top, UseFreed, SpuriousAwake, data, TypeInv, WkType
  <2>2. AnyData' = AnyData
    BY <2>1 DEF AnyData, lists
  <2>3. PrintInv'
    BY <2>1 DEF PrintInv, lists
  <2>4. ListInv'
    BY <2>1 DEF ListInv, lists
  <2>5. WorkInv'
    BY <2>1, <2>2 DEF WorkInv, lists
  <2> QED
    BY <2>3, <2>4, <2>5
<1>10. ASSUME Pick PROVE PrintInv' /\ ListInv' /\ WorkInv'
  <2> DEFINE s == IF wk.log = NULL THEN log ELSE next[wk.log]
  <2>1. PickFrom(s) /\ UNCHANGED <<ring, run, prod, main>>
    BY <1>10 DEF Pick, data
  <2>2. s = NULL \/ (s \in Stream /\ status[s] = "open")
    BY <1>10, PickOpen DEF Pick
  <2> HIDE DEF s
  <2>3. CASE Visit(s) /\ s # NULL
    BY <2>1, <2>2, <2>3, VisitKeeps
  <2>4. CASE ~(Visit(s) /\ s # NULL)
    <3>1. /\ UNCHANGED lists
          /\ \/ wk' = [wk EXCEPT !.pc = "top", !.log = NULL] /\ UNCHANGED is_wait
             \/ ~AnyData /\ is_wait' = TRUE /\ wk' = [wk EXCEPT !.pc = "waiting", !.log = s]
      BY <2>1, <2>4 DEF PickFrom
    <3>2. \/ wk'.pc = "top" /\ wk'.log = NULL
          \/ ~AnyData /\ is_wait' = TRUE /\ wk'.pc = "waiting"
      BY <3>1 DEF TypeInv, WkType
    <3>3. AnyData' = AnyData
      BY <2>1, <3>1 DEF AnyData, lists
    <3>4. PrintInv'
      BY <2>1, <3>1 DEF PrintInv, lists
    <3>5. ListInv'
      BY <3>1 DEF ListInv, lists
    <3>6. WorkInv'
      BY <2>1, <3>1, <3>2, <3>3 DEF WorkInv, lists
    <3> QED
      BY <3>4, <3>5, <3>6
  <2> QED
    BY <2>3, <2>4
<1>11. ASSUME Awake PROVE PrintInv' /\ ListInv' /\ WorkInv'
  <2>1. UNCHANGED <<ring, run, prod, main>>
    BY <1>11 DEF Awake, data
  <2>2. CASE notify_log # NULL
    <3>1. notify_log \in Stream /\ status[notify_log] = "open" /\ Visit(notify_log)
      BY <1>11, <2>2 DEF Awake
    <3> QED
      BY <2>1, <3>1, VisitKeeps
  <2>3. CASE notify_log = NULL
    <3>1. UNCHANGED lists /\ wk'.pc = "top" /\ wk'.log = NULL
      BY <1>11, <2>3 DEF Awake, TypeInv, WkType
    <3>2. PrintInv'
      BY <2>1, <3>1 DEF PrintInv, lists
    <3>3. ListInv'
      BY <3>1 DEF ListInv, lists
    <3>4. WorkInv'
      BY <2>1, <3>1 DEF WorkInv, lists
    <3> QED
      BY <3>2, <3>3, <3>4
  <2> QED
    BY <2>2, <2>3
<1>12. ASSUME Write \/ WriteExt \/ ReleaseTaken \/ WakeWaiters PROVE PrintInv' /\ ListInv' /\ WorkInv'
  <2>1. /\ UNCHANGED <<lists, run, main, is_wait>>
        /\ wk'.log = wk.log /\ wk.log \in Stream /\ status[wk.log] = "open"
        /\ wk'.pc \in {"write_ext", "release", "wake", "top"}
        /\ \A q \in Stream : q # wk.log => ring'[q] = ring[q]
    <3>1. wk.pc \in {"write", "write_ext", "release", "wake"}
      BY <1>12 DEF Write, WriteExt, ReleaseTaken, WakeWaiters
    <3> QED
      BY <1>12, <3>1 DEF Write, WriteExt, ReleaseTaken, WakeWaiters, WorkInv, TypeInv, WkType, data
  <2>2. NoneBegins
    <3>1. ASSUME WakeWaiters PROVE NoneBegins
      <4>1. \A p \in Producer : [prod[p] EXCEPT !.pc = "woken"].s = prod[p].s
        BY DEF TypeInv, ProdType
      <4> QED
        BY <3>1, <4>1 DEF WakeWaiters, NoneBegins
    <3> QED
      BY <1>3, <1>12, <3>1 DEF Write, WriteExt, ReleaseTaken
  <2>3. PrintInv'
    BY <2>1, <2>2 DEF PrintInv, NoneBegins, lists
  <2>4. ListInv'
    BY <2>1 DEF ListInv, lists
  <2>5. WorkInv'
    BY <2>1 DEF WorkInv, ListInv, lists
  <2> QED
    BY <2>3, <2>4, <2>5
<1>13. ASSUME ExitStore PROVE PrintInv' /\ ListInv' /\ WorkInv'
  <2>1. PrintInv'
    BY <1>13 DEF ExitStore, PrintInv, lists
  <2>2. ListInv'
    BY <1>13 DEF ExitStore, ListInv, lists
  <2>3. WorkInv'
    BY <1>13 DEF ExitStore, WorkInv, AnyData, lists, data
  <2> QED
    BY <2>1, <2>2, <2>3
<1>14. ASSUME ExitSignal PROVE PrintInv' /\ ListInv' /\ WorkInv'
  <2>1. UNCHANGED <<lists, ring, is_wait, run, prod>> /\ Signal /\ main # "running"
    BY <1>14 DEF ExitSignal, data
  <2> QED
    BY <1>3, <2>1, SignalMoves, QuietStep
<1>15. ASSUME ExitClose PROVE PrintInv' /\ ListInv' /\ WorkInv'
  <2>1. /\ ~run /\ main' = "done" /\ log' = NULL /\ wk.pc = "exited"
        /\ UNCHANGED <<run, prod, wk, ring, next, is_exit>>
        /\ \A s \in Stream : status'[s] = IF status[s] = "open" THEN "freed" ELSE status[s]
    BY <1>15 DEF ExitClose, PrintInv, data
  <2>2. PrintInv'
    BY <2>1 DEF PrintInv
  <2>3. ListInv'
    <3>1. \A s \in Stream : status'[s] # "open"
      BY <2>1
    <3> QED
      BY <2>1, <3>1 DEF ListInv
  <2>4. WorkInv'
    BY <2>1 DEF WorkInv, AnyData
  <2> QED
    BY <2>2, <2>3, <2>4
<1>16. ASSUME Next PROVE ControlInv'
  <2>1. TypeInv'
    BY <1>16, TypeStep
  <2>2. PrintInv' /\ ListInv' /\ WorkInv'
    BY <1>4, <1>5, <1>6, <1>7, <1>8, <1>9, <1>10, <1>11, <1>12, <1>13, <1>14, <1>15, <1>16
    DEF Next, Printing, Worker, Exit
  <2> QED
    BY <2>1, <2>2 DEF ControlInv
<1> QED
  BY <1>1, <1>16

\* At first nobody prints, the root is the list, and all rings are empty.
LEMMA InitControl == Init => ControlInv
<1> SUFFICES ASSUME Init PROVE ControlInv
  OBVIOUS
<1>1. EmptyRing \in RingType /\ Quiet \in ProdType /\ Quiet.pc = "idle" /\ ~HasData(EmptyRing)
  BY StreamAssumption DEF EmptyRing, RingType, Quiet, ProdType, PrintPc, HasData
<1>2. [pc |-> "top", log |-> NULL, taken |-> Nothing, dropped |-> 0] \in WkType
  BY DEF WkType, WorkPc, Nothing, Taken, EmptyRing, TakenType
<1>3. TypeInv
  <2>1. ring \in [Stream -> RingType] /\ prod \in [Producer -> ProdType] /\ wk \in WkType
    BY <1>1, <1>2 DEF Init
  <2>2. cells \in [Stream -> [Offset -> Nat]] /\ accepted \in [Stream -> Seq(Nat)]
    BY DEF Init
  <2> QED
    BY <2>1, <2>2, StreamAssumption DEF Init, TypeInv
<1>4. PrintInv
  BY <1>1 DEF Init, PrintInv
<1>5. ListInv
  <2>1. [s \in Stream |-> 0] \in [Stream -> Nat]
    OBVIOUS
  <2> QED
    BY <2>1, StreamAssumption DEF Init, ListInv
<1>6. WorkInv
  BY <1>1 DEF Init, WorkInv
<1> QED
  BY <1>3, <1>4, <1>5, <1>6 DEF ControlInv

\* For every number of threads and streams and any lines: no line is in a ring
\* while the worker sleeps.  Whoever adds the first one finds is_wait set, and
\* the worker sets it in the step in which it looks at all the rings.
THEOREM NeverSleepsHolds == Spec => []NeverSleepsOnData
<1>1. ControlInv => NeverSleepsOnData
  BY DEF ControlInv, WorkInv, NeverSleepsOnData
<1> QED
  BY <1>1, InitControl, ControlStep, PTL DEF Spec

-------------------------------------------------------------------------------
(***************************************************************************)
(* Waiting threads are counted, and dropped lines come before stray bytes.  *)
(***************************************************************************)
\* A step that changes neither waiters nor who waits keeps the count.
LEMMA SameWaiters ==
  ASSUME WaitersInv, UNCHANGED waiters, \A s \in Stream : Waits(s)' = Waits(s)
  PROVE  WaitersInv'
BY DEF WaitersInv

\* waiters counts who waits for room: it is never decremented below 0, and
\* while somebody waits it is not 0, so that the worker broadcasts.
LEMMA WaitersStep ==
  ASSUME IsFiniteSet(Producer), ControlInv, WaitersInv, [Next]_vars
  PROVE  WaitersInv'
<1> TypeInv /\ prod \in [Producer -> ProdType]
  BY DEF ControlInv, TypeInv
<1> DEFINE In(g, s) == g.pc \in {"waiting", "woken"} /\ g.s = s
<1>1. ASSUME UNCHANGED waiters,
             \A p \in Producer : prod'[p] = prod[p] \/ \A s : In(prod'[p], s) <=> In(prod[p], s)
      PROVE  WaitersInv'
  BY <1>1, SameWaiters DEF Waits
<1>2. \A p \in Producer : \A pc : LET g == [prod EXCEPT ![p].pc = pc] IN
        g[p].pc = pc /\ g[p].s = prod[p].s /\ \A q \in Producer : q # p => g[q] = prod[q]
  BY DEF ProdType
<1>3. ASSUME NEW p \in Producer, NEW pc, Goto(p, pc)
      PROVE  prod'[p].pc = pc /\ prod'[p].s = prod[p].s /\ \A q \in Producer : q # p => prod'[q] = prod[q]
  BY <1>2, <1>3 DEF Goto
<1>4. ASSUME NEW p \in Producer, Return(p)
      PROVE  prod'[p].pc = "idle" /\ \A q \in Producer : q # p => prod'[q] = prod[q]
  BY <1>4 DEF Return, Quiet
<1>5. ASSUME UNCHANGED <<waiters, prod>> PROVE WaitersInv'
  BY <1>1, <1>5
<1>6. ASSUME NEW p \in Producer, NEW s \in Stream, NEW len \in LineLens, Call(p, s, len)
      PROVE  WaitersInv'
  BY <1>1, <1>6 DEF Call
<1>7. ASSUME NEW p \in Producer, NeedDrop(p) \/ PutLine(p) \/ Full(p) PROVE WaitersInv'
  <2>1. /\ prod[p].pc \in {"ask", "try"} /\ UNCHANGED waiters
        /\ Return(p) \/ Goto(p, "try") \/ Goto(p, "towait")
    BY <1>7 DEF NeedDrop, PutLine, Full, Drop
  <2>2. prod'[p].pc \in {"idle", "try", "towait"} /\ \A q \in Producer : q # p => prod'[q] = prod[q]
    BY <1>3, <1>4, <2>1
  <2> QED
    BY <1>1, <2>1, <2>2
<1>8. ASSUME NEW p \in Producer, SpuriousWake(p) PROVE WaitersInv'
  <2>1. prod[p].pc = "waiting" /\ UNCHANGED waiters /\ Goto(p, "woken")
    BY <1>8 DEF SpuriousWake
  <2> QED
    BY <1>1, <1>3, <2>1
<1>9. CASE WakeWaiters
  <2>1. \A p \in Producer : [prod[p] EXCEPT !.pc = "woken"].s = prod[p].s
                         /\ [prod[p] EXCEPT !.pc = "woken"].pc = "woken"
    BY DEF ProdType
  <2> QED
    BY <1>1, <1>9, <2>1 DEF WakeWaiters
<1>10. ASSUME NEW p \in Producer, Wait(p) PROVE WaitersInv'
  <2>6. PICK s \in Stream : s = prod[p].s
    BY ProdTypes
  <2>1. /\ prod[p].pc = "towait" /\ s \in Stream
        /\ waiters' = [waiters EXCEPT ![s] = @ + 1]
        /\ prod'[p].pc = "waiting" /\ prod'[p].s = s /\ \A q \in Producer : q # p => prod'[q] = prod[q]
    BY <1>3, <1>10, <2>6 DEF Wait
  <2>2. Waits(s)' = Waits(s) \cup {p} /\ p \notin Waits(s)
    BY <2>1, <2>6 DEF Waits
  <2>3. \A q \in Stream : q # s => Waits(q)' = Waits(q)
    BY <2>1, <2>6 DEF Waits
  <2>4. IsFiniteSet(Waits(s))
    BY FS_Subset DEF Waits
  <2>5. Cardinality(Waits(s)') = Cardinality(Waits(s)) + 1
    BY <2>2, <2>4, FS_AddElement
  <2> QED
    BY <2>1, <2>3, <2>5 DEF WaitersInv
<1>11. ASSUME NEW p \in Producer, Resume(p) PROVE WaitersInv'
  <2>6. PICK s \in Stream : s = prod[p].s
    BY ProdTypes
  <2>1. /\ prod[p].pc = "woken" /\ s \in Stream
        /\ waiters' = [waiters EXCEPT ![s] = @ - 1]
        /\ prod'[p].pc = "try" /\ prod'[p].s = s /\ \A q \in Producer : q # p => prod'[q] = prod[q]
    BY <1>3, <1>11, <2>6 DEF Resume
  <2>2. Waits(s)' = Waits(s) \ {p} /\ p \in Waits(s)
    BY <2>1, <2>6 DEF Waits
  <2>3. \A q \in Stream : q # s => Waits(q)' = Waits(q)
    BY <2>1, <2>6 DEF Waits
  <2>4. IsFiniteSet(Waits(s))
    BY FS_Subset DEF Waits
  <2>5. /\ Cardinality(Waits(s)') = Cardinality(Waits(s)) - 1
        /\ Cardinality(Waits(s)') \in Nat
    <3>1. IsFiniteSet(Waits(s)')
      BY <2>2, <2>4, FS_RemoveElement
    <3> QED
      BY <2>2, <2>4, <3>1, FS_RemoveElement, FS_CardinalityType
  <2> QED
    BY <2>1, <2>3, <2>5 DEF WaitersInv
<1>12. ASSUME NEW s \in Stream, Open(s) \/ Close(s) PROVE WaitersInv'
  BY <1>5, <1>12 DEF Open, Close
<1>13. CASE Top \/ Pick \/ Awake \/ Write \/ WriteExt \/ ReleaseTaken \/ UseFreed \/ SpuriousAwake \/ Exit
  BY <1>5, <1>13 DEF Top, Pick, Awake, Write, WriteExt, ReleaseTaken, UseFreed, SpuriousAwake,
     Exit, ExitStore, ExitSignal, ExitClose
<1>14. CASE UNCHANGED vars
  BY <1>5, <1>14 DEF vars
<1> HIDE DEF In
<1> QED
  BY <1>6, <1>7, <1>8, <1>9, <1>10, <1>11, <1>12, <1>13, <1>14 DEF Next, Printing, Worker

\* A visit takes over the count of dropped lines, or leaves it.
LEMMA VisitDrops ==
  ASSUME ControlInv, DropInv, RefusedInv, wk.pc \in {"pick", "signalled"},
         NEW s \in Stream, Visit(s), UNCHANGED <<refused, told>>
  PROVE  DropInv' /\ RefusedInv'
<1>1. /\ wk \in WkType /\ wk.dropped = 0 /\ \A q \in Stream : dropped[q] \in Nat
      /\ dropped \in [Stream -> Nat]
  BY DEF ControlInv, TypeInv, DropInv
<1>2. \A q \in Stream : stray[q] \/ dropped[q] > 0 => refused[q] > 0
  BY <1>1 DEF RefusedInv
<1>3. CASE HasData(ring[s])
  <2>1. /\ wk'.pc = "write" /\ wk'.log = s /\ wk'.dropped = dropped[s]
        /\ \A q \in Stream : dropped'[q] = IF q = s THEN 0 ELSE dropped[q]
    BY <1>1, <1>3 DEF Visit
  <2> QED
    BY <1>1, <1>2, <2>1 DEF DropInv, RefusedInv, told
<1>4. CASE ~HasData(ring[s])
  <2>1. wk'.dropped = 0 /\ dropped' = dropped
    BY <1>1, <1>4 DEF Visit, CloseIdle, WkType
  <2> QED
    BY <1>1, <1>2, <2>1 DEF DropInv, RefusedInv, told
<1> QED
  BY <1>3, <1>4

\* Dropped lines are counted by a print and taken over by the worker when it
\* takes the bytes; only after them can anything but lines be written.
LEMMA DropsStep ==
  ASSUME ControlInv, DropInv, RefusedInv, [Next]_vars
  PROVE  DropInv' /\ RefusedInv'
<1> TypeInv /\ WorkInv /\ wk \in WkType
  BY DEF ControlInv, TypeInv
<1>1. ASSUME UNCHANGED <<drops, told>>, wk'.dropped = wk.dropped,
             wk'.log = wk.log \/ wk.dropped = 0, wk'.pc \in {"write", "write_ext"} \/ wk.dropped = 0
      PROVE  DropInv' /\ RefusedInv'
  BY <1>1 DEF DropInv, RefusedInv, drops, told
<1>2. ASSUME UNCHANGED <<drops, told>>, SignalOrNot PROVE DropInv' /\ RefusedInv'
  BY <1>1, <1>2 DEF SignalOrNot, DropInv
<1>3. wk' = wk => SignalOrNot
  BY DEF SignalOrNot
<1>4. ASSUME NEW p \in Producer, Drop(p), SignalOrNot, UNCHANGED told
      PROVE  DropInv' /\ RefusedInv'
  <2>1. PICK s \in Stream : s = prod[p].s
    BY ProdTypes
  <2>2. /\ \A q \in Stream : dropped'[q] = IF q = s THEN dropped[q] + 1 ELSE dropped[q]
        /\ \A q \in Stream : refused'[q] = IF q = s THEN refused[q] + 1 ELSE refused[q]
        /\ \A q \in Stream : dropped[q] \in Nat /\ refused[q] \in Nat /\ stray'[q] = stray[q]
        /\ wk.dropped \in Nat
    BY <1>4, <2>1 DEF Drop, TypeInv, WkType, told
  <2>3. DropInv'
    BY <1>4 DEF DropInv, SignalOrNot
  <2>4. RefusedInv'
    BY <1>4, <2>2 DEF RefusedInv, SignalOrNot
  <2> QED
    BY <2>3, <2>4
<1>5. ASSUME NEW p \in Producer, NEW s \in Stream, NEW len \in LineLens, Call(p, s, len)
      PROVE  DropInv' /\ RefusedInv'
  BY <1>2, <1>3, <1>5 DEF Call, written
<1>6. ASSUME NEW p \in Producer, NeedDrop(p) \/ PutLine(p) \/ Full(p) \/ Wait(p) \/ Resume(p) \/ SpuriousWake(p)
      PROVE  DropInv' /\ RefusedInv'
  <2>1. SignalOrNot
    BY <1>3, <1>6, SignalMoves DEF NeedDrop, PutLine, Tell, Full, Wait, Resume, SpuriousWake
  <2>2. UNCHANGED told /\ (Drop(p) \/ UNCHANGED drops)
    BY <1>6 DEF NeedDrop, PutLine, Full, Wait, Resume, SpuriousWake, written
  <2> QED
    BY <1>2, <1>4, <2>1, <2>2
<1>7. ASSUME NEW s \in Stream, Open(s) \/ Close(s) PROVE DropInv' /\ RefusedInv'
  BY <1>2, <1>3, <1>7 DEF Open, Close, written
<1>8. ASSUME Top \/ UseFreed \/ SpuriousAwake \/ ReleaseTaken \/ WakeWaiters
      PROVE  DropInv' /\ RefusedInv'
  <2>1. /\ UNCHANGED <<drops, told>> /\ wk'.dropped = wk.dropped /\ wk'.log = wk.log
        /\ wk.pc \notin {"write", "write_ext"}
    BY <1>8 DEF Top, UseFreed, SpuriousAwake, ReleaseTaken, WakeWaiters, written, WkType
  <2> QED
    BY <1>1, <2>1 DEF DropInv
<1>9. ASSUME Pick PROVE DropInv' /\ RefusedInv'
  <2> DEFINE s == IF wk.log = NULL THEN log ELSE next[wk.log]
  <2>1. PickFrom(s) /\ UNCHANGED <<refused, told>> /\ wk.pc = "pick"
    BY <1>9 DEF Pick, written
  <2>2. s \in Stream \cup {NULL}
    BY DEF TypeInv, WkType
  <2> HIDE DEF s
  <2>3. CASE s # NULL /\ Visit(s)
    BY <2>1, <2>2, <2>3, VisitDrops
  <2>4. CASE ~(s # NULL /\ Visit(s))
    <3>1. UNCHANGED dropped /\ wk'.dropped = wk.dropped
      BY <2>1, <2>4 DEF PickFrom, WkType
    <3> QED
      BY <1>1, <2>1, <3>1 DEF DropInv, drops
  <2> QED
    BY <2>3, <2>4
<1>10. ASSUME Awake PROVE DropInv' /\ RefusedInv'
  <2>1. UNCHANGED <<refused, told>> /\ wk.pc = "signalled"
    BY <1>10 DEF Awake, written
  <2>2. CASE notify_log # NULL
    <3>1. notify_log \in Stream /\ Visit(notify_log)
      BY <1>10, <2>2 DEF Awake
    <3> QED
      BY <2>1, <3>1, VisitDrops
  <2>3. CASE notify_log = NULL
    <3>1. UNCHANGED dropped /\ wk'.dropped = wk.dropped
      BY <1>10, <2>3 DEF Awake, WkType
    <3> QED
      BY <1>1, <2>1, <3>1 DEF DropInv, drops
  <2> QED
    BY <2>2, <2>3
<1>11. ASSUME Write PROVE DropInv' /\ RefusedInv'
  <2>1. UNCHANGED <<drops, told>> /\ wk'.dropped = wk.dropped /\ wk'.log = wk.log /\ wk'.pc = "write_ext"
    BY <1>11 DEF Write, WkType
  <2> QED
    BY <1>1, <2>1
<1>12. ASSUME WriteExt PROVE DropInv' /\ RefusedInv'
  <2>1. /\ UNCHANGED drops /\ wk'.dropped = 0 /\ wk.log \in Stream
        /\ \A q \in Stream : stray'[q] => stray[q] \/ (q = wk.log /\ wk.dropped > 0)
        /\ \A q \in Stream : dropped[q] \in Nat /\ refused[q] \in Nat
        /\ wk.dropped \in Nat
    BY <1>12 DEF WriteExt, WriteDropped, WorkInv, WkType, TypeInv
  <2> QED
    BY <2>1 DEF DropInv, RefusedInv, drops
<1>13. ASSUME Exit PROVE DropInv' /\ RefusedInv'
  <2>1. UNCHANGED <<drops, told>> /\ (Signal \/ wk' = wk)
    BY <1>13 DEF Exit, ExitStore, ExitSignal, ExitClose, written
  <2> QED
    BY <1>2, <2>1, SignalMoves
<1>14. ASSUME UNCHANGED vars PROVE DropInv' /\ RefusedInv'
  BY <1>2, <1>3, <1>14 DEF vars, written
<1> QED
  BY <1>5, <1>6, <1>7, <1>8, <1>9, <1>10, <1>11, <1>12, <1>13, <1>14 DEF Next, Printing, Worker

-------------------------------------------------------------------------------
(***************************************************************************)
(* Bytes in the ring, and what is unread of them.                          *)
(***************************************************************************)
\* Bytes in the buffer are a sequence, and none is in no bytes.
LEMMA BytesType ==
  ASSUME NEW c \in [Offset -> Nat], NEW o \in Nat, NEW n \in Nat, o + n <= BuffSize
  PROVE  /\ BytesIn(c, o, n) \in Seq(Nat) /\ Len(BytesIn(c, o, n)) = n
         /\ \A i \in 1 .. n : BytesIn(c, o, n)[i] = c[o + i - 1]
         /\ n = 0 => BytesIn(c, o, n) = <<>>
<1>1. \A i \in 1 .. n : o + i - 1 \in Offset /\ c[o + i - 1] \in Nat
  BY RingAssumption DEF Offset
<1>2. BytesIn(c, o, n) \in [1 .. n -> Nat]
  BY <1>1 DEF BytesIn
<1>3. BytesIn(c, o, n) \in Seq(Nat) /\ Len(BytesIn(c, o, n)) = n
  BY <1>2
<1> QED
  BY <1>3 DEF BytesIn

\* A sequence that begins like one and goes on like another is both together.
LEMMA TwoParts ==
  ASSUME NEW w \in Seq(Nat), NEW a \in Seq(Nat), NEW b \in Seq(Nat),
         Len(w) = Len(a) + Len(b),
         \A i \in 1 .. Len(a) : w[i] = a[i],
         \A i \in 1 .. Len(b) : w[Len(a) + i] = b[i]
  PROVE  w = Cat(a, b)
<1>1. /\ a \o b \in Seq(Nat) /\ Len(a \o b) = Len(a) + Len(b)
      /\ \A i \in 1 .. Len(a) + Len(b) : (a \o b)[i] = IF i <= Len(a) THEN a[i] ELSE b[i - Len(a)]
  BY ConcatProperties
<1>2. Len(a) \in Nat /\ Len(b) \in Nat
  OBVIOUS
<1>3. ASSUME NEW i \in 1 .. Len(w) PROVE w[i] = (a \o b)[i]
  <2>1. CASE i <= Len(a)
    BY <1>1, <1>2, <2>1
  <2>2. CASE i > Len(a)
    <3>1. i - Len(a) \in 1 .. Len(b) /\ Len(a) + (i - Len(a)) = i
      BY <1>2, <2>2
    <3>2. w[Len(a) + (i - Len(a))] = b[i - Len(a)]
      BY <3>1
    <3> QED
      BY <1>1, <1>2, <2>2, <3>1, <3>2
  <2> QED
    BY <1>2, <2>1, <2>2
<1> QED
  BY <1>1, <1>3, SeqEqual DEF Cat

\* m is k more than n
Adds(n, k, m) == m = n + k

\* The n bytes from o can be read in two parts, m from o and k from q.
LEMMA BytesSplit ==
  ASSUME NEW c \in [Offset -> Nat], NEW o \in Nat, NEW m \in Nat, NEW k \in Nat,
         NEW n \in Nat, NEW q \in Nat, Adds(m, k, n), Adds(o, m, q), o + n <= BuffSize
  PROVE  BytesIn(c, o, n) = Cat(BytesIn(c, o, m), BytesIn(c, q, k))
<1> DEFINE a == BytesIn(c, o, m)
           b == BytesIn(c, o + m, k)
           w == BytesIn(c, o, m + k)
<1>1. BuffSize \in Nat /\ n = m + k /\ q = o + m /\ o + (m + k) <= BuffSize
  BY RingAssumption DEF Adds
<1>2. w \in Seq(Nat) /\ Len(w) = m + k /\ \A i \in 1 .. m + k : w[i] = c[o + i - 1]
  <2>1. m + k \in Nat
    OBVIOUS
  <2> QED
    BY <1>1, <2>1, BytesType, ZenonT(30)
<1>3. a \in Seq(Nat) /\ Len(a) = m /\ \A i \in 1 .. m : a[i] = c[o + i - 1]
  <2>1. o + m <= BuffSize
    BY <1>1
  <2> QED
    BY <2>1, BytesType
<1>4. b \in Seq(Nat) /\ Len(b) = k /\ \A i \in 1 .. k : b[i] = c[(o + m) + i - 1]
  <2>1. o + m \in Nat /\ (o + m) + k <= BuffSize
    BY <1>1
  <2> QED
    BY <2>1, BytesType
<1> HIDE DEF a, b, w
<1>5. \A i \in 1 .. m : w[i] = a[i]
  <2> TAKE i \in 1 .. m
  <2>1. i \in 1 .. m + k
    OBVIOUS
  <2> QED
    BY <1>2, <1>3, <2>1
<1>6. \A i \in 1 .. k : w[m + i] = b[i]
  <2> TAKE i \in 1 .. k
  <2>1. m + i \in 1 .. m + k /\ o + (m + i) - 1 = (o + m) + i - 1
    OBVIOUS
  <2>2. w[m + i] = c[o + (m + i) - 1]
    BY <1>2, <2>1
  <2>3. b[i] = c[(o + m) + i - 1]
    BY <1>4
  <2> QED
    BY <2>1, <2>2, <2>3
<1>7. w = Cat(a, b)
  <2>1. w \in Seq(Nat) /\ a \in Seq(Nat) /\ b \in Seq(Nat) /\ Len(w) = m + k /\ Len(a) = m /\ Len(b) = k
    BY <1>2, <1>3, <1>4
  <2> QED
    BY <1>5, <1>6, <2>1, TwoParts
<1> QED
  BY <1>1, <1>7 DEF a, b, w

\* a line of len bytes
LineOf(len, line) == [i \in 1 .. len |-> line]

\* the bytes d are the bytes c with a line of len bytes put at e
IsPut(d, c, e, len, line) ==
  /\ d \in [Offset -> Nat]
  /\ \A x \in Offset : d[x] = IF x \in e .. e + len - 1 THEN line ELSE c[x]

\* A line put behind bytes follows them; bytes it is not put among stay.
LEMMA BytesPut ==
  ASSUME NEW c \in [Offset -> Nat], NEW e \in Nat, NEW len \in Nat, e + len <= BuffSize,
         NEW line \in Nat, NEW d, IsPut(d, c, e, len, line)
  PROVE  /\ d \in [Offset -> Nat] /\ BytesIn(d, e, len) = LineOf(len, line)
         /\ \A o \in Nat, n \in Nat : o + n <= BuffSize /\ (o + n <= e \/ o >= e + len)
               => BytesIn(d, o, n) = BytesIn(c, o, n)
<1>1. d \in [Offset -> Nat] /\ \A x \in Offset : d[x] = IF x \in e .. e + len - 1 THEN line ELSE c[x]
  BY DEF IsPut
<1>2. BytesIn(d, e, len) = LineOf(len, line)
  <2>1. \A i \in 1 .. len : d[e + i - 1] = line
    BY <1>1, RingAssumption DEF Offset
  <2> QED
    BY <2>1 DEF BytesIn, LineOf
<1>3. ASSUME NEW o \in Nat, NEW n \in Nat, o + n <= BuffSize, o + n <= e \/ o >= e + len
      PROVE  BytesIn(d, o, n) = BytesIn(c, o, n)
  <2>1. \A i \in 1 .. n : d[o + i - 1] = c[o + i - 1]
    BY <1>1, <1>3, RingAssumption DEF Offset
  <2> QED
    BY <2>1 DEF BytesIn
<1> QED
  BY <1>1, <1>2, <1>3

\* what is unread in v is inside the buffer
Readable(v) ==
  /\ v.end <= BuffSize
  /\ IF v.ext_end > 0 THEN v.start <= v.ext_end /\ v.ext_end <= BuffSize ELSE v.start <= v.end

\* there is room in v for a line of len bytes and what is unread
Fits(v, len) ==
  IF v.ext_end > 0
  THEN /\ v.start <= v.ext_end /\ v.ext_end <= BuffSize
       /\ v.end + len <= v.start /\ v.end + len <= BuffSize - MaxLine
  ELSE v.start <= v.end /\ v.end + len <= BuffSize

\* What is unread is a sequence of bytes.
LEMMA UnreadType ==
  ASSUME NEW c \in [Offset -> Nat], NEW v \in RingType, Readable(v)
  PROVE  UnreadIn(c, v) \in Seq(Nat)
<1>1. /\ v.start \in Nat /\ v.end \in Nat /\ v.ext_end \in Nat /\ BuffSize \in Nat
      /\ v.end <= BuffSize
      /\ IF v.ext_end > 0 THEN v.start <= v.ext_end /\ v.ext_end <= BuffSize ELSE v.start <= v.end
  BY RingAssumption DEF RingType, Readable
<1>2. CASE v.ext_end > 0
  <2>1. BytesIn(c, 0, v.end) \in Seq(Nat)
    <3>1. 0 + v.end <= BuffSize
      BY <1>1
    <3> QED
      BY <1>1, <3>1, BytesType
  <2>2. BytesIn(c, v.start, v.ext_end - v.start) \in Seq(Nat)
    <3>1. v.ext_end - v.start \in Nat /\ v.start + (v.ext_end - v.start) <= BuffSize
      BY <1>1, <1>2
    <3> QED
      BY <1>1, <3>1, BytesType
  <2>3. UnreadIn(c, v) = Cat(BytesIn(c, v.start, v.ext_end - v.start), BytesIn(c, 0, v.end))
    BY <1>2 DEF UnreadIn
  <2> QED
    BY <2>1, <2>2, <2>3, ConcatProperties DEF Cat
<1>3. CASE ~(v.ext_end > 0)
  <2>1. v.end - v.start \in Nat /\ v.start + (v.end - v.start) <= BuffSize
    BY <1>1, <1>3
  <2>2. BytesIn(c, v.start, v.end - v.start) \in Seq(Nat)
    BY <1>1, <2>1, BytesType
  <2> QED
    BY <1>3, <2>2 DEF UnreadIn
<1> QED
  BY <1>2, <1>3

\* The n bytes from o to e, and a line put at e.
LEMMA PutBehind ==
  ASSUME NEW c \in [Offset -> Nat], NEW o \in Nat, NEW n \in Nat, NEW e \in Nat, NEW len \in Nat,
         NEW m \in Nat, NEW line \in Nat, NEW d,
         Adds(o, n, e), Adds(n, len, m), e + len <= BuffSize, IsPut(d, c, e, len, line)
  PROVE  BytesIn(d, o, m) = Cat(BytesIn(c, o, n), LineOf(len, line))
<1>1. /\ d \in [Offset -> Nat] /\ BytesIn(d, e, len) = LineOf(len, line)
      /\ \A q \in Nat, k \in Nat : q + k <= BuffSize /\ (q + k <= e \/ q >= e + len)
            => BytesIn(d, q, k) = BytesIn(c, q, k)
  BY BytesPut
<1>2. o + m <= BuffSize /\ o + n <= BuffSize /\ o + n <= e
  BY RingAssumption DEF Adds
<1>3. BytesIn(d, o, m) = Cat(BytesIn(d, o, n), BytesIn(d, e, len))
  <2> d \in [Offset -> Nat]
    BY <1>1
  <2> QED
    BY <1>2, BytesSplit
<1>4. BytesIn(d, o, n) = BytesIn(c, o, n)
  BY <1>1, <1>2
<1> QED
  BY <1>1, <1>3, <1>4

\* Three sequences, one after the other, and one after nothing.
LEMMA ThreeParts ==
  /\ \A a, b, e \in Seq(Nat) : Cat(a, Cat(b, e)) = Cat(Cat(a, b), e) /\ Cat(a, b) \in Seq(Nat)
  /\ \A a \in Seq(Nat) : Cat(a, <<>>) = a /\ Cat(<<>>, a) = a
<1>1. ASSUME NEW a \in Seq(Nat), NEW b \in Seq(Nat), NEW e \in Seq(Nat)
      PROVE  Cat(a, Cat(b, e)) = Cat(Cat(a, b), e) /\ Cat(a, b) \in Seq(Nat)
  BY ConcatAssociative, ConcatProperties, SMTT(30) DEF Cat
<1>2. ASSUME NEW a \in Seq(Nat) PROVE Cat(a, <<>>) = a /\ Cat(<<>>, a) = a
  BY ConcatEmptySeq DEF Cat
<1> QED
  BY <1>1, <1>2

\* A line pushed where there is room follows what is unread, whether it is the
\* one that wraps, comes before a wrap, or after one.
LEMMA PushUnread ==
  ASSUME NEW c \in [Offset -> Nat], NEW v \in RingType, NEW len \in Nat, NEW line \in Nat, NEW d,
         IsPut(d, c, v.end, len, line), Fits(v, len)
  PROVE  UnreadIn(d, Push(v, len)) = Cat(UnreadIn(c, v), LineOf(len, line))
<1>1. PICK st \in Nat, en \in Nat, ex \in Nat : v.start = st /\ v.end = en /\ v.ext_end = ex
  BY DEF RingType
<1>2. BuffSize \in Nat /\ MaxLine \in Nat /\ MaxLine > 0 /\ BuffSize >= 2 * MaxLine
  BY RingAssumption
<1>3. PICK new : new = LineOf(len, line)
  OBVIOUS
<1>4. new \in Seq(Nat)
  BY <1>3 DEF LineOf
<1>5. en + len <= BuffSize
  BY <1>1, <1>2 DEF Fits
<1>6. IsPut(d, c, en, len, line)
  BY <1>1
<1>7. d \in [Offset -> Nat]
  BY <1>6 DEF IsPut
<1>11. PICK r : r = Push(v, len)
  OBVIOUS
<1>8. UnreadIn(c, v) = IF ex > 0 THEN Cat(BytesIn(c, st, ex - st), BytesIn(c, 0, en))
                       ELSE BytesIn(c, st, en - st)
  BY <1>1 DEF UnreadIn
<1>9. CASE ex > 0
  <2>1. st <= ex /\ ex <= BuffSize /\ en + len <= st /\ ~(en + len > BuffSize - MaxLine)
    BY <1>1, <1>2, <1>9 DEF Fits
  <2>2. r = [v EXCEPT !.end = en + len]
    BY <1>1, <1>11, <2>1 DEF Push
  <2>3. r.start = st /\ r.end = en + len /\ r.ext_end = ex
    BY <1>1, <2>2 DEF RingType
  <2>4. UnreadIn(d, r) = Cat(BytesIn(d, st, ex - st), BytesIn(d, 0, en + len))
    BY <1>9, <2>3 DEF UnreadIn
  <2>5. BytesIn(d, 0, en + len) = Cat(BytesIn(c, 0, en), new)
    <3>1. 0 \in Nat /\ 0 + en = en /\ en + len \in Nat
      OBVIOUS
    <3>2. PICK m \in Nat, z \in Nat : m = en + len /\ z = 0
      BY <3>1
    <3>3. Adds(z, en, en) /\ Adds(en, len, m)
      BY <3>2 DEF Adds
    <3>4. BytesIn(d, z, m) = Cat(BytesIn(c, z, en), LineOf(len, line))
      BY <1>5, <1>6, <3>3, PutBehind, SMTT(30)
    <3> QED
      BY <1>3, <3>2, <3>4
  <2>6. ex - st \in Nat /\ st + (ex - st) <= BuffSize /\ st >= en + len /\ en <= BuffSize /\ 0 + en <= BuffSize
    BY <1>2, <2>1
  <2>7. BytesIn(d, st, ex - st) = BytesIn(c, st, ex - st)
    BY <1>5, <1>6, <2>6, BytesPut
  <2>8. BytesIn(c, st, ex - st) \in Seq(Nat)
    BY <2>6, BytesType
  <2>9. BytesIn(c, 0, en) \in Seq(Nat)
    BY <2>6, BytesType
  <2>10. Cat(BytesIn(c, st, ex - st), Cat(BytesIn(c, 0, en), new))
           = Cat(Cat(BytesIn(c, st, ex - st), BytesIn(c, 0, en)), new)
    <3>1. PICK x \in Seq(Nat), y \in Seq(Nat) : x = BytesIn(c, st, ex - st) /\ y = BytesIn(c, 0, en)
      BY <2>8, <2>9
    <3>2. Cat(x, Cat(y, new)) = Cat(Cat(x, y), new)
      BY <1>4, ThreeParts
    <3> QED
      BY <3>1, <3>2
  <2> QED
    BY <1>3, <1>8, <1>9, <1>11, <2>4, <2>5, <2>7, <2>10
<1>10. CASE ~(ex > 0)
  <2>1. st <= en
    BY <1>1, <1>10 DEF Fits
  <2>2. BytesIn(d, st, (en + len) - st) = Cat(BytesIn(c, st, en - st), new)
    <3>1. PICK n \in Nat, m \in Nat : n = en - st /\ m = (en + len) - st
      BY <2>1
    <3>2. Adds(st, n, en) /\ Adds(n, len, m)
      BY <3>1 DEF Adds
    <3>3. BytesIn(d, st, m) = Cat(BytesIn(c, st, n), LineOf(len, line))
      BY <1>5, <1>6, <3>2, PutBehind, SMTT(30)
    <3> QED
      BY <1>3, <3>1, <3>3
  <2>3. UnreadIn(c, v) = BytesIn(c, st, en - st)
    BY <1>8, <1>10
  <2>4. CASE en + len > BuffSize - MaxLine
    <3>1. r = [v EXCEPT !.ext_end = en + len, !.end = 0]
      BY <1>1, <1>11, <2>4 DEF Push
    <3>2. r.start = st /\ r.end = 0 /\ r.ext_end = en + len
      BY <1>1, <3>1 DEF RingType
    <3>3. en + len > 0
      BY <1>2, <2>4
    <3>4. UnreadIn(d, r) = Cat(BytesIn(d, st, (en + len) - st), BytesIn(d, 0, 0))
      BY <3>2, <3>3 DEF UnreadIn
    <3>5. BytesIn(d, 0, 0) = <<>>
      <4>1. 0 \in Nat /\ 0 + 0 <= BuffSize
        BY <1>2
      <4> QED
        BY <1>7, <4>1, BytesType
    <3>6. BytesIn(d, st, (en + len) - st) \in Seq(Nat)
      <4>1. (en + len) - st \in Nat /\ st + ((en + len) - st) <= BuffSize
        BY <1>5, <2>1, <1>2
      <4> QED
        BY <1>7, <4>1, BytesType
    <3>7. Cat(BytesIn(d, st, (en + len) - st), <<>>) = BytesIn(d, st, (en + len) - st)
      BY <3>6, ThreeParts
    <3> QED
      BY <1>3, <1>11, <2>2, <2>3, <3>4, <3>5, <3>7
  <2>5. CASE ~(en + len > BuffSize - MaxLine)
    <3>1. r = [v EXCEPT !.end = en + len]
      BY <1>1, <1>11, <2>5 DEF Push
    <3>2. r.start = st /\ r.end = en + len /\ r.ext_end = ex
      BY <1>1, <3>1 DEF RingType
    <3>3. UnreadIn(d, r) = BytesIn(d, st, (en + len) - st)
      BY <1>10, <3>2 DEF UnreadIn
    <3> QED
      BY <1>3, <1>11, <2>2, <2>3, <3>3
  <2> QED
    BY <2>4, <2>5
<1> QED
  BY <1>9, <1>10
\* The worker takes the beginning of what is there.
LEMMA TakeOK ==
  ASSUME NEW r \in RingType, RingOK(r)
  PROVE  TakenOK(r, Taken(r))
<1>1. PICK st \in Nat, en \in Nat, ex \in Nat : r.start = st /\ r.end = en /\ r.ext_end = ex
  BY DEF RingType
<1>2. BuffSize \in Nat /\ MaxLine \in Nat /\ MaxLine > 0 /\ BuffSize >= 2 * MaxLine
  BY RingAssumption
<1>3. PICK t : t = Taken(r)
  OBVIOUS
<1>4. /\ t.len = IF en > st THEN en - st ELSE IF ex > 0 THEN ex - st ELSE 0
      /\ t.extlen = (IF en < st THEN en ELSE 0)
      /\ t.end = en /\ t.ext = ex
  BY <1>1, <1>3 DEF Taken
<1>5. /\ st <= BuffSize - MaxLine /\ en <= BuffSize - MaxLine
      /\ ex = 0 => st <= en
      /\ ex > 0 => en < st \/ en = 0
  BY <1>1 DEF RingOK
<1> QED
  BY <1>1, <1>2, <1>3, <1>4, <1>5 DEF TakenOK

\* A ring is its three offsets.
LEMMA SameRing ==
  ASSUME NEW x \in RingType, NEW y \in RingType,
         x.start = y.start, x.end = y.end, x.ext_end = y.ext_end
  PROVE  x = y
BY DEF RingType

\* Where a line that is pushed leaves the ring.
LEMMA PushFields ==
  ASSUME NEW r \in RingType, NEW len \in Nat
  PROVE  LET w == Push(r, len) IN
         /\ w \in RingType /\ w.start = r.start
         /\ r.end + len > BuffSize - MaxLine => w.end = 0 /\ w.ext_end = r.end + len
         /\ r.end + len <= BuffSize - MaxLine => w.end = r.end + len /\ w.ext_end = r.ext_end
<1> DEFINE w == Push(r, len)
<1>1. w \in RingType
  BY RingTypes
<1>2. BuffSize - MaxLine \in Int /\ r.end + len \in Int
  BY RingAssumption DEF RingType
<1>3. CASE r.end + len > BuffSize - MaxLine
  <2>1. w.start = r.start /\ w.end = 0 /\ w.ext_end = r.end + len
    BY <1>3 DEF Push, RingType
  <2> QED
    BY <1>1, <1>2, <1>3, <2>1
<1>4. CASE ~(r.end + len > BuffSize - MaxLine)
  <2>1. w.start = r.start /\ w.end = r.end + len /\ w.ext_end = r.ext_end
    BY <1>4 DEF Push, RingType
  <2> QED
    BY <1>1, <1>4, <2>1
<1> QED
  BY <1>3, <1>4

\* The ring without what the first write wrote, and with all given back.
LEMMA ReleaseFields ==
  ASSUME NEW r \in RingType, NEW t \in TakenType
  PROVE  LET f == FirstWritten(r, t)
             g == Release(r, t)
         IN /\ f \in RingType /\ g \in RingType
            /\ f.end = r.end /\ g.end = r.end /\ g.start = t.end
            /\ t.ext > 0 => f.start = 0 /\ f.ext_end = 0 /\ g.ext_end = 0
            /\ t.ext = 0 => f.start = t.end /\ f.ext_end = r.ext_end /\ g.ext_end = r.ext_end
<1> DEFINE f == FirstWritten(r, t)
           g == Release(r, t)
<1>1. g \in RingType
  BY RingTypes
<1>2. f \in RingType
  BY DEF RingType, TakenType, FirstWritten
<1>3. g.start = t.end /\ g.end = r.end /\ g.ext_end = IF t.ext > 0 THEN 0 ELSE r.ext_end
  BY DEF RingType, Release
<1>4. CASE t.ext > 0
  <2>1. f.start = 0 /\ f.end = r.end /\ f.ext_end = 0
    BY <1>4 DEF RingType, FirstWritten
  <2> QED
    BY <1>1, <1>2, <1>3, <1>4, <2>1
<1>5. CASE ~(t.ext > 0)
  <2>1. f.start = t.end /\ f.end = r.end /\ f.ext_end = r.ext_end
    BY <1>5 DEF RingType, FirstWritten
  <2> QED
    BY <1>1, <1>2, <1>3, <1>5, <2>1
<1> QED
  BY <1>4, <1>5

\* A line shorter than max_line_size for which there is room keeps the shape
\* of the ring.
LEMMA PushShape ==
  ASSUME NEW r \in RingType, RingOK(r), NEW len \in Nat, len < MaxLine, Room(r) >= MaxLine
  PROVE  /\ RingOK(Push(r, len)) /\ Fits(r, len)
         /\ r.ext_end > 0 => r.end + len <= BuffSize - MaxLine /\ r.end + len < r.start
<1>1. PICK st \in Nat, en \in Nat, ex \in Nat : r.start = st /\ r.end = en /\ r.ext_end = ex
  BY DEF RingType
<1>2. BuffSize \in Nat /\ MaxLine \in Nat /\ MaxLine > 0 /\ BuffSize >= 2 * MaxLine
  BY RingAssumption
<1>3. /\ st <= BuffSize - MaxLine /\ en <= BuffSize - MaxLine /\ ex <= BuffSize
      /\ ex = 0 => st <= en
      /\ ex > 0 => ex > BuffSize - MaxLine /\ (en < st \/ en = 0)
  BY <1>1 DEF RingOK
<1>4. ex > 0 => en + MaxLine <= st
  BY <1>1, <1>2, <1>3 DEF Room
<1>5. PICK w \in RingType :
        /\ w = Push(r, len) /\ w.start = st
        /\ en + len > BuffSize - MaxLine => w.end = 0 /\ w.ext_end = en + len
        /\ en + len <= BuffSize - MaxLine => w.end = en + len /\ w.ext_end = ex
  BY <1>1, PushFields
<1>6. ex > 0 => en + len <= BuffSize - MaxLine /\ en + len < st
  BY <1>2, <1>3, <1>4
<1>7. RingOK(w)
  BY <1>2, <1>3, <1>5, <1>6 DEF RingOK
<1>8. Fits(r, len)
  BY <1>1, <1>2, <1>3, <1>6 DEF Fits
<1> QED
  BY <1>1, <1>5, <1>6, <1>7, <1>8

\* What the worker took is still the beginning of a ring to which a line was
\* pushed, and the line can be pushed after the worker's write as well.
LEMMA PushTaken ==
  ASSUME NEW r \in RingType, RingOK(r), NEW len \in Nat, len < MaxLine, Room(r) >= MaxLine,
         NEW t \in TakenType, TakenOK(r, t)
  PROVE  /\ TakenOK(Push(r, len), t)
         /\ FirstWritten(Push(r, len), t) = Push(FirstWritten(r, t), len)
         /\ Release(Push(r, len), t) = Push(Release(r, t), len)
         /\ Fits(FirstWritten(r, t), len) /\ Fits(Release(r, t), len)
<1>1. PICK st \in Nat, en \in Nat, ex \in Nat : r.start = st /\ r.end = en /\ r.ext_end = ex
  BY DEF RingType
<1>2. BuffSize \in Nat /\ MaxLine \in Nat /\ MaxLine > 0 /\ BuffSize >= 2 * MaxLine
  BY RingAssumption
<1>3. /\ st <= BuffSize - MaxLine /\ en <= BuffSize - MaxLine /\ ex <= BuffSize
      /\ ex = 0 => st <= en
      /\ ex > 0 => ex > BuffSize - MaxLine
      /\ ex > 0 => en + len <= BuffSize - MaxLine /\ en + len < st
  BY <1>1, PushShape DEF RingOK
<1>4. PICK tl \in Int, tx \in Int, te \in Nat, ext \in Nat :
        t.len = tl /\ t.extlen = tx /\ t.end = te /\ t.ext = ext
  BY DEF TakenType
<1>5. \/ ext = 0 /\ tx = 0 /\ tl = te - st /\ st <= te /\ te <= BuffSize - MaxLine /\ (ex = 0 => te <= en)
      \/ ext > 0 /\ ex = ext /\ tl = ex - st /\ tx = te /\ te <= en
  BY <1>1, <1>4 DEF TakenOK
<1>6. PICK w \in RingType :
        /\ w = Push(r, len) /\ w.start = st
        /\ en + len > BuffSize - MaxLine => w.end = 0 /\ w.ext_end = en + len
        /\ en + len <= BuffSize - MaxLine => w.end = en + len /\ w.ext_end = ex
  BY <1>1, PushFields
<1>7. TakenOK(w, t)
  BY <1>2, <1>3, <1>4, <1>5, <1>6 DEF TakenOK
<1>8. PICK f \in RingType, g \in RingType :
        /\ f = FirstWritten(r, t) /\ g = Release(r, t)
        /\ f.end = en /\ g.end = en /\ g.start = te
        /\ ext > 0 => f.start = 0 /\ f.ext_end = 0 /\ g.ext_end = 0
        /\ ext = 0 => f.start = te /\ f.ext_end = ex /\ g.ext_end = ex
  BY <1>1, <1>4, ReleaseFields
<1>9. PICK wf, wg : wf = FirstWritten(w, t) /\ wg = Release(w, t)
  OBVIOUS
<1>10. PICK pf, pg : pf = Push(f, len) /\ pg = Push(g, len)
  OBVIOUS
<1>17. /\ wf \in RingType /\ wg \in RingType
       /\ wf.end = w.end /\ wg.end = w.end /\ wg.start = te
       /\ ext > 0 => wf.start = 0 /\ wf.ext_end = 0 /\ wg.ext_end = 0
       /\ ext = 0 => wf.start = te /\ wf.ext_end = w.ext_end /\ wg.ext_end = w.ext_end
  BY <1>4, <1>9, ReleaseFields
<1>18. /\ pf \in RingType /\ pf.start = f.start
       /\ f.end + len > BuffSize - MaxLine => pf.end = 0 /\ pf.ext_end = f.end + len
       /\ f.end + len <= BuffSize - MaxLine => pf.end = f.end + len /\ pf.ext_end = f.ext_end
  BY <1>10, PushFields
<1>11. /\ pg \in RingType /\ pg.start = g.start
       /\ g.end + len > BuffSize - MaxLine => pg.end = 0 /\ pg.ext_end = g.end + len
       /\ g.end + len <= BuffSize - MaxLine => pg.end = g.end + len /\ pg.ext_end = g.ext_end
  BY <1>10, PushFields
<1>12. wf.start = pf.start /\ wf.end = pf.end /\ wf.ext_end = pf.ext_end
  BY <1>2, <1>3, <1>5, <1>6, <1>8, <1>17, <1>18
<1>13. wg.start = pg.start /\ wg.end = pg.end /\ wg.ext_end = pg.ext_end
  BY <1>2, <1>3, <1>5, <1>6, <1>8, <1>17, <1>11
<1>14. Fits(f, len)
  BY <1>2, <1>3, <1>5, <1>8 DEF Fits
<1>15. Fits(g, len)
  BY <1>2, <1>3, <1>5, <1>8 DEF Fits
<1>16. wf = pf /\ wg = pg
  BY <1>11, <1>12, <1>13, <1>17, <1>18, SameRing
<1> QED
  BY <1>6, <1>7, <1>8, <1>9, <1>10, <1>14, <1>15, <1>16

\* Giving back what was taken keeps the shape of the ring.
LEMMA ReleaseShape ==
  ASSUME NEW r \in RingType, RingOK(r), NEW t \in TakenType, TakenOK(r, t)
  PROVE  RingOK(Release(r, t))
<1>1. PICK st \in Nat, en \in Nat, ex \in Nat : r.start = st /\ r.end = en /\ r.ext_end = ex
  BY DEF RingType
<1>2. BuffSize \in Nat /\ MaxLine \in Nat /\ MaxLine > 0 /\ BuffSize >= 2 * MaxLine
  BY RingAssumption
<1>3. PICK te \in Nat, ext \in Nat : t.end = te /\ t.ext = ext
  BY DEF TakenType
<1>4. PICK g \in RingType :
        /\ g = Release(r, t) /\ g.end = en /\ g.start = te
        /\ ext > 0 => g.ext_end = 0
        /\ ext = 0 => g.ext_end = ex
  BY <1>1, <1>3, ReleaseFields
<1>5. RingOK(g)
  BY <1>1, <1>2, <1>3, <1>4 DEF RingOK, TakenOK
<1> QED
  BY <1>4, <1>5

\* What is unread stays inside the buffer while the worker writes.
LEMMA ViewShape ==
  ASSUME NEW r \in RingType, RingOK(r)
  PROVE  /\ Readable(r)
         /\ \A t \in TakenType : TakenOK(r, t) =>
               Readable(FirstWritten(r, t)) /\ Readable(Release(r, t))
<1>1. PICK st \in Nat, en \in Nat, ex \in Nat : r.start = st /\ r.end = en /\ r.ext_end = ex
  BY DEF RingType
<1>2. BuffSize \in Nat /\ MaxLine \in Nat /\ MaxLine > 0 /\ BuffSize >= 2 * MaxLine
  BY RingAssumption
<1>3. /\ st <= BuffSize - MaxLine /\ en <= BuffSize - MaxLine /\ ex <= BuffSize
      /\ ex = 0 => st <= en
      /\ ex > 0 => ex > BuffSize - MaxLine
  BY <1>1 DEF RingOK
<1>4. Readable(r)
  BY <1>1, <1>2, <1>3 DEF Readable
<1>5. ASSUME NEW t \in TakenType, TakenOK(r, t)
      PROVE  Readable(FirstWritten(r, t)) /\ Readable(Release(r, t))
  <2>1. PICK te \in Nat, ext \in Nat : t.end = te /\ t.ext = ext
    BY DEF TakenType
  <2>2. \/ ext = 0 /\ st <= te /\ te <= BuffSize - MaxLine /\ (ex = 0 => te <= en)
        \/ ext > 0 /\ ex = ext /\ te <= en
    BY <1>1, <1>5, <2>1 DEF TakenOK
  <2>3. PICK f, g : f = FirstWritten(r, t) /\ g = Release(r, t)
    OBVIOUS
  <2>4. /\ f.end = en /\ g.end = en /\ g.start = te
        /\ ext > 0 => f.start = 0 /\ f.ext_end = 0 /\ g.ext_end = 0
        /\ ext = 0 => f.start = te /\ f.ext_end = ex /\ g.ext_end = ex
    BY <1>1, <2>1, <2>3, ReleaseFields
  <2>5. Readable(f)
    BY <1>2, <1>3, <2>2, <2>4 DEF Readable
  <2>6. Readable(g)
    BY <1>2, <1>3, <2>2, <2>4 DEF Readable
  <2> QED
    BY <2>3, <2>5, <2>6
<1> QED
  BY <1>4, <1>5

\* What the worker writes first, and then from offset 0, are the first of the
\* bytes unread; giving back what it took then loses none.
LEMMA WriteUnread ==
  ASSUME NEW c \in [Offset -> Nat], NEW r \in RingType, RingOK(r), NEW t \in TakenType, TakenOK(r, t)
  PROVE  /\ UnreadIn(c, r) = Cat(BytesIn(c, r.start, t.len), UnreadIn(c, FirstWritten(r, t)))
         /\ UnreadIn(c, FirstWritten(r, t)) = Cat(BytesIn(c, 0, t.extlen), UnreadIn(c, Release(r, t)))
         /\ BytesIn(c, r.start, t.len) \in Seq(Nat) /\ BytesIn(c, 0, t.extlen) \in Seq(Nat)
<1>1. PICK st \in Nat, en \in Nat, ex \in Nat : r.start = st /\ r.end = en /\ r.ext_end = ex
  BY DEF RingType
<1>2. BuffSize \in Nat /\ MaxLine \in Nat /\ MaxLine > 0 /\ BuffSize >= 2 * MaxLine
  BY RingAssumption
<1>3. /\ st <= BuffSize - MaxLine /\ en <= BuffSize - MaxLine /\ ex <= BuffSize
      /\ ex = 0 => st <= en
      /\ ex > 0 => ex > BuffSize - MaxLine
  BY <1>1 DEF RingOK
<1>4. PICK tl \in Int, tx \in Int, te \in Nat, ext \in Nat :
        t.len = tl /\ t.extlen = tx /\ t.end = te /\ t.ext = ext
  BY DEF TakenType
<1>5. PICK f, g : f = FirstWritten(r, t) /\ g = Release(r, t)
  OBVIOUS
<1>6. /\ f \in RingType /\ g \in RingType
      /\ f.end = en /\ g.end = en /\ g.start = te
      /\ ext > 0 => f.start = 0 /\ f.ext_end = 0 /\ g.ext_end = 0
      /\ ext = 0 => f.start = te /\ f.ext_end = ex /\ g.ext_end = ex
  BY <1>1, <1>4, <1>5, ReleaseFields
<1>7. UnreadIn(c, r) = IF ex > 0 THEN Cat(BytesIn(c, st, ex - st), BytesIn(c, 0, en))
                       ELSE BytesIn(c, st, en - st)
  BY <1>1 DEF UnreadIn
<1>8. PICK z \in Nat : z = 0
  OBVIOUS
<1>9. CASE ext > 0
  <2>1. ex = ext /\ tl = ex - st /\ tx = te /\ te <= en
    BY <1>1, <1>4, <1>9 DEF TakenOK
  <2>2. UnreadIn(c, f) = BytesIn(c, z, en)
    <3>1. en - 0 = en /\ ~(0 > 0)
      OBVIOUS
    <3> QED
      BY <1>6, <1>8, <1>9, <3>1 DEF UnreadIn
  <2>3. UnreadIn(c, g) = BytesIn(c, te, en - te)
    BY <1>6, <1>9 DEF UnreadIn
  <2>4. BytesIn(c, z, en) = Cat(BytesIn(c, z, tx), BytesIn(c, te, en - te))
    <3>1. PICK k \in Nat : k = en - te
      BY <2>1
    <3>2. Adds(te, k, en) /\ Adds(z, te, te) /\ z + en <= BuffSize
      BY <1>2, <1>3, <1>8, <3>1 DEF Adds
    <3>3. BytesIn(c, z, en) = Cat(BytesIn(c, z, te), BytesIn(c, te, k))
      BY <3>2, BytesSplit
    <3> QED
      BY <2>1, <3>1, <3>3
  <2>5. BytesIn(c, st, tl) \in Seq(Nat)
    <3>1. tl \in Nat /\ st + tl <= BuffSize
      BY <1>2, <1>3, <1>9, <2>1
    <3> QED
      BY <3>1, BytesType
  <2>6. BytesIn(c, z, tx) \in Seq(Nat)
    <3>1. tx \in Nat /\ z + tx <= BuffSize
      BY <1>2, <1>3, <1>8, <2>1
    <3> QED
      BY <3>1, BytesType
  <2>7. UnreadIn(c, r) = Cat(BytesIn(c, st, tl), UnreadIn(c, f))
    BY <1>7, <1>8, <1>9, <2>1, <2>2
  <2>8. UnreadIn(c, f) = Cat(BytesIn(c, z, tx), UnreadIn(c, g))
    BY <2>2, <2>3, <2>4
  <2> QED
    BY <1>1, <1>4, <1>5, <1>8, <2>5, <2>6, <2>7, <2>8
<1>10. CASE ~(ext > 0)
  <2>1. ext = 0 /\ tx = 0 /\ tl = te - st /\ st <= te /\ te <= BuffSize - MaxLine /\ (ex = 0 => te <= en)
    BY <1>1, <1>4, <1>10 DEF TakenOK
  <2>2. f = g
    BY <1>6, <2>1, SameRing
  <2>3. UnreadIn(c, f) = IF ex > 0 THEN Cat(BytesIn(c, te, ex - te), BytesIn(c, 0, en))
                         ELSE BytesIn(c, te, en - te)
    BY <1>6, <2>1 DEF UnreadIn
  <2>4. PICK m \in Nat : m = tl /\ m = te - st
    BY <2>1
  <2>5. BytesIn(c, st, m) \in Seq(Nat)
    <3>1. st + m <= BuffSize
      BY <1>2, <2>1, <2>4
    <3> QED
      BY <3>1, BytesType
  <2>6. BytesIn(c, 0, tx) = <<>> /\ <<>> \in Seq(Nat)
    <3>1. z + z <= BuffSize
      BY <1>2, <1>8
    <3>2. BytesIn(c, z, z) = <<>> /\ BytesIn(c, z, z) \in Seq(Nat)
      BY <1>8, <3>1, BytesType
    <3> QED
      BY <1>8, <2>1, <3>2
  <2>7. UnreadIn(c, r) = Cat(BytesIn(c, st, m), UnreadIn(c, f))
    <3>1. CASE ex > 0
      <4>1. PICK k \in Nat, n \in Nat : k = ex - te /\ n = ex - st
        BY <1>2, <1>3, <2>1, <3>1
      <4>2. Adds(m, k, n) /\ Adds(st, m, te) /\ st + n <= BuffSize
        BY <1>3, <2>4, <4>1 DEF Adds
      <4>3. BytesIn(c, st, n) = Cat(BytesIn(c, st, m), BytesIn(c, te, k))
        BY <4>2, BytesSplit
      <4>4. te + k <= BuffSize /\ z + en <= BuffSize
        BY <1>2, <1>3, <1>8, <4>1
      <4>5. BytesIn(c, te, k) \in Seq(Nat)
        BY <4>4, BytesType
      <4>6. BytesIn(c, z, en) \in Seq(Nat)
        BY <4>4, BytesType
      <4>7. Cat(Cat(BytesIn(c, st, m), BytesIn(c, te, k)), BytesIn(c, z, en))
              = Cat(BytesIn(c, st, m), Cat(BytesIn(c, te, k), BytesIn(c, z, en)))
        BY <2>5, <4>5, <4>6, ThreeParts
      <4> QED
        BY <1>7, <1>8, <2>3, <3>1, <4>1, <4>3, <4>7
    <3>2. CASE ~(ex > 0)
      <4>1. PICK k \in Nat, n \in Nat : k = en - te /\ n = en - st
        BY <1>3, <2>1, <3>2
      <4>2. Adds(m, k, n) /\ Adds(st, m, te) /\ st + n <= BuffSize
        BY <1>2, <1>3, <2>4, <4>1 DEF Adds
      <4>3. BytesIn(c, st, n) = Cat(BytesIn(c, st, m), BytesIn(c, te, k))
        BY <4>2, BytesSplit
      <4> QED
        BY <1>7, <2>3, <3>2, <4>1, <4>3
    <3> QED
      BY <3>1, <3>2
  <2>8. Readable(f)
    BY <1>5, ViewShape
  <2>9. UnreadIn(c, f) \in Seq(Nat)
    BY <1>6, <2>8, UnreadType
  <2>10. UnreadIn(c, f) = Cat(BytesIn(c, 0, tx), UnreadIn(c, g))
    BY <2>2, <2>6, <2>9, ThreeParts
  <2> QED
    BY <1>1, <1>4, <1>5, <2>4, <2>5, <2>6, <2>7, <2>10
<1> QED
  BY <1>9, <1>10

-------------------------------------------------------------------------------
(***************************************************************************)
(* Lines are written once and in order, when all of them are shorter than  *)
(* max_line_size.  One that is as long can fill a ring that has wrapped up *)
(* to its start; the worker then takes the ring for one without bytes.     *)
(***************************************************************************)
\* no line is as long as max_line_size
ShortLines == \A l \in LineLens : l < MaxLine

\* the worker goes from a place where it does not write to another
Elsewhere ==
  /\ wk.pc \notin {"write_ext", "release"} /\ wk'.pc \notin {"write_ext", "release"}
  /\ wk'.pc = "write" => TakenOK(ring[wk'.log], wk'.taken)

\* Nothing moves in the rings, and the worker does not write.
LEMMA SameLines ==
  ASSUME LinesInv, UNCHANGED <<data, out>>, SignalOrNot \/ Elsewhere
  PROVE  LinesInv'
<1>1. UNCHANGED <<ring, cells, accepted, out>>
  BY DEF data
<1>2. \A s \in Stream : View(s)' = View(s)
  BY <1>1 DEF View, SignalOrNot, Elsewhere
<1>3. \A s \in Stream : Cat(out'[s], UnreadIn(cells'[s], View(s)')) = accepted'[s]
  BY <1>1, <1>2 DEF LinesInv
<1>4. wk'.pc \in {"write", "write_ext", "release"} => TakenOK(ring'[wk'.log], wk'.taken)
  BY <1>1 DEF LinesInv, SignalOrNot, Elsewhere
<1> QED
  BY <1>1, <1>3, <1>4 DEF LinesInv

\* What is unread of a stream is inside its buffer, and ends where the ring does.
LEMMA ViewFacts ==
  ASSUME ControlInv, LinesInv, NEW s \in Stream
  PROVE  /\ View(s) \in RingType /\ View(s).end = ring[s].end
         /\ UnreadIn(cells[s], View(s)) \in Seq(Nat)
<1>1. /\ ring[s] \in RingType /\ RingOK(ring[s]) /\ cells[s] \in [Offset -> Nat]
      /\ wk.taken \in TakenType
  BY DEF ControlInv, TypeInv, WkType, LinesInv
<1>2. wk.log = s /\ wk.pc \in {"write_ext", "release"} => TakenOK(ring[s], wk.taken)
  BY DEF LinesInv
<1>3. View(s) \in RingType /\ View(s).end = ring[s].end
  BY <1>1, ReleaseFields DEF View
<1>4. Readable(View(s))
  BY <1>1, <1>2, ViewShape DEF View
<1> QED
  BY <1>1, <1>3, <1>4, UnreadType

\* A stream with an empty ring that is not being written has all its lines out.
LEMMA EmptyWritten ==
  ASSUME ControlInv, LinesInv, NEW s \in Stream, ~HasData(ring[s]),
         wk.pc \notin {"write_ext", "release"}
  PROVE  out[s] = accepted[s]
<1>1. View(s) = ring[s]
  BY DEF View
<1>2. PICK st \in Nat, en \in Nat, ex \in Nat :
        ring[s].start = st /\ ring[s].end = en /\ ring[s].ext_end = ex
  BY DEF ControlInv, TypeInv, RingType
<1>3. st = en /\ ex = 0 /\ en <= BuffSize
  BY <1>2, RingAssumption DEF HasData, LinesInv, RingOK
<1>4. PICK z \in Nat : z = 0
  OBVIOUS
<1>5. UnreadIn(cells[s], ring[s]) = BytesIn(cells[s], st, z)
  BY <1>2, <1>3, <1>4 DEF UnreadIn
<1>6. BytesIn(cells[s], st, z) = <<>>
  <2>1. st + z <= BuffSize /\ cells[s] \in [Offset -> Nat]
    BY <1>3, <1>4 DEF ControlInv, TypeInv
  <2> QED
    BY <1>4, <2>1, BytesType
<1>7. out[s] \in Seq(Nat) /\ Cat(out[s], <<>>) = accepted[s]
  BY <1>1, <1>5, <1>6 DEF LinesInv
<1> QED
  BY <1>7, ThreeParts

\* A visit takes the beginning of what is in a ring, or writes nothing.
LEMMA VisitLines ==
  ASSUME ControlInv, LinesInv, wk.pc \in {"pick", "signalled"}, NEW s \in Stream, Visit(s)
  PROVE  Elsewhere
<1>1. wk \in WkType /\ ring[s] \in RingType /\ RingOK(ring[s])
  BY DEF ControlInv, TypeInv, LinesInv
<1>2. CASE HasData(ring[s])
  <2>1. wk'.pc = "write" /\ wk'.log = s /\ wk'.taken = Taken(ring[s])
    BY <1>2 DEF Visit
  <2> QED
    BY <1>1, <2>1, TakeOK DEF Elsewhere
<1>3. CASE ~HasData(ring[s])
  <2>1. wk'.pc = "top"
    BY <1>1, <1>3 DEF Visit, CloseIdle, WkType
  <2> QED
    BY <2>1 DEF Elsewhere
<1> QED
  BY <1>2, <1>3

\* A line put in the ring follows what is unread of its stream.
LEMMA PutLines ==
  ASSUME ShortLines, ControlInv, LinesInv, NEW p \in Producer, PutLine(p)
  PROVE  LinesInv'
<1>1. PICK s \in Stream, len \in Nat : s = prod[p].s /\ len = prod[p].len
  BY ProdTypes DEF ControlInv
<1>2. len < MaxLine
  BY <1>1, RingAssumption DEF ShortLines, ControlInv, TypeInv, ProdType
<1>3. PICK line \in Nat : line = 1 + (IF accepted[s] = <<>> THEN 0 ELSE Last(accepted[s]))
  <2>1. accepted[s] \in Seq(Nat)
    BY DEF ControlInv, TypeInv
  <2> QED
    BY <2>1 DEF Last
<1>4. PICK r \in RingType : r = ring[s]
  BY DEF ControlInv, TypeInv
<1>5. PICK c \in [Offset -> Nat] : c = cells[s]
  BY DEF ControlInv, TypeInv
<1>6. PICK d : d = [o \in Offset |-> IF o \in r.end .. r.end + len - 1 THEN line ELSE c[o]]
  OBVIOUS
<1>7. /\ Room(r) >= MaxLine
      /\ ring' = [ring EXCEPT ![s] = Push(r, len)]
      /\ cells' = [cells EXCEPT ![s] = d]
      /\ accepted' = [accepted EXCEPT ![s] = Cat(accepted[s], LineOf(len, line))]
      /\ UNCHANGED out
  BY <1>1, <1>3, <1>4, <1>5, <1>6 DEF PutLine, Cat, LineOf, written
<1>8. /\ ring \in [Stream -> RingType] /\ cells \in [Stream -> [Offset -> Nat]]
      /\ accepted \in [Stream -> Seq(Nat)] /\ wk \in WkType
  BY DEF ControlInv, TypeInv
<1>9. /\ ring'[s] = Push(r, len) /\ cells'[s] = d
      /\ accepted'[s] = Cat(accepted[s], LineOf(len, line))
      /\ \A q \in Stream : q # s => ring'[q] = ring[q] /\ cells'[q] = cells[q] /\ accepted'[q] = accepted[q]
  BY <1>7, <1>8
<1>10. SignalOrNot
  <2>1. Signal \/ wk' = wk
    BY DEF PutLine, Tell
  <2> QED
    BY <2>1, SignalMoves DEF ControlInv
<1>11. RingOK(r) /\ RingOK(Push(r, len)) /\ Fits(r, len)
  <2>1. RingOK(r)
    BY <1>4 DEF LinesInv
  <2> QED
    BY <1>2, <1>7, <2>1, PushShape
<1>12. PICK t \in TakenType : t = wk.taken
  BY <1>8 DEF WkType
<1>13. wk.log = s /\ wk.pc \in {"write", "write_ext", "release"} =>
         /\ TakenOK(r, t) /\ TakenOK(Push(r, len), t)
         /\ FirstWritten(Push(r, len), t) = Push(FirstWritten(r, t), len)
         /\ Release(Push(r, len), t) = Push(Release(r, t), len)
         /\ Fits(FirstWritten(r, t), len) /\ Fits(Release(r, t), len)
  <2>1. wk.log = s /\ wk.pc \in {"write", "write_ext", "release"} => TakenOK(r, t)
    BY <1>4, <1>12 DEF LinesInv
  <2> QED
    BY <1>2, <1>7, <1>11, <2>1, PushTaken
<1>14. PICK v \in RingType : v = View(s) /\ v.end = r.end /\ UnreadIn(c, v) \in Seq(Nat)
  BY <1>4, <1>5, ViewFacts
<1>15. View(s)' = Push(v, len) /\ Fits(v, len)
  BY <1>4, <1>9, <1>10, <1>11, <1>12, <1>13, <1>14 DEF View, SignalOrNot
<1>16. \A q \in Stream : q # s => View(q)' = View(q)
  BY <1>9, <1>10 DEF View, SignalOrNot
<1>17. UnreadIn(d, Push(v, len)) = Cat(UnreadIn(c, v), LineOf(len, line))
  <2>1. IsPut(d, c, v.end, len, line)
    <3>1. d \in [Offset -> Nat] /\ \A o \in Offset : d[o] = IF o \in r.end .. r.end + len - 1 THEN line ELSE c[o]
      BY <1>6
    <3> QED
      BY <1>14, <3>1 DEF IsPut
  <2> QED
    BY <1>15, <2>1, PushUnread
<1>18. Cat(out'[s], UnreadIn(cells'[s], View(s)')) = accepted'[s]
  <2>1. out[s] \in Seq(Nat) /\ Cat(out[s], UnreadIn(c, v)) = accepted[s]
    BY <1>5, <1>14 DEF LinesInv
  <2>2. LineOf(len, line) \in Seq(Nat)
    BY DEF LineOf
  <2>3. Cat(out[s], Cat(UnreadIn(c, v), LineOf(len, line))) = Cat(Cat(out[s], UnreadIn(c, v)), LineOf(len, line))
    BY <1>14, <2>1, <2>2, ThreeParts, ZenonT(30)
  <2> QED
    BY <1>7, <1>9, <1>15, <1>17, <2>1, <2>3
<1>19. \A q \in Stream : Cat(out'[q], UnreadIn(cells'[q], View(q)')) = accepted'[q]
  <2> TAKE q \in Stream
  <2>1. CASE q # s
    BY <1>7, <1>9, <1>16, <2>1 DEF LinesInv
  <2> QED
    BY <1>18, <2>1
<1>20. \A q \in Stream : RingOK(ring'[q])
  BY <1>9, <1>11 DEF LinesInv
<1>21. wk'.pc \in {"write", "write_ext", "release"} => TakenOK(ring'[wk'.log], wk'.taken)
  <2> SUFFICES ASSUME wk'.pc \in {"write", "write_ext", "release"}
               PROVE  TakenOK(ring'[wk'.log], wk'.taken)
    OBVIOUS
  <2>1. wk'.log = wk.log /\ wk'.taken = t /\ wk.pc \in {"write", "write_ext", "release"} /\ wk.log \in Stream
    BY <1>10, <1>12 DEF SignalOrNot, ControlInv, WorkInv
  <2>2. CASE wk.log = s
    BY <1>9, <1>13, <2>1, <2>2
  <2>3. CASE wk.log # s
    BY <1>9, <1>12, <2>1, <2>3 DEF LinesInv
  <2> QED
    BY <2>2, <2>3
<1> QED
  BY <1>7, <1>19, <1>20, <1>21 DEF LinesInv

\* Bytes leave what is unread as the worker writes them, and what it took of
\* the ring is given back when all of it is written.
LEMMA WriteLines ==
  ASSUME ControlInv, LinesInv, Write \/ WriteExt \/ ReleaseTaken
  PROVE  LinesInv'
<1>1. PICK s \in Stream : s = wk.log
  BY DEF ControlInv, WorkInv, Write, WriteExt, ReleaseTaken
<1>2. PICK r \in RingType : r = ring[s]
  BY DEF ControlInv, TypeInv
<1>3. PICK t \in TakenType : t = wk.taken
  BY DEF ControlInv, TypeInv, WkType
<1>4. PICK c \in [Offset -> Nat] : c = cells[s]
  BY DEF ControlInv, TypeInv
<1>5. RingOK(r) /\ TakenOK(r, t)
  BY <1>1, <1>2, <1>3 DEF LinesInv, Write, WriteExt, ReleaseTaken
<1>6. PICK f \in RingType, g \in RingType : f = FirstWritten(r, t) /\ g = Release(r, t)
  BY ReleaseFields
<1>7. PICK a \in Seq(Nat), b \in Seq(Nat) :
        /\ a = BytesIn(c, r.start, t.len) /\ b = BytesIn(c, 0, t.extlen)
        /\ UnreadIn(c, r) = Cat(a, UnreadIn(c, f)) /\ UnreadIn(c, f) = Cat(b, UnreadIn(c, g))
  BY <1>5, <1>6, WriteUnread
<1>8. UnreadIn(c, f) \in Seq(Nat) /\ UnreadIn(c, g) \in Seq(Nat)
  BY <1>5, <1>6, ViewShape, UnreadType
<1>9. out \in [Stream -> Seq(Nat)] /\ ring \in [Stream -> RingType] /\ wk \in WkType
  BY DEF LinesInv, ControlInv, TypeInv
<1>10. PICK o \in Seq(Nat) : o = out[s]
  BY <1>9
<1>11. Cat(o, UnreadIn(c, View(s))) = accepted[s]
  BY <1>4, <1>10 DEF LinesInv
<1>12. CASE Write
  <2>1. /\ wk.pc = "write" /\ wk'.pc = "write_ext" /\ wk'.log = s /\ wk'.taken = t
        /\ UNCHANGED <<ring, cells, accepted>>
        /\ out' = [out EXCEPT ![s] = Cat(o, a)]
    BY <1>1, <1>2, <1>3, <1>4, <1>7, <1>9, <1>10, <1>12 DEF Write, Bytes, BytesIn, Cat, WkType, data
  <2>2. Cat(o, a) \in Seq(Nat) /\ Cat(Cat(o, a), UnreadIn(c, f)) = Cat(o, Cat(a, UnreadIn(c, f)))
    BY <1>8, ThreeParts
  <2>3. View(s) = r /\ View(s)' = f /\ \A q \in Stream : q # s => View(q)' = View(q)
    BY <1>1, <1>2, <1>6, <2>1 DEF View
  <2>4. Cat(out'[s], UnreadIn(cells'[s], View(s)')) = accepted'[s]
    BY <1>4, <1>7, <1>9, <1>11, <2>1, <2>2, <2>3
  <2>5. \A q \in Stream : Cat(out'[q], UnreadIn(cells'[q], View(q)')) = accepted'[q]
    BY <1>9, <2>1, <2>3, <2>4 DEF LinesInv
  <2>6. out' \in [Stream -> Seq(Nat)] /\ \A q \in Stream : RingOK(ring'[q])
    BY <1>9, <2>1, <2>2 DEF LinesInv
  <2> QED
    BY <1>2, <1>5, <2>1, <2>5, <2>6 DEF LinesInv
<1>13. CASE WriteExt
  <2>1. /\ wk.pc = "write_ext" /\ wk'.pc = "release" /\ wk'.log = s /\ wk'.taken = t
        /\ UNCHANGED <<ring, cells, accepted>>
        /\ out' = [out EXCEPT ![s] = Cat(o, b)]
    BY <1>1, <1>2, <1>3, <1>4, <1>7, <1>9, <1>10, <1>13 DEF WriteExt, Bytes, BytesIn, Cat, WkType, data
  <2>2. Cat(o, b) \in Seq(Nat) /\ Cat(Cat(o, b), UnreadIn(c, g)) = Cat(o, Cat(b, UnreadIn(c, g)))
    BY <1>8, ThreeParts
  <2>3. View(s) = f /\ View(s)' = g /\ \A q \in Stream : q # s => View(q)' = View(q)
    BY <1>1, <1>2, <1>3, <1>6, <2>1 DEF View
  <2>4. Cat(out'[s], UnreadIn(cells'[s], View(s)')) = accepted'[s]
    BY <1>4, <1>7, <1>9, <1>11, <2>1, <2>2, <2>3
  <2>5. \A q \in Stream : Cat(out'[q], UnreadIn(cells'[q], View(q)')) = accepted'[q]
    BY <1>9, <2>1, <2>3, <2>4 DEF LinesInv
  <2>6. out' \in [Stream -> Seq(Nat)] /\ \A q \in Stream : RingOK(ring'[q])
    BY <1>9, <2>1, <2>2 DEF LinesInv
  <2> QED
    BY <1>2, <1>5, <2>1, <2>5, <2>6 DEF LinesInv
<1>14. CASE ReleaseTaken
  <2>1. /\ wk.pc = "release" /\ wk'.pc = "wake" /\ UNCHANGED <<cells, accepted, out>>
        /\ ring' = [ring EXCEPT ![s] = g]
    BY <1>1, <1>2, <1>3, <1>6, <1>9, <1>14 DEF ReleaseTaken, WkType, written
  <2>2. View(s) = g /\ View(s)' = g /\ \A q \in Stream : q # s => View(q)' = View(q)
    BY <1>1, <1>2, <1>3, <1>6, <1>9, <2>1 DEF View
  <2>3. \A q \in Stream : Cat(out'[q], UnreadIn(cells'[q], View(q)')) = accepted'[q]
    BY <2>1, <2>2 DEF LinesInv
  <2>4. \A q \in Stream : RingOK(ring'[q])
    BY <1>5, <1>6, <1>9, <2>1, ReleaseShape DEF LinesInv
  <2> QED
    BY <1>9, <2>1, <2>3, <2>4 DEF LinesInv
<1> QED
  BY <1>12, <1>13, <1>14

\* Every step keeps the lines.
LEMMA LinesStep ==
  ASSUME ShortLines, ControlInv, LinesInv, [Next]_vars
  PROVE  LinesInv'
<1> TypeInv
  BY DEF ControlInv
<1>1. wk' = wk => SignalOrNot
  BY DEF SignalOrNot
<1>2. ASSUME NEW p \in Producer, NEW s \in Stream, NEW len \in LineLens, Call(p, s, len) PROVE LinesInv'
  BY <1>1, <1>2, SameLines DEF Call, written
<1>3. ASSUME NEW p \in Producer, NeedDrop(p) \/ Full(p) \/ Wait(p) \/ Resume(p) \/ SpuriousWake(p)
      PROVE  LinesInv'
  <2>1. UNCHANGED <<data, out>> /\ (Signal \/ wk' = wk)
    BY <1>3 DEF NeedDrop, Full, Wait, Resume, SpuriousWake, written
  <2> QED
    BY <2>1, SignalMoves, SameLines
<1>4. ASSUME NEW p \in Producer, PutLine(p) PROVE LinesInv'
  BY <1>4, PutLines
<1>5. ASSUME NEW s \in Stream, Open(s) \/ Close(s) PROVE LinesInv'
  BY <1>1, <1>5, SameLines DEF Open, Close, written
<1>6. ASSUME Top \/ UseFreed \/ SpuriousAwake \/ WakeWaiters PROVE LinesInv'
  <2>1. UNCHANGED <<data, out>> /\ Elsewhere
    BY <1>6 DEF Top, UseFreed, SpuriousAwake, WakeWaiters, written, Elsewhere, TypeInv, WkType
  <2> QED
    BY <2>1, SameLines
<1>7. ASSUME Pick PROVE LinesInv'
  <2> DEFINE s == IF wk.log = NULL THEN log ELSE next[wk.log]
  <2>1. PickFrom(s) /\ UNCHANGED <<data, out>> /\ wk.pc = "pick" /\ s \in Stream \cup {NULL}
    BY <1>7 DEF Pick, written, TypeInv, WkType
  <2> HIDE DEF s
  <2>2. CASE s # NULL /\ Visit(s)
    BY <2>1, <2>2, VisitLines, SameLines
  <2>3. CASE ~(s # NULL /\ Visit(s))
    <3>1. Elsewhere
      BY <2>1, <2>3 DEF PickFrom, Elsewhere, TypeInv, WkType
    <3> QED
      BY <2>1, <3>1, SameLines
  <2> QED
    BY <2>2, <2>3
<1>8. ASSUME Awake PROVE LinesInv'
  <2>1. UNCHANGED <<data, out>> /\ wk.pc = "signalled"
    BY <1>8 DEF Awake, written
  <2>2. CASE notify_log # NULL
    <3>1. notify_log \in Stream /\ Visit(notify_log)
      BY <1>8, <2>2 DEF Awake
    <3> QED
      BY <2>1, <3>1, VisitLines, SameLines
  <2>3. CASE notify_log = NULL
    <3>1. Elsewhere
      BY <1>8, <2>3 DEF Awake, Elsewhere, TypeInv, WkType
    <3> QED
      BY <2>1, <3>1, SameLines
  <2> QED
    BY <2>2, <2>3
<1>9. ASSUME Exit PROVE LinesInv'
  <2>1. UNCHANGED <<data, out>> /\ (Signal \/ wk' = wk)
    BY <1>9 DEF Exit, ExitStore, ExitSignal, ExitClose, written
  <2> QED
    BY <2>1, SignalMoves, SameLines
<1>10. ASSUME UNCHANGED vars PROVE LinesInv'
  BY <1>1, <1>10, SameLines DEF vars, written
<1> QED
  BY <1>2, <1>3, <1>4, <1>5, <1>6, <1>7, <1>8, <1>9, <1>10, WriteLines DEF Next, Printing, Worker

\* A visit that frees a stream frees one with nothing to write.
LEMMA VisitFlushed ==
  ASSUME ControlInv, LinesInv, FlushedWhenFreed, wk.pc \in {"pick", "signalled"},
         NEW s \in Stream, Visit(s), UNCHANGED <<out, accepted>>
  PROVE  FlushedWhenFreed'
<1>1. CASE UNCHANGED status
  BY <1>1 DEF FlushedWhenFreed
<1>2. CASE ~HasData(ring[s]) /\ is_exit[s]
  <2>1. status' = [status EXCEPT ![s] = "freed"] /\ status \in [Stream -> {"new", "open", "freed"}]
    BY <1>2 DEF Visit, CloseIdle, Unlink, ControlInv, TypeInv
  <2>2. out[s] = accepted[s]
    BY <1>2, EmptyWritten
  <2> QED
    BY <2>1, <2>2 DEF FlushedWhenFreed
<1> QED
  BY <1>1, <1>2 DEF Visit, lists

\* No stream is freed with lines unwritten, and a freed one gets no more.
LEMMA FlushedStep ==
  ASSUME ControlInv, LinesInv, FlushedWhenFreed, [Next]_vars
  PROVE  FlushedWhenFreed'
<1>1. /\ status \in [Stream -> {"new", "open", "freed"}] /\ WorkInv /\ PrintInv
      /\ accepted \in [Stream -> Seq(Nat)] /\ out \in [Stream -> Seq(Nat)]
  BY DEF ControlInv, TypeInv, LinesInv
<1>2. ASSUME UNCHANGED <<status, out, accepted>> PROVE FlushedWhenFreed'
  BY <1>2 DEF FlushedWhenFreed
<1>3. ASSUME NEW p \in Producer, NEW s \in Stream, NEW len \in LineLens, Call(p, s, len)
      PROVE  FlushedWhenFreed'
  BY <1>2, <1>3 DEF Call, lists, data, written
<1>4. ASSUME NEW p \in Producer, NeedDrop(p) \/ Full(p) \/ Wait(p) \/ Resume(p) \/ SpuriousWake(p)
      PROVE  FlushedWhenFreed'
  BY <1>2, <1>4 DEF NeedDrop, Full, Wait, Resume, SpuriousWake, lists, data, written
<1>5. ASSUME NEW p \in Producer, PutLine(p) PROVE FlushedWhenFreed'
  <2>1. PICK s \in Stream : s = prod[p].s
    BY ProdTypes DEF ControlInv
  <2>2. status[s] = "open"
    BY <1>1, <1>5, <2>1 DEF PutLine, PrintInv
  <2>3. UNCHANGED <<status, out>> /\ \A q \in Stream : q # s => accepted'[q] = accepted[q]
    BY <1>1, <1>5, <2>1 DEF PutLine, lists, written
  <2> QED
    BY <2>2, <2>3 DEF FlushedWhenFreed
<1>6. ASSUME NEW s \in Stream, Open(s) \/ Close(s) PROVE FlushedWhenFreed'
  <2>1. UNCHANGED <<out, accepted>> /\ \A q \in Stream : status'[q] = "freed" => status[q] = "freed"
    BY <1>1, <1>6 DEF Open, Close, data, written
  <2> QED
    BY <2>1 DEF FlushedWhenFreed
<1>7. ASSUME Top \/ UseFreed \/ SpuriousAwake \/ WakeWaiters \/ ReleaseTaken PROVE FlushedWhenFreed'
  BY <1>2, <1>7 DEF Top, UseFreed, SpuriousAwake, WakeWaiters, ReleaseTaken, lists, data, written
<1>8. ASSUME Write \/ WriteExt PROVE FlushedWhenFreed'
  <2>1. PICK s \in Stream : s = wk.log /\ status[s] = "open"
    BY <1>1, <1>8 DEF WorkInv, Write, WriteExt
  <2>2. UNCHANGED <<status, accepted>> /\ \A q \in Stream : q # s => out'[q] = out[q]
    BY <1>1, <1>8, <2>1 DEF Write, WriteExt, lists, data
  <2> QED
    BY <2>1, <2>2 DEF FlushedWhenFreed
<1>9. ASSUME Pick PROVE FlushedWhenFreed'
  <2> DEFINE s == IF wk.log = NULL THEN log ELSE next[wk.log]
  <2>1. PickFrom(s) /\ UNCHANGED <<out, accepted>> /\ wk.pc = "pick" /\ s \in Stream \cup {NULL}
    BY <1>9 DEF Pick, data, written, ControlInv, TypeInv, WkType
  <2> HIDE DEF s
  <2>2. CASE s # NULL /\ Visit(s)
    BY <2>1, <2>2, VisitFlushed
  <2>3. CASE ~(s # NULL /\ Visit(s))
    BY <1>2, <2>1, <2>3 DEF PickFrom, lists
  <2> QED
    BY <2>2, <2>3
<1>10. ASSUME Awake PROVE FlushedWhenFreed'
  <2>1. UNCHANGED <<out, accepted>> /\ wk.pc = "signalled"
    BY <1>10 DEF Awake, data, written
  <2>2. CASE notify_log # NULL
    <3>1. notify_log \in Stream /\ Visit(notify_log)
      BY <1>10, <2>2 DEF Awake
    <3> QED
      BY <2>1, <3>1, VisitFlushed
  <2>3. CASE notify_log = NULL
    BY <1>2, <1>10, <2>1, <2>3 DEF Awake, lists
  <2> QED
    BY <2>2, <2>3
<1>11. ASSUME ExitStore \/ ExitSignal PROVE FlushedWhenFreed'
  BY <1>2, <1>11 DEF ExitStore, ExitSignal, lists, data, written
<1>12. ASSUME ExitClose PROVE FlushedWhenFreed'
  <2>1. /\ wk.pc = "exited" /\ UNCHANGED <<out, accepted>>
        /\ \A s \in Stream : status'[s] = "freed" => status[s] = "freed" \/ status[s] = "open"
    BY <1>12 DEF ExitClose, data, written
  <2>2. \A s \in Stream : status[s] = "open" => ~HasData(ring[s])
    BY <1>1, <2>1 DEF WorkInv, AnyData
  <2>3. \A s \in Stream : status[s] = "open" => out[s] = accepted[s]
    BY <2>1, <2>2, EmptyWritten
  <2> QED
    BY <2>1, <2>3 DEF FlushedWhenFreed
<1>13. ASSUME UNCHANGED vars PROVE FlushedWhenFreed'
  BY <1>2, <1>13 DEF vars, lists, data, written
<1> QED
  BY <1>3, <1>4, <1>5, <1>6, <1>7, <1>8, <1>9, <1>10, <1>11, <1>12, <1>13
  DEF Next, Printing, Worker, Exit

-------------------------------------------------------------------------------
\* At first nothing is accepted, written or dropped, and nobody waits.
LEMMA InitIInv == Init => IInv
<1> SUFFICES ASSUME Init PROVE IInv
  OBVIOUS
<1>1. ControlInv
  BY InitControl
<1>2. WaitersInv
  <2>1. \A s \in Stream : Waits(s) = {}
    BY DEF Init, Waits, Quiet
  <2>2. waiters \in [Stream -> Nat] /\ \A s \in Stream : waiters[s] = 0
    BY DEF Init
  <2> QED
    BY <2>1, <2>2, FS_EmptySet DEF WaitersInv
<1>3. LinesInv
  <2>1. /\ out \in [Stream -> Seq(Nat)] /\ wk.pc = "top"
        /\ \A s \in Stream : out[s] = <<>> /\ accepted[s] = <<>> /\ ring[s] = EmptyRing
    BY DEF Init
  <2>2. RingOK(EmptyRing)
    BY RingAssumption DEF EmptyRing, RingOK
  <2>3. ASSUME NEW s \in Stream PROVE Cat(out[s], UnreadIn(cells[s], View(s))) = accepted[s]
    <3>1. View(s) = EmptyRing
      BY <2>1 DEF View
    <3>2. PICK z \in Nat : z = 0
      OBVIOUS
    <3>3. UnreadIn(cells[s], EmptyRing) = BytesIn(cells[s], z, z)
      BY <3>2 DEF UnreadIn, EmptyRing
    <3>4. BytesIn(cells[s], z, z) = <<>>
      <4>1. z + z <= BuffSize /\ cells[s] \in [Offset -> Nat]
        BY <1>1, <3>2, RingAssumption DEF ControlInv, TypeInv
      <4> QED
        BY <3>2, <4>1, BytesType
    <3>5. <<>> \in Seq(Nat)
      BY EmptySeq
    <3>6. Cat(<<>>, <<>>) = <<>>
      BY <3>5, ThreeParts
    <3> QED
      BY <2>1, <3>1, <3>3, <3>4, <3>6
  <2> QED
    BY <2>1, <2>2, <2>3 DEF LinesInv
<1>4. DropInv /\ RefusedInv
  BY DEF Init, DropInv, RefusedInv
<1>5. FlushedWhenFreed
  BY DEF Init, FlushedWhenFreed
<1> QED
  BY <1>1, <1>2, <1>3, <1>4, <1>5 DEF IInv

\* Every step keeps the inductive invariant.
LEMMA StepIInv ==
  ASSUME IsFiniteSet(Producer), ShortLines
  PROVE  IInv /\ [Next]_vars => IInv'
<1> SUFFICES ASSUME IInv, [Next]_vars PROVE IInv'
  OBVIOUS
<1>1. ControlInv' /\ WaitersInv' /\ LinesInv' /\ DropInv' /\ RefusedInv' /\ FlushedWhenFreed'
  BY ControlStep, WaitersStep, LinesStep, DropsStep, FlushedStep DEF IInv
<1> QED
  BY <1>1 DEF IInv

\* The inductive invariant gives what a run checks.
LEMMA LinesKept == IInv => LogInv
<1> SUFFICES ASSUME IInv PROVE LogInv
  OBVIOUS
<1> ControlInv /\ WaitersInv /\ LinesInv /\ RefusedInv
  BY DEF IInv
<1>1. LogTypeOK
  <2>1. ASSUME NEW r \in RingType, RingOK(r) PROVE r \in Ring
    BY <2>1, RingAssumption DEF RingType, RingOK, Ring
  <2>2. ring \in [Stream -> Ring]
    BY <2>1 DEF ControlInv, TypeInv, LinesInv
  <2>3. prod \in [Producer -> [pc : PrintPc, s : Stream, len : LineLens \cup {0}]]
    BY DEF ControlInv, TypeInv, ProdType
  <2>4. wk.pc \in WorkPc /\ wk.log \in Stream \cup {NULL}
    BY DEF ControlInv, TypeInv, WkType
  <2> QED
    BY <2>2, <2>3, <2>4 DEF ControlInv, TypeInv, WaitersInv, LogTypeOK
<1>2. NothingLost
  <2>1. ASSUME NEW s \in Stream, ~(wk.log = s /\ wk.pc \in {"write_ext", "release"})
        PROVE  out[s] \o Unread(s) = accepted[s]
    <3>1. View(s) = ring[s]
      BY <2>1 DEF View
    <3>2. Unread(s) = UnreadIn(cells[s], ring[s])
      BY DEF Unread, Bytes, UnreadIn, BytesIn, Cat
    <3>3. Cat(out[s], UnreadIn(cells[s], ring[s])) = accepted[s]
      BY <3>1 DEF LinesInv
    <3> QED
      BY <3>2, <3>3 DEF Cat
  <2> QED
    BY <2>1 DEF NothingLost
<1>3. OutInOrder
  <2>1. ASSUME NEW s \in Stream PROVE IsPrefix(out[s], accepted[s])
    <3>1. PICK a \in Seq(Nat), b \in Seq(Nat) : a = out[s] /\ b = UnreadIn(cells[s], View(s))
      BY ViewFacts DEF LinesInv
    <3>2. accepted[s] = a \o b
      BY <3>1 DEF LinesInv, Cat
    <3>3. Len(a \o b) = Len(a) + Len(b) /\ \A i \in 1 .. Len(a) : (a \o b)[i] = a[i]
      BY ConcatProperties
    <3>4. Len(a) <= Len(a \o b) /\ SubSeq(a, 1, Len(a)) = SubSeq(a \o b, 1, Len(a))
      BY <3>3
    <3> QED
      BY <3>1, <3>2, <3>4 DEF IsPrefix
  <2> QED
    BY <2>1 DEF OutInOrder
<1>4. OnlyLines
  BY DEF RefusedInv, OnlyLines
<1> QED
  BY <1>1, <1>2, <1>3, <1>4 DEF LogInv

\* For any finite number of threads, any streams and any buffer of two lines or
\* more: when every line is shorter than max_line_size, each line a stream has
\* accepted is written once and in order, or still in the ring, and nothing is
\* written between them by a stream that has turned no line away.
\* The worker reads the buffer without the lock; what it took stays the
\* beginning of the ring until it gives it back, whatever is pushed meanwhile.
THEOREM LogInvHolds ==
  ASSUME IsFiniteSet(Producer), ShortLines
  PROVE  Spec => []LogInv
<1>1. IInv /\ [Next]_vars => IInv'
  BY StepIInv
<1> QED
  BY <1>1, InitIInv, LinesKept, PTL DEF Spec

\* Under the same conditions, a stream is freed only with all its lines written.
THEOREM FlushedWhenFreedHolds ==
  ASSUME IsFiniteSet(Producer), ShortLines
  PROVE  Spec => []FlushedWhenFreed
<1>1. IInv /\ [Next]_vars => IInv'
  BY StepIInv
<1>2. IInv => FlushedWhenFreed
  BY DEF IInv
<1> QED
  BY <1>1, <1>2, InitIInv, PTL DEF Spec
================================================================================
