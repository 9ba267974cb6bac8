----------------------------- MODULE LogWorker ------------------------------
(***************************************************************************)
(* tinylog (3rd/log/tlog.c): threads print lines into the ring of a log    *)
(* stream, and one worker thread writes them out, round robin over the     *)
(* list of streams.  Everything under tlog.lock is one step; writing is    *)
(* done without it.  Streams do not compress (TLOG_NOCOMPRESS), so that    *)
(* zip_pid is never set and the worker waits without a timeout; LogRotate  *)
(* has the files.  A condition variable may wake up spuriously.            *)
(***************************************************************************)
EXTENDS LogRing, FiniteSets, Sequences, SequencesExt

CONSTANTS
    Producer,    \* threads that log
    Stream,      \* streams that may be opened
    Root,        \* tlog.root
    Blocking,    \* streams without TLOG_NONBLOCK
    LineLens,    \* lengths of the lines printed
    MaxPrints,   \* bound on the calls that print
    NULL

ASSUME StreamAssumption ==
    /\ Root \in Stream /\ NULL \notin Stream
    /\ Blocking \subseteq Stream
    /\ LineLens \subseteq 1 .. MaxLine

VARIABLES
    ring,        \* ring[s]: start, end and ext_end of stream s
    cells,       \* cells[s]: buff, each byte the number of its line
    dropped,     \* dropped[s]
    waiters,     \* waiters[s]
    is_exit,     \* is_exit[s]
    status,      \* status[s]: "new", "open" (in the list) or "freed"
    next,        \* next[s]: the list, newest stream first
    log,         \* tlog.log, its first element
    notify_log,  \* tlog.notify_log
    is_wait,     \* tlog.is_wait
    run,         \* tlog.run
    prod,        \* prod[p]: program counter, stream and length of p's line
    wk,          \* the worker: program counter, its stream, what it has taken
    main,        \* how far tlog_exit has come
    accepted,    \* history: accepted[s], the bytes of the lines s has taken
    out,         \* history: out[s], the bytes of lines written
    refused,     \* history: refused[s], lines turned away
    recorded,    \* history: recorded[s], dropped lines whose number was written
    stray,       \* history: stray[s], bytes of no line were written among out[s]
    printed      \* history: the calls made

lists == <<status, next, log, is_exit>>
data == <<ring, cells, accepted>>
drops == <<dropped, refused>>
told == <<recorded, stray>>
written == <<out, told>>
vars == <<lists, data, drops, written, waiters, notify_log, is_wait, run,
          prod, wk, main, printed>>

Quiet == [pc |-> "idle", s |-> Root, len |-> 0]
Nothing == Taken(EmptyRing)

\* tlog_init: the root stream is open and the worker is started
Init ==
    /\ ring = [s \in Stream |-> EmptyRing]
    /\ cells = [s \in Stream |-> [o \in Offset |-> 0]]
    /\ dropped = [s \in Stream |-> 0]
    /\ waiters = [s \in Stream |-> 0]
    /\ is_exit = [s \in Stream |-> FALSE]
    /\ status = [s \in Stream |-> IF s = Root THEN "open" ELSE "new"]
    /\ next = [s \in Stream |-> NULL]
    /\ log = Root
    /\ notify_log = NULL
    /\ is_wait = FALSE
    /\ run = TRUE
    /\ prod = [p \in Producer |-> Quiet]
    /\ wk = [pc |-> "top", log |-> NULL, taken |-> Nothing, dropped |-> 0]
    /\ main = "running"
    /\ accepted = [s \in Stream |-> <<>>]
    /\ out = [s \in Stream |-> <<>>]
    /\ refused = [s \in Stream |-> 0]
    /\ recorded = [s \in Stream |-> 0]
    /\ stray = [s \in Stream |-> FALSE]
    /\ printed = 0

AnyData == \E s \in Stream : status[s] = "open" /\ HasData(ring[s])

\* pthread_cond_signal(&tlog.cond): a worker that waits has yet to get the lock
Signal == wk' = IF wk.pc = "waiting" THEN [wk EXCEPT !.pc = "signalled"] ELSE wk

(***************************************************************************)
(* The threads that print.                                                 *)
(***************************************************************************)
Goto(p, pc) == prod' = [prod EXCEPT ![p].pc = pc]
Return(p) == prod' = [prod EXCEPT ![p] = Quiet]

\* the line is turned away: dropped++, and the call returns -1
Drop(p) ==
    /\ dropped' = [dropped EXCEPT ![prod[p].s] = @ + 1]
    /\ refused' = [refused EXCEPT ![prod[p].s] = @ + 1]
    /\ Return(p)

\* a caller prints on a stream that is open and not being closed; a line of the
\* root stream is cut two bytes before max_line_size, one of the others at it
Call(p, s, len) ==
    /\ prod[p].pc = "idle" /\ run
    /\ status[s] = "open" /\ ~is_exit[s]
    /\ len < MaxLine \/ s # Root
    /\ printed < MaxPrints
    /\ printed' = printed + 1
    /\ prod' = [prod EXCEPT ![p] =
                  [pc |-> IF s \in Blocking THEN "try" ELSE "ask", s |-> s, len |-> len]]
    /\ UNCHANGED <<lists, data, drops, written, waiters, notify_log, is_wait, run, wk, main>>

\* _tlog_need_drop
NeedDrop(p) ==
    /\ prod[p].pc = "ask"
    /\ IF Room(ring[prod[p].s]) < MaxLine
       THEN Drop(p)
       ELSE /\ Goto(p, "try")
            /\ UNCHANGED drops
    /\ UNCHANGED <<lists, data, written, waiters, notify_log, is_wait, run, wk, main, printed>>

\* a plausible bug: the worker is told only of buffers that are full
TellWhenFull(p) == UNCHANGED <<wk, notify_log>>

\* _tlog_vprintf, after the copy: the worker is told if it waits
Tell(p) ==
    IF is_wait
    THEN notify_log' = prod[p].s /\ Signal
    ELSE UNCHANGED <<wk, notify_log>>

\* _tlog_vprintf: the line fits
PutLine(p) ==
    LET s == prod[p].s
        r == ring[s]
        line == 1 + (IF accepted[s] = <<>> THEN 0 ELSE Last(accepted[s]))
    IN
    /\ prod[p].pc = "try"
    /\ Room(r) >= MaxLine
    /\ ring' = [ring EXCEPT ![s] = Push(r, prod[p].len)]
    /\ cells' = [cells EXCEPT ![s] =
                   [o \in Offset |-> IF o \in r.end .. r.end + prod[p].len - 1 THEN line ELSE @[o]]]
    /\ accepted' = [accepted EXCEPT ![s] = @ \o [i \in 1 .. prod[p].len |-> line]]
    /\ Tell(p)
    /\ Return(p)
    /\ UNCHANGED <<lists, drops, written, waiters, is_wait, run, main, printed>>

\* _tlog_vprintf: the line does not fit; drop it, or go and wait
Full(p) ==
    LET s == prod[p].s IN
    /\ prod[p].pc = "try"
    /\ Room(ring[s]) < MaxLine
    /\ IF ring[s].end # ring[s].start
       THEN notify_log' = s /\ Signal
       ELSE UNCHANGED <<wk, notify_log>>
    /\ IF s \in Blocking
       THEN /\ Goto(p, "towait")
            /\ UNCHANGED drops
       ELSE Drop(p)
    /\ UNCHANGED <<lists, data, written, waiters, is_wait, run, main, printed>>

\* waiters++ and pthread_cond_wait, under the stream's own lock
Wait(p) ==
    /\ prod[p].pc = "towait"
    /\ waiters' = [waiters EXCEPT ![prod[p].s] = @ + 1]
    /\ Goto(p, "waiting")
    /\ UNCHANGED <<lists, data, drops, written, notify_log, is_wait, run, wk, main, printed>>

\* waiters--, and try again
Resume(p) ==
    /\ prod[p].pc = "woken"
    /\ waiters' = [waiters EXCEPT ![prod[p].s] = @ - 1]
    /\ Goto(p, "try")
    /\ UNCHANGED <<lists, data, drops, written, notify_log, is_wait, run, wk, main, printed>>

SpuriousWake(p) ==
    /\ prod[p].pc = "waiting"
    /\ Goto(p, "woken")
    /\ UNCHANGED <<lists, data, drops, written, waiters, notify_log, is_wait, run, wk, main, printed>>

(***************************************************************************)
(* Opening and closing streams.                                            *)
(***************************************************************************)
\* tlog_open: the new stream becomes the head of the list
Open(s) ==
    /\ run /\ main = "running" /\ status[s] = "new"
    /\ status' = [status EXCEPT ![s] = "open"]
    /\ next' = [next EXCEPT ![s] = log]
    /\ log' = s
    /\ UNCHANGED <<is_exit, data, drops, written, waiters, notify_log, is_wait, run,
                   prod, wk, main, printed>>

\* tlog_close, when nobody is printing on the stream; the worker does the rest
Close(s) ==
    /\ main = "running" /\ s # Root /\ status[s] = "open" /\ ~is_exit[s]
    /\ \A p \in Producer : prod[p].pc = "idle" \/ prod[p].s # s
    /\ is_exit' = [is_exit EXCEPT ![s] = TRUE]
    /\ UNCHANGED <<status, next, log, data, drops, written, waiters, notify_log, is_wait, run,
                   prod, wk, main, printed>>

\* _tlog_close takes s out of the list and frees it
Unlink(s) ==
    /\ status' = [status EXCEPT ![s] = "freed"]
    /\ log' = IF log = s THEN next[s] ELSE log
    /\ next' = [q \in Stream |-> IF status[q] = "open" /\ next[q] = s THEN next[s] ELSE next[q]]
    /\ UNCHANGED is_exit

(***************************************************************************)
(* The worker, _tlog_work.                                                 *)
(***************************************************************************)
\* after 0 from _tlog_close the worker begins at the head again; for a stream
\* that was not the head it returns -1, and the worker keeps the freed pointer
CloseIdle(s) ==
    /\ Unlink(s)
    /\ wk' = [wk EXCEPT !.pc = "top", !.log = IF log = s THEN NULL ELSE s]

\* a plausible bug: a stream being closed is freed whether it has data or not
VisitCloseFirst(s) ==
    IF is_exit[s]
    THEN CloseIdle(s) /\ UNCHANGED dropped
    ELSE IF ~HasData(ring[s])
    THEN /\ wk' = [wk EXCEPT !.pc = "top", !.log = s]
         /\ UNCHANGED <<lists, dropped>>
    ELSE /\ wk' = [pc |-> "write", log |-> s, taken |-> Taken(ring[s]), dropped |-> dropped[s]]
         /\ dropped' = [dropped EXCEPT ![s] = 0]
         /\ UNCHANGED lists

\* with the lock: take what there is to write, or close a stream that is done
Visit(s) ==
    IF HasData(ring[s])
    THEN /\ wk' = [pc |-> "write", log |-> s, taken |-> Taken(ring[s]), dropped |-> dropped[s]]
         /\ dropped' = [dropped EXCEPT ![s] = 0]
         /\ UNCHANGED lists
    ELSE IF is_exit[s] THEN CloseIdle(s) /\ UNCHANGED dropped
    ELSE /\ wk' = [wk EXCEPT !.pc = "top", !.log = s]
         /\ UNCHANGED <<lists, dropped>>

\* the loop ends when tlog_exit has been called and nothing is left to write
Top ==
    /\ wk.pc = "top"
    /\ wk' = [wk EXCEPT !.pc = IF ~run /\ ~AnyData THEN "exited" ELSE "pick"]
    /\ UNCHANGED <<lists, data, drops, written, waiters, notify_log, is_wait, run, prod,
                   main, printed>>

\* the next stream, when there is one: visit it or, with nothing to write, wait
PickFrom(s) ==
    \/ /\ s = NULL
       /\ wk' = [wk EXCEPT !.pc = "top", !.log = NULL]
       /\ UNCHANGED <<lists, dropped, is_wait>>
    \/ /\ s # NULL /\ ~AnyData /\ run
       /\ is_wait' = TRUE
       /\ wk' = [wk EXCEPT !.pc = "waiting", !.log = s]
       /\ UNCHANGED <<lists, dropped>>
    \/ /\ s # NULL /\ (AnyData \/ ~run)
       /\ Visit(s)
       /\ UNCHANGED is_wait

Pick ==
    /\ wk.pc = "pick"
    /\ PickFrom(IF wk.log = NULL THEN log ELSE next[wk.log])
    /\ UNCHANGED <<data, refused, written, waiters, notify_log, run, prod, main, printed>>

\* _tlog_wait_log_locked has the lock again and goes to the stream it was told of
Awake ==
    /\ wk.pc = "signalled"
    /\ notify_log \in {NULL} \cup {s \in Stream : status[s] = "open"}
    /\ is_wait' = FALSE
    /\ notify_log' = NULL
    /\ IF notify_log = NULL
       THEN /\ wk' = [wk EXCEPT !.pc = "top", !.log = NULL]
            /\ UNCHANGED <<lists, dropped>>
       ELSE Visit(notify_log)
    /\ UNCHANGED <<data, refused, written, waiters, run, prod, main, printed>>

\* undefined behaviour: the stream the worker is to use has been freed.  Pick
\* covers the memory that still holds its last next; this is any other outcome
UseFreed ==
    /\ \/ wk.pc = "pick" /\ wk.log # NULL /\ status[wk.log] = "freed"
       \/ wk.pc = "signalled" /\ notify_log # NULL /\ status[notify_log] = "freed"
    /\ wk' = [wk EXCEPT !.pc = "undefined"]
    /\ UNCHANGED <<lists, data, drops, written, waiters, notify_log, is_wait, run, prod,
                   main, printed>>

SpuriousAwake ==
    /\ wk.pc = "waiting"
    /\ wk' = [wk EXCEPT !.pc = "signalled"]
    /\ UNCHANGED <<lists, data, drops, written, waiters, notify_log, is_wait, run, prod,
                   main, printed>>

\* the n bytes of the buffer of s from offset o
Bytes(s, o, n) == [i \in 1 .. n |-> cells[s][o + i - 1]]

\* _tlog_work_write without the lock: the bytes from start
Write ==
    /\ wk.pc = "write"
    /\ out' = [out EXCEPT ![wk.log] = @ \o Bytes(wk.log, ring[wk.log].start, wk.taken.len)]
    /\ wk' = [wk EXCEPT !.pc = "write_ext"]
    /\ UNCHANGED <<lists, data, drops, told, waiters, notify_log, is_wait, run, prod,
                   main, printed>>

\* the size snprintf is given for the number, msg - dropmsg: without segment
\* heads msg is dropmsg (what is left of the buffer would be its whole length)
DropMsgRoom == 0

\* "[Total Dropped n Messages]": with no room nothing is formatted, and what the
\* uninitialised dropmsg holds up to a zero byte is written (undefined behaviour)
WriteDropped(s, n) ==
    IF n > 0 /\ DropMsgRoom = 0
    THEN /\ \E bytes \in BOOLEAN : stray' = [stray EXCEPT ![s] = @ \/ bytes]
         /\ UNCHANGED recorded
    ELSE /\ recorded' = [recorded EXCEPT ![s] = @ + n]
         /\ UNCHANGED stray

\* the bytes from 0 to end of a ring that had wrapped, then about dropped lines
WriteExt ==
    /\ wk.pc = "write_ext"
    /\ out' = [out EXCEPT ![wk.log] = @ \o Bytes(wk.log, 0, wk.taken.extlen)]
    /\ WriteDropped(wk.log, wk.dropped)
    /\ wk' = [wk EXCEPT !.pc = "release", !.dropped = 0]
    /\ UNCHANGED <<lists, data, drops, waiters, notify_log, is_wait, run, prod, main, printed>>

ReleaseTaken ==
    /\ wk.pc = "release"
    /\ ring' = [ring EXCEPT ![wk.log] = Release(@, wk.taken)]
    /\ wk' = [wk EXCEPT !.pc = "wake", !.taken = Nothing]
    /\ UNCHANGED <<lists, cells, accepted, drops, written, waiters, notify_log, is_wait, run,
                   prod, main, printed>>

\* _tlog_wakeup_waiters: a broadcast, when there are waiters
WakeWaiters ==
    /\ wk.pc = "wake"
    /\ prod' = [p \in Producer |->
                  IF waiters[wk.log] > 0 /\ prod[p].pc = "waiting" /\ prod[p].s = wk.log
                  THEN [prod[p] EXCEPT !.pc = "woken"] ELSE prod[p]]
    /\ wk' = [wk EXCEPT !.pc = "top"]
    /\ UNCHANGED <<lists, data, drops, written, waiters, notify_log, is_wait, run, main, printed>>

(***************************************************************************)
(* tlog_exit, once nobody is printing.                                     *)
(***************************************************************************)
ExitStore ==
    /\ main = "running"
    /\ \A p \in Producer : prod[p].pc = "idle"
    /\ run' = FALSE
    /\ main' = "stored"
    /\ UNCHANGED <<lists, data, drops, written, waiters, notify_log, is_wait, prod, wk, printed>>

\* a plausible bug: a worker that waits is not told
ExitSignalNone ==
    /\ main = "stored"
    /\ main' = "joining"
    /\ UNCHANGED <<lists, data, drops, written, waiters, notify_log, is_wait, run, prod, wk, printed>>

ExitSignal ==
    /\ main = "stored"
    /\ Signal
    /\ main' = "joining"
    /\ UNCHANGED <<lists, data, drops, written, waiters, notify_log, is_wait, run, prod, printed>>

\* the worker is joined, and every stream is closed and freed
ExitClose ==
    /\ main = "joining" /\ wk.pc = "exited"
    /\ status' = [s \in Stream |-> IF status[s] = "open" THEN "freed" ELSE status[s]]
    /\ log' = NULL
    /\ is_wait' = FALSE
    /\ main' = "done"
    /\ UNCHANGED <<next, is_exit, data, drops, written, waiters, notify_log, run, prod, wk, printed>>

Printing(p) ==
    \/ NeedDrop(p) \/ PutLine(p) \/ Full(p) \/ Wait(p) \/ Resume(p)

Worker ==
    \/ Top \/ Pick \/ Awake \/ Write \/ WriteExt \/ ReleaseTaken \/ WakeWaiters

Exit == ExitStore \/ ExitSignal \/ ExitClose

Next ==
    \/ \E p \in Producer : \/ \E s \in Stream, len \in LineLens : Call(p, s, len)
                           \/ Printing(p) \/ SpuriousWake(p)
    \/ \E s \in Stream : Open(s) \/ Close(s)
    \/ Worker \/ UseFreed \/ SpuriousAwake \/ Exit

Spec == Init /\ [][Next]_vars

\* threads go on with what they have begun; nothing makes a condition variable
\* wake up by itself, and a caller need neither print nor exit
Fairness ==
    /\ \A p \in Producer : WF_vars(Printing(p))
    /\ WF_vars(Worker)
    /\ WF_vars(ExitSignal) /\ WF_vars(ExitClose)

FairSpec == Spec /\ Fairness

(***************************************************************************)
(* Properties.                                                             *)
(***************************************************************************)
PrintPc == {"idle", "ask", "try", "towait", "waiting", "woken"}
WorkPc == {"top", "pick", "waiting", "signalled", "write", "write_ext", "release", "wake",
           "exited", "undefined"}

\* The state of the log module keeps its shape.
LogTypeOK ==
    /\ ring \in [Stream -> Ring]
    /\ cells \in [Stream -> [Offset -> Nat]]
    /\ dropped \in [Stream -> Nat] /\ waiters \in [Stream -> Nat]
    /\ status \in [Stream -> {"new", "open", "freed"}]
    /\ is_exit \in [Stream -> BOOLEAN] /\ is_wait \in BOOLEAN /\ run \in BOOLEAN
    /\ next \in [Stream -> Stream \cup {NULL}]
    /\ {log, notify_log, wk.log} \subseteq Stream \cup {NULL}
    /\ prod \in [Producer -> [pc : PrintPc, s : Stream, len : LineLens \cup {0}]]
    /\ wk.pc \in WorkPc

\* What a stream still has to write, read off its ring.
Unread(s) ==
    LET r == ring[s] IN
    IF r.ext_end > 0
    THEN Bytes(s, r.start, r.ext_end - r.start) \o Bytes(s, 0, r.end)
    ELSE Bytes(s, r.start, r.end - r.start)

\* The bytes of lines written and those the ring still holds are the lines
\* the stream has accepted, in order: no line is overwritten before it is
\* written, lost at a wrap, or released unwritten (_tlog_vprintf against the
\* unlocked writing and the release of _tlog_work).
NothingLost ==
    \A s \in Stream :
        (status[s] = "open" /\ ~(wk.log = s /\ wk.pc \in {"write_ext", "release"}))
            => out[s] \o Unread(s) = accepted[s]

\* At every moment, the middle of a write included, the bytes of lines written
\* begin what the stream has accepted (the worker reads buff unlocked).
OutInOrder == \A s \in Stream : IsPrefix(out[s], accepted[s])

\* A stream is freed only after all its lines were written, by tlog_close
\* through the worker and by tlog_exit ("flush pending log message").
FlushedWhenFreed == \A s \in Stream : status[s] = "freed" => out[s] = accepted[s]

\* A stream that has turned no line away writes nothing but lines
\* (_tlog_work_write, which looks at the count taken before the writing).
OnlyLines == \A s \in Stream : stray[s] => refused[s] > 0

\* Each line a print hands over is written once and in order, or still in the
\* ring, and nothing is written between them where no line was dropped.
LogInv == LogTypeOK /\ NothingLost /\ OutInOrder /\ OnlyLines

\* "if there is dropped log, record dropped log number" (tlog.c:1577): a line
\* turned away is still counted, with the worker, or in the number written.
DroppedRecorded ==
    \A s \in Stream :
        refused[s] = dropped[s] + recorded[s] + (IF wk.log = s THEN wk.dropped ELSE 0)

\* The worker never sleeps on data: whoever adds the first line to empty rings
\* finds is_wait and signals (_tlog_vprintf against _tlog_wait_log_locked).
NeverSleepsOnData == wk.pc = "waiting" => ~AnyData

\* Lines accepted get written, however the streams are visited and closed.
LinesGetWritten ==
    \A s \in Stream : (out[s] # accepted[s]) ~> (out[s] = accepted[s] \/ wk.pc = "undefined")

\* tlog_exit returns: its signal is not lost to a worker about to wait.
ExitReturns == (main = "stored") ~> (main = "done" \/ wk.pc = "undefined")

\* "block wait for free buffer" (tlog.c:588): a blocked print goes on when the
\* worker has made room.
BlockedPrintResumes ==
    \A p \in Producer : (prod[p].pc = "waiting") ~> (prod[p].pc # "waiting")
=============================================================================
