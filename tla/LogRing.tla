------------------------------ MODULE LogRing -------------------------------
(***************************************************************************)
(* The byte ring of one log stream of 3rd/log/tlog.c: where a line goes,   *)
(* what the worker takes out, what it gives back.  Lines are not split: a  *)
(* line that ends too near the end of the buffer moves the write position  *)
(* to offset 0 and leaves the end of the data in ext_end.                  *)
(***************************************************************************)
EXTENDS Integers

CONSTANTS
    BuffSize,    \* buffsize, in units of the length of a line
    MaxLine      \* max_line_size: no line is longer

\* tlog_init refuses a buffer of less than two lines
ASSUME RingAssumption ==
    /\ MaxLine \in Nat \ {0}
    /\ BuffSize \in Nat
    /\ BuffSize >= 2 * MaxLine

Offset == 0 .. BuffSize - 1

\* start, end and ext_end: unread data is start .. end-1 when ext_end is 0,
\* start .. ext_end-1 and then 0 .. end-1 when it is not
Ring == [start : 0 .. BuffSize, end : 0 .. BuffSize, ext_end : 0 .. BuffSize]

EmptyRing == [start |-> 0, end |-> 0, ext_end |-> 0]

\* _tlog_has_data
HasData(r) == r.end # r.start \/ r.ext_end > 0

\* the free bytes at end: maxlen in _tlog_need_drop and _tlog_vprintf.  Of a
\* full buffer the loop keeps the maxlen that made it wait, the first pass 0
Room(r) ==
    IF r.end = r.start THEN (IF r.ext_end = 0 THEN BuffSize - r.end ELSE 0)
    ELSE IF r.end > r.start THEN BuffSize - r.end
    ELSE r.start - r.end

\* a line of len bytes has been copied to end
Push(r, len) ==
    IF r.end + len > BuffSize - MaxLine
    THEN [r EXCEPT !.ext_end = r.end + len, !.end = 0]
    ELSE [r EXCEPT !.end = r.end + len]

\* what _tlog_work is about to write: log_len from start, then log_extlen
\* from 0, and the log_end and log_extend it will release
Taken(r) ==
    [len |-> IF r.end > r.start THEN r.end - r.start
             ELSE IF r.ext_end > 0 THEN r.ext_end - r.start ELSE 0,
     extlen |-> IF r.end < r.start THEN r.end ELSE 0,
     end |-> r.end,
     ext |-> r.ext_end]

\* a plausible bug: ext_end is cleared although the line that set it is newer
ReleaseAlways(r, taken) == [r EXCEPT !.start = taken.end, !.ext_end = 0]

\* the worker has written what it took
Release(r, taken) ==
    [r EXCEPT !.start = taken.end, !.ext_end = IF taken.ext > 0 THEN 0 ELSE @]
=============================================================================
