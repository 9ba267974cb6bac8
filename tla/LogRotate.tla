----------------------------- MODULE LogRotate ------------------------------
(***************************************************************************)
(* The files of one log stream of 3rd/log/tlog.c: _tlog_write appends a    *)
(* line to the log file, first archiving a file that has grown too large,  *)
(* either at once or through a gzip process, and removes the oldest        *)
(* archives.  Each change of the directory is a step that may fail, and    *)
(* between two of them the process may crash, with its gzip or without it; *)
(* the next one finds what was left, and the gzip that goes on beside it.  *)
(* One process writes (multi_log is 0: _tlog_log_lock does nothing).       *)
(***************************************************************************)
EXTENDS Integers, FiniteSets, Sequences, SequencesExt

CONSTANTS
    LogSize,      \* logsize, in lines
    LogCount,     \* logcount: archives kept
    Compresses,   \* whether TLOG_NOCOMPRESS is absent: the values to explore
    NoFile,       \* a name that does not exist
    MaxLines,     \* bound on the lines handed to _tlog_write
    MaxNow,       \* bound on the clock, in seconds
    MaxCrashes    \* bound on the crashes

\* one life of the process for each crash, and the one before
Life == 0 .. MaxCrashes
Nobody == -1

\* a file: its lines, its time, and the gzip that has not completed it, if any,
\* named by the life it was started in
FileType ==
    [lines : SUBSET (1 .. MaxLines), mtime : 1 .. MaxNow, writer : Life \cup {Nobody}]

\* with a logcount of 0 nothing is written; a name that does not exist is told
\* from a file
ASSUME RotateAssumption ==
    /\ LogCount \in Nat \ {0} /\ MaxLines \in Nat /\ MaxNow \in Nat \ {0}
    /\ MaxCrashes \in Nat
    /\ Compresses \subseteq BOOLEAN
    /\ NoFile \notin FileType

VARIABLES
    dir,         \* dir.log, dir.pending, dir.gz: the files of those names
    archives,    \* the archived files, in the order they were made
    at,          \* where the worker is in _tlog_write or _tlog_wait_pid
    back,        \* where it goes after removing old archives
    left,        \* how many archives _tlog_remove_oldlog has yet to remove
    fd,          \* "none", "log", or "gone": open on a file that was deleted
    filesize,    \* log->filesize
    zip_pid,     \* whether log->zip_pid > 0
    compress,    \* opened without TLOG_NOCOMPRESS, the same after each restart
    nocompress,  \* log->nocompress
    last_try,    \* log->last_try, 0 for never
    gzip,        \* the gzip of each life: "none", "new", "writing", "whole", "exited"
    stamp,       \* the time of the file it reads, 0 for none
    now,         \* time(), in seconds
    asked,       \* history: lines handed to _tlog_write
    lines,       \* history: lines that are in a file, or were
    deleted,     \* history: lines removed with the oldest archive, or by a user
    crashes,     \* history: crashes so far
    outlived,    \* history: a gzip went on after a crash of its process
    owed         \* history: archives named since they were last counted, and
                 \* those that were then to be removed and are not

options == <<compress, nocompress>>
process == <<fd, filesize, zip_pid, options, last_try>>
files == <<dir, archives>>
history == <<lines, deleted, crashes, outlived, owed>>
trimming == <<back, left>>
zip == <<gzip, stamp>>
rotateVars == <<process, files, history, at, trimming, zip, now, asked>>

File(ls, t, w) == [lines |-> ls, mtime |-> t, writer |-> w]
Exists(name) == dir[name] # NoFile
Size(f) == IF f = NoFile THEN 0 ELSE Cardinality(f.lines)

\* tlog_open sets up a stream; the log file is opened by the first write
Started ==
    /\ fd' = "none" /\ filesize' = 0 /\ zip_pid' = FALSE /\ last_try' = 0
    /\ nocompress' = ~compress

RotateInit ==
    /\ dir = [log |-> NoFile, pending |-> NoFile, gz |-> NoFile]
    /\ archives = <<>>
    /\ at = "idle" /\ back = "idle" /\ left = 0
    /\ fd = "none" /\ filesize = 0 /\ zip_pid = FALSE /\ last_try = 0
    /\ compress \in Compresses /\ nocompress = ~compress
    /\ gzip = [l \in Life |-> "none"] /\ stamp = [l \in Life |-> 0]
    /\ now = 1 /\ asked = 0
    /\ lines = {} /\ deleted = {} /\ crashes = 0 /\ outlived = FALSE /\ owed = 0

Move(from, to) == dir' = [dir EXCEPT ![from] = NoFile, ![to] = dir[from]]

\* _tlog_rename_logfile: under a name made of the file's time and a number
\* that no other file has
Archive(name) ==
    /\ Exists(name)
    /\ dir' = [dir EXCEPT ![name] = NoFile]
    /\ archives' = Append(archives, dir[name])
    /\ owed' = owed + 1

\* it fails: there is no file, or its time or name cannot be got
ArchiveFails == UNCHANGED <<files, owed>>

(***************************************************************************)
(* _tlog_write.                                                            *)
(***************************************************************************)
\* a plausible bug: archiving does not wait for the gzip of the last file
BeginWriteAnyway ==
    /\ at = "idle" /\ asked < MaxLines
    /\ asked' = asked + 1
    /\ IF filesize > LogSize
       THEN /\ fd' = "none" /\ filesize' = 0
            /\ at' = IF nocompress THEN "set_aside" ELSE "old_gz"
       ELSE /\ at' = "open"
            /\ UNCHANGED <<fd, filesize>>
    /\ UNCHANGED <<files, history, trimming, zip_pid, options, last_try, zip, now>>

\* a line arrives; a file that is too large is closed and archived first
BeginWrite ==
    /\ at = "idle" /\ asked < MaxLines
    /\ asked' = asked + 1
    /\ IF filesize > LogSize /\ ~zip_pid
       THEN /\ fd' = "none" /\ filesize' = 0
            /\ at' = IF nocompress THEN "set_aside" ELSE "old_gz"
       ELSE /\ at' = "open"
            /\ UNCHANGED <<fd, filesize>>
    /\ UNCHANGED <<files, history, trimming, zip_pid, options, last_try, zip, now>>

\* _tlog_archive_log_compressed: a pending.gz that exists gets its name, or
\* nothing is archived
ArchiveOldGz ==
    /\ at = "old_gz"
    /\ \/ Archive("gz") /\ at' = "set_aside"
       \/ ~Exists("gz") /\ at' = "set_aside" /\ UNCHANGED <<files, owed>>
       \/ Exists("gz") /\ at' = "open" /\ ArchiveFails
    /\ UNCHANGED <<process, lines, deleted, crashes, outlived, trimming, zip, now, asked>>

\* with the pending file made, _tlog_archive_log_* go on
HavePending == at' = IF nocompress THEN "name_it" ELSE "fork"

\* a plausible bug: the log is renamed over a pending file that was left
SetAsideAlways ==
    /\ at = "set_aside"
    /\ \/ Exists("log") /\ Move("log", "pending") /\ HavePending
       \/ at' = "open" /\ UNCHANGED dir
    /\ UNCHANGED <<archives, process, history, trimming, zip, now, asked>>

\* the log becomes the pending file, unless there is one or it cannot be renamed
SetAside ==
    /\ at = "set_aside"
    /\ \/ Exists("pending") /\ HavePending /\ UNCHANGED dir
       \/ ~Exists("pending") /\ Exists("log") /\ Move("log", "pending") /\ HavePending
       \/ ~Exists("pending") /\ at' = "open" /\ UNCHANGED dir
    /\ UNCHANGED <<archives, process, history, trimming, zip, now, asked>>

\* _tlog_archive_log_nocompress: the pending file gets its name, or stays
ArchivePending ==
    /\ at = "name_it"
    /\ \/ Archive("pending") /\ at' = "count" /\ back' = "open"
       \/ ArchiveFails /\ at' = "open" /\ UNCHANGED back
    /\ UNCHANGED <<process, lines, deleted, crashes, outlived, left, zip, now, asked>>

\* vfork of gzip -1 pending
Fork ==
    /\ at = "fork"
    /\ zip_pid' = TRUE /\ gzip' = [gzip EXCEPT ![crashes] = "new"]
    /\ at' = "open"
    /\ UNCHANGED <<files, history, trimming, fd, filesize, options, last_try, stamp, now, asked>>

\* there is no gzip: the child, which shares the memory, sets nocompress, exits
ExecFails ==
    /\ at = "fork"
    /\ zip_pid' = TRUE /\ gzip' = [gzip EXCEPT ![crashes] = "exited"] /\ nocompress' = TRUE
    /\ at' = "open"
    /\ UNCHANGED <<compress, files, history, trimming, fd, filesize, last_try, stamp, now, asked>>

\* vfork fails, for good or for now
ForkFails ==
    /\ at = "fork"
    /\ \E never \in BOOLEAN : nocompress' = never
    /\ at' = "open"
    /\ UNCHANGED <<compress, files, history, trimming, fd, filesize, zip_pid, last_try, zip, now,
                    asked>>

(***************************************************************************)
(* _tlog_remove_oldlog counts the archives once, and removes so many of    *)
(* the oldest; its callers do not look at what it returns.                 *)
(***************************************************************************)
\* a plausible bug: one archive too many is kept
ExcessOffByOne == IF Len(archives) > LogCount + 1 THEN Len(archives) - LogCount - 1 ELSE 0

Excess == IF Len(archives) > LogCount THEN Len(archives) - LogCount ELSE 0

CountArchives ==
    /\ at = "count"
    /\ left' = Excess /\ owed' = Excess
    /\ at' = "trim"
    /\ UNCHANGED <<process, files, lines, deleted, crashes, outlived, back, zip, now, asked>>

\* the directory cannot be read: nothing is removed
CountFails ==
    /\ at = "count"
    /\ at' = back
    /\ UNCHANGED <<process, files, history, trimming, zip, now, asked>>

\* no archive is older than archive i
Oldest(i) == \A j \in DOMAIN archives : archives[i].mtime <= archives[j].mtime

\* _tlog_remove_oldestlog
RemoveOldest ==
    /\ at = "trim" /\ left > 0
    /\ \E i \in DOMAIN archives :
          /\ Oldest(i)
          /\ archives' = RemoveAt(archives, i)
          /\ deleted' = deleted \cup archives[i].lines
    /\ left' = left - 1 /\ owed' = owed - 1
    /\ UNCHANGED <<process, dir, lines, crashes, outlived, at, back, zip, now, asked>>

\* the directory or a file in it cannot be read, or the oldest not be removed
RemoveFails ==
    /\ at = "trim" /\ left > 0
    /\ left' = left - 1
    /\ UNCHANGED <<process, files, history, at, back, zip, now, asked>>

TrimDone ==
    /\ at = "trim" /\ left = 0
    /\ at' = back
    /\ UNCHANGED <<process, files, history, trimming, zip, now, asked>>

\* the file that is open is there
AlreadyOpen ==
    /\ at = "open" /\ fd = "log"
    /\ at' = "append"
    /\ UNCHANGED <<process, files, history, trimming, zip, now, asked>>

\* open, or create, the log file and look how long it is
OpenLog ==
    /\ at = "open" /\ fd # "log" /\ now # last_try
    /\ dir' = [dir EXCEPT !.log = IF @ = NoFile THEN File({}, now, Nobody) ELSE @]
    /\ fd' = "log" /\ filesize' = Size(dir.log) /\ last_try' = 0
    /\ at' = "append"
    /\ UNCHANGED <<archives, history, trimming, zip_pid, options, zip, now, asked>>

\* no directory, or no file: the line is dropped, and so are those of the same
\* second, for which it is not tried again
OpenFails ==
    /\ at = "open" /\ fd # "log"
    /\ fd' = "none"
    /\ last_try' = now
    /\ filesize' \in IF now = last_try THEN {filesize} ELSE {0, filesize}
    /\ at' = "idle"
    /\ UNCHANGED <<files, history, trimming, zip_pid, options, zip, now, asked>>

AppendLine ==
    /\ at = "append"
    /\ IF fd = "log" \* deleted after fstat: the line goes to a file without a name
       THEN dir' = [dir EXCEPT !.log = File(@.lines \cup {asked}, now, Nobody)] /\ UNCHANGED deleted
       ELSE deleted' = deleted \cup {asked} /\ UNCHANGED dir
    /\ lines' = lines \cup {asked}
    /\ filesize' = filesize + 1
    /\ at' = "idle"
    /\ UNCHANGED <<archives, crashes, outlived, owed, trimming, fd, zip_pid, options, last_try, zip,
                    now, asked>>

\* the line is dropped, and the file closed if there is no space
AppendFails ==
    /\ at = "append"
    /\ fd' \in {"none", fd}
    /\ at' = "idle"
    /\ UNCHANGED <<files, history, trimming, filesize, zip_pid, options, last_try, zip, now, asked>>

(***************************************************************************)
(* The gzip processes (external): that of a life writes pending.gz, unless *)
(* it exists, and then removes pending.  It reads and writes the files it  *)
(* opened, whatever they are called by now, but removes them by name.      *)
(***************************************************************************)
Running(l) == gzip[l] \in {"new", "writing", "whole"}

GzipOpen(l) ==
    /\ gzip[l] = "new" /\ ~Exists("gz") /\ Exists("pending")
    /\ dir' = [dir EXCEPT !.gz = File(dir.pending.lines, now, l)]
    /\ stamp' = [stamp EXCEPT ![l] = dir.pending.mtime]
    /\ gzip' = [gzip EXCEPT ![l] = "writing"]
    /\ UNCHANGED <<process, archives, history, at, trimming, now, asked>>

\* the file that l was writing, complete and with the time of the one it read
Completed(f, l) ==
    IF f # NoFile /\ f.writer = l THEN File(f.lines, stamp[l], Nobody) ELSE f

GzipWrite(l) ==
    /\ gzip[l] = "writing"
    /\ dir' = [name \in DOMAIN dir |-> Completed(dir[name], l)]
    /\ archives' = [i \in DOMAIN archives |-> Completed(archives[i], l)]
    /\ stamp' = [stamp EXCEPT ![l] = 0]
    /\ gzip' = [gzip EXCEPT ![l] = "whole"]
    /\ UNCHANGED <<process, history, at, trimming, now, asked>>

GzipUnlink(l) ==
    /\ gzip[l] = "whole"
    /\ dir' = [dir EXCEPT !.pending = NoFile]
    /\ gzip' = [gzip EXCEPT ![l] = "exited"]
    /\ UNCHANGED <<process, archives, history, at, trimming, stamp, now, asked>>

\* it fails to start, fails and removes what it has written, or is killed
GzipFails(l) ==
    /\ Running(l)
    /\ \/ UNCHANGED dir
       \/ gzip[l] = "writing" /\ dir' = [dir EXCEPT !.gz = NoFile]
    /\ stamp' = [stamp EXCEPT ![l] = 0]
    /\ gzip' = [gzip EXCEPT ![l] = "exited"]
    /\ UNCHANGED <<process, archives, history, at, trimming, now, asked>>

\* waitpid finds that the gzip of this process has exited
Reaped ==
    /\ at = "idle" /\ zip_pid /\ gzip[crashes] = "exited"
    /\ zip_pid' = FALSE /\ gzip' = [gzip EXCEPT ![crashes] = "none"]

\* a plausible bug: a gzip that has failed is never waited for
WaitPidForFile ==
    /\ Reaped
    /\ Archive("gz") /\ at' = "count" /\ back' = "idle"
    /\ UNCHANGED <<lines, deleted, crashes, outlived, left, fd, filesize, options, last_try, stamp,
                    now, asked>>

\* _tlog_wait_pids and _tlog_wait_pid: name the compressed file
WaitPid ==
    /\ Reaped
    /\ \/ Archive("gz") /\ at' = "count" /\ back' = "idle"
       \/ ArchiveFails /\ UNCHANGED <<at, back>>
    /\ UNCHANGED <<lines, deleted, crashes, outlived, left, fd, filesize, options, last_try, stamp,
                    now, asked>>

(***************************************************************************)
(* The surroundings: users, the clock, the end of the process.             *)
(***************************************************************************)
\* someone deletes the log file; a process that has it open writes on into it
DeleteLog ==
    /\ Exists("log")
    /\ deleted' = deleted \cup dir.log.lines
    /\ dir' = [dir EXCEPT !.log = NoFile]
    /\ fd' = IF fd = "log" THEN "gone" ELSE fd
    /\ UNCHANGED <<archives, filesize, zip_pid, options, last_try, lines, crashes, outlived, owed, at,
                    trimming, zip, now, asked>>

Tick ==
    /\ now < MaxNow
    /\ now' = now + 1
    /\ UNCHANGED <<process, files, history, at, trimming, zip, asked>>

\* the process goes down, and of the gzips those that a signal to the process
\* group or the machine takes along; the files stay as they are
Crash ==
    /\ at # "down" /\ crashes < MaxCrashes
    /\ crashes' = crashes + 1
    /\ \E survivors \in SUBSET {l \in Life : Running(l)} :
          /\ gzip' = [l \in Life |-> IF l \in survivors THEN gzip[l] ELSE "none"]
          /\ stamp' = [l \in Life |-> IF l \in survivors THEN stamp[l] ELSE 0]
          /\ outlived' = (outlived \/ survivors # {})
    /\ at' = "down" /\ back' = "idle" /\ left' = 0
    /\ UNCHANGED <<process, files, lines, deleted, owed, now, asked>>

\* tlog_exit: _tlog_close has waited for gzip
Stop ==
    /\ at = "idle" /\ ~zip_pid
    /\ at' = "down" /\ back' = "idle"
    /\ UNCHANGED <<process, files, history, left, zip, now, asked>>

Start ==
    /\ at = "down"
    /\ Started
    /\ at' = "idle"
    /\ UNCHANGED <<compress, files, history, trimming, zip, now, asked>>

Archiving == ArchiveOldGz \/ SetAside \/ ArchivePending \/ Fork \/ ExecFails \/ ForkFails
Trimming == CountArchives \/ CountFails \/ RemoveOldest \/ RemoveFails \/ TrimDone
Writing == AlreadyOpen \/ OpenLog \/ OpenFails \/ AppendLine \/ AppendFails
Gzip == \E l \in Life : GzipOpen(l) \/ GzipWrite(l) \/ GzipUnlink(l) \/ GzipFails(l)

RotateNext ==
    \/ BeginWrite \/ Archiving \/ Trimming \/ Writing \/ WaitPid
    \/ Gzip
    \/ DeleteLog \/ Tick \/ Crash \/ Stop \/ Start

\* the worker finishes its calls and polls for its gzip; a gzip ends
RotateFairness ==
    /\ WF_rotateVars(Archiving \/ Trimming \/ Writing) /\ WF_rotateVars(WaitPid)
    /\ WF_rotateVars(Gzip)

RotateSpec == RotateInit /\ [][RotateNext]_rotateVars /\ RotateFairness

(***************************************************************************)
(* Properties.                                                             *)
(***************************************************************************)
\* The state of the files and of the stream keeps its shape.
RotateTypeOK ==
    /\ dir \in [{"log", "pending", "gz"} -> FileType \cup {NoFile}]
    /\ \A i \in DOMAIN archives : archives[i] \in FileType
    /\ at \in {"idle", "old_gz", "set_aside", "name_it", "fork", "count", "trim", "open", "append",
               "down"}
    /\ back \in {"idle", "open"} /\ {left, owed} \subseteq Nat
    /\ fd \in {"none", "log", "gone"} /\ filesize \in 0 .. MaxLines
    /\ {zip_pid, compress, nocompress, outlived} \subseteq BOOLEAN /\ last_try \in 0 .. now
    /\ gzip \in [Life -> {"none", "new", "writing", "whole", "exited"}]
    /\ stamp \in [Life -> 0 .. MaxNow]
    /\ lines \cup deleted \subseteq 1 .. asked

Kept == {dir[name] : name \in DOMAIN dir} \cup {archives[i] : i \in DOMAIN archives}

\* A line that reached a file stays in a file that can be read, until it goes
\* with the oldest of too many archives or a user deletes it: no archiving
\* step, failed or not, renames over a file, and a crash between two of them
\* loses nothing (the leftover .pending and .pending.gz of _tlog_archive_log_*).
\* A gzip that goes on after its process, beside that of the next one, is
\* excepted: at its end it removes the .pending that is there then.
NoLineLost ==
    ~outlived => \A l \in lines \ deleted :
                    \E f \in Kept \ {NoFile} : f.writer = Nobody /\ l \in f.lines

\* Beyond logcount there are only the archives named since _tlog_remove_oldlog
\* last counted and those it then failed to remove: the next count that
\* succeeds covers what any crash, failed count or leftover left behind.
KeepsLogCount == Len(archives) <= LogCount + owed

\* The size the stream believes its open file to have is the size it has: it
\* decides when to archive (filesize is set at open and kept by hand after).
SizeTracked == fd = "log" /\ at # "down" => filesize = Size(dir.log)

\* The size and the number of the files stay what the stream takes them for,
\* across failed renames, counts, removals and writes, crashes and leftovers.
RotateInv == RotateTypeOK /\ KeepsLogCount /\ SizeTracked

\* While the gzip of a process runs no step of that process touches its files:
\* it does not name the half-written .pending.gz or move another log to
\* .pending (zip_pid is tested before a file is archived).  After a crash
\* nothing of the kind holds: the next process does not know of the gzip.
GzipUndisturbed ==
    [][(gzip[crashes] \in {"writing", "whole"} /\ zip' = zip)
          => dir'.pending = dir.pending /\ dir'.gz = dir.gz]_rotateVars

\* The exit of gzip, failed or not, is found, and files can be archived again.
ZipReaped == zip_pid ~> (~zip_pid \/ at = "down")
=============================================================================
