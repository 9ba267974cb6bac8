# dels_db: a TLA+ verification project

dels_db is the beginning of a storage engine in C++, after the design of sled.
What is written and working today is its concurrent core: epoch-based
reclamation (`src/ebr/`), a lock-free skip list (`src/pagecache/skiplist.h`),
the map built of the two (`src/util/concurrent_map.h`) and an upgradable
reader-writer control (`src/concurrency_control.h`).  Around it stand the
logger the engine reports through (`src/3rd/log`, the only part that writes
files), and parts that are complete in themselves and have no callers yet: the
segments of the log file, the slabs of the heap, a thread pool and a concurrent
stack.  The rest (page cache, tree, snapshots) is declarations.  This directory
models all parts that have behaviour, checks them with TLC and proves with
TLAPS the safety of all but the slabs: epochs, callback list, reclamation of
the map, the order, content and reference counts of the skip list and what its
calls answer, upgradable control, the logger's rings, worker and files,
segments, thread pool, stack.

Run `tlc -config X.cfg M` and `tlapm XProofs.tla` in this directory;
`PROJECT.json` lists every run, the mutants, the source lines of each
definition, the findings, the hazards and the theorems.

## 1. The system

| Component | Source | State | Operations |
|---|---|---|---|
| epoch framework `Cepoch` | `ebr/epoch.h` | the counter `epoch_`, the cached bound `safe_reclaim_epoch_`, one slot per thread (`local_current_epoch`, `reentrant`, `used`) | register, unregister, `enter`, `leave`, `get_safe_reclaim_epoch`, `bump_epoch_for_reclaim` |
| callback list `CepochCallback` | `ebr/epoch_callback.h` | slots of an epoch word (free, locked or a reclaim epoch), a callback and a context; `drain_count_` | `register_callback`, `drain` |
| map `CconcurrentMap` | `util/concurrent_map.h` | its epoch framework and callback list, the nodes to reclaim per thread | `emplace`, `erase`, `find`, `finalize`, each in a `CautoEpochBlock` |
| skip list `CconcurrentSkipList` | `pagecache/skiplist.h`, atomics in `util/concurrent_map.h` | links with a deleting bit, reference count and height per node, `now_height_` | `insert`, `erase` by key and by node, `find`, the four seeks and `find_last`, iterator, `refresh_all_links` |
| `ConcurrencyControl` | `concurrency_control.h` | `active_` (a count and a bit), `upgrade_done_`, a shared mutex | `read`, `write`, the guard's destructor |
| logger, in memory | `3rd/log/tlog.c` | a ring of bytes, a count of dropped lines and of waiters per stream; the list of streams; `is_wait`, `notify_log`, `run` | print (blocking or not), `tlog_open`, `tlog_close`, `tlog_exit`, the worker `_tlog_work` |
| logger, on disk | `3rd/log/tlog.c` | the log file, `.pending`, `.pending.gz`, the archives; `filesize`, `zip_pid`, `last_try` | `_tlog_write`, archiving with and without gzip, `_tlog_remove_oldlog`, `_tlog_wait_pid` |
| log segments | `pagecache/segment.h` | free, active, inactive and draining segments with page sets | transitions, `insert_pid`, `remove_pid`, `can_free` |
| heap slabs | `pagecache/heap.h` | none | slab of a size, `HeapId` of a slab and an index, and back |
| thread pool | `threadpool.h` | a queue, a mutex, a condition variable, `stop_` | `enqueue`, `worker` |
| concurrent stack | `util/concurrent_stack.h` | a linked list | `push`, `pop`, `top` |
| IO buffer header | `header.h`, `pagecache/iobuf.h` | one 64-bit word of salt, maxed, sealed, writers, offset | `mk_sealed`, `incr_writers`, `bump_salt`, ... |

**Interactions.**  There are no messages; threads interact through atomics,
mutexes and condition variables.  An operation of the map *enters* the epoch
framework (publishing in its slot the epoch at which it began), walks and
changes the skip list, *leaves*, and if it dropped the last reference to some
nodes bumps the counter, asks for the safe epoch, and frees the nodes at once
if that epoch covers them or leaves them in the callback list, where later
callers run each other's callbacks.  The skip list relies on the epochs for one
thing only: that no node it can still reach is freed.  Threads that log put
lines into the ring of a stream and tell the one worker, which writes them to
files, archives these through a gzip process and frees streams that were
closed.  A process that crashes leaves the log files to the next one; nothing
else is persisted.

**What is hard.**  Scans of the slots that race with publication; epochs
loaded long before they are published; an epoch word that is checked, locked,
run and unlocked in separate steps; deletion marks set level by level, with
other threads helping; reference counts that come back from a lost
compare-exchange; spin loops that wait for an exact value; a ring read without
the lock that guards its offsets; wake-ups that pass between a test and a wait;
renames, a second process and crashes on the same few file names; a count that
stands for a set of pages nobody remembers.  `hazards` in `PROJECT.json` lists
these at their lines.  Tests hardly reach them: `test/test_skiplist.h` is
multi-threaded, but runs no insert against an erase of the same node at a
chosen step, and the logger, segments, heap, pool and stack have no tests.

**What makes each component correct.**

- *Epochs*: an epoch handed out as safe is below the entry epoch of every
  thread that is still inside, now and when slots change owners; answers never
  go back; a slot has one owner; every operation ends.
- *Callbacks*: each context accepted is kept in one place, run once, and not
  before its epoch is safe; `drain` leaves nothing that was safe; the count
  that lets `drain` stop early is never too small.
- *Map*: no node is freed while a thread could reach it; none is leaked or
  freed twice; hand-in and `finalize` end and leave nothing behind.
- *Skip list*: sorted on every level, linearizable, exact reference counts, no
  visit to a node retired before the call; a seek returns a neighbour that was
  nearest at some moment of the call, and an iterator passes over no key that
  was there all the time; calls return, but for an insert at a dirty node
  (section 5).
- *ConcurrencyControl*: the count is exact; one thread upgrades, after the
  readers counted before it have gone; then everybody uses the mutex.
- *Logger*: a line accepted is written once, whole and in its stream's order,
  before the stream is freed; nothing else is written among the lines; the
  worker does not sleep on data, and `tlog_exit` returns.  A line that reached a
  file is in a readable file until it goes with the oldest archive; the stream's
  idea of its file's size is right, and archives beyond `logcount` are those
  that could not be counted or removed, all of this across failed calls and
  crashes.
- *Segments*: `can_free` is true when and only when no page is left in the
  segment; a draining segment waits only for pages the cleaner knows; no place
  is reused that holds the newest state on disk of a page.
- *Thread pool*: works start once, in order, and never wait while all workers
  sleep.  *Stack*: contents in order, memory owned once.  *Heap*: slots are
  large enough, and ids name one slot.

## 2. The modules

| Module | Stands for |
|---|---|
| `Epoch` | `Cepoch<int64_t>`: one action per atomic access of each operation |
| `CallbackPromise` | abstract: what a callback list promises, with no slots |
| `EpochCallback` | `CepochCallback`: the slot protocol atomic by atomic |
| `CallbackClients` | callers that hand in contexts and drain with growing safe epochs; shows that `EpochCallback` implements `CallbackPromise` |
| `GracePeriod` | abstract: what reclamation promises, with no epochs |
| `MapReclaim` | `Epoch` and `EpochCallback` composed as the map does; implements `GracePeriod` |
| `SkipList` | the operations of the list over links, marks and reference counts |
| `ConcurrencyControl` | `read`, `write`, `enable`, the guard's destructor |
| `LogRing` | the offsets of a stream's ring: room, push, take, release |
| `LogWorker` | printing threads, the worker, opening, closing and exit, over `LogRing` |
| `LogRotate` | the files of a stream: writing, archiving, gzip, crash and restart |
| `Segment` | the four states of a segment and an accountant that drives them |
| `ThreadPool` | `enqueue` and `worker` with the condition variable |
| `ConcurrentStack` | `push`, `pop` and `top` over addresses that are reused |
| `Heap` | slab and id arithmetic on words of a small width |
| `EpochProofs`, `MapReclaimProofs`, `SkipListProofs`, `LogWorkerProofs` | the theorems about the module each is named after |
| `SkipListCallProofs` | the theorems about whole calls of `SkipList` |
| `PartsProofs` | the theorems about `ConcurrencyControl`, `ThreadPool`, `ConcurrentStack`, `Segment` and `LogRotate` |
| `EpochCallbackProofs`, `CallbackProofs` | what `EpochCallback` keeps whoever uses it, and the theorems about `CallbackClients` |
| `MCEpochCallback`, `MCLogger` | `Epoch` and `CallbackClients`, `LogWorker` and `LogRotate`: one of the two per behaviour, in one run |
| `MCParts` | `ConcurrencyControl` and four parts that share nothing with it or each other, one per behaviour, in one run |
| other `MC*` | symmetry sets and definitions for TLC |

Definitions keep the names of the source where they can; the comment above an
action names the function and `map` in `PROJECT.json` its lines.

**Granularity.**  A load, store, exchange or compare-exchange of a shared
atomic is one action, together with the thread-local work up to the next one
(local work commutes with every step of another thread).  A loop of
`compare_exchange_weak` that only recomputes its argument from the word itself
is the one step at which it succeeds; its spurious failures are stuttering.
The scan of the epoch framework is not such a loop (it gives up when the bound
has moved past its result), so its retries are actions (`RaiseRetry`,
`RaiseStale`).  What is done under a mutex is one action, what is done between
two of them is another; a wait on a condition variable gives up the mutex, may
end without a signal (`SpuriousWake`), and needs the mutex again.

**Memory order.**  Atomics are sequentially consistent in the models.  The
code uses acquire, release and relaxed orders in places, and fences around
`enter`; reorderings that only a weak memory model has are not explored.

**The plain variables.**  `used`, `reentrant` and the callback and context
fields are touched only by the slot's owner or under the slot's lock;
`SlotOwnedOnce` and `LockDiscipline` (a part of `CallbackInv`) check what that
rests on.

**Combined invariants.**  `CallbackInv`, `MapInv`, `ListInv`, `ControlInv`,
`LogInv`, `RotateInv`, `SegmentInv`, `PoolInv`, `StackInv` and `HeapInv` are
conjunctions of named parts, the type invariant first where the module has
one; each part has its comment.  `TypeOK` of `Epoch` is a part of
`InductiveInv`.

**Operators called "a plausible bug".**  Next to some definitions stands a
variant with one guard dropped or one step swapped.  Nothing uses them; they
document which mistake each property would catch, and `mutants` pairs them
up.  Every property of every passing run fails on such a variant.

### `Epoch`

State: the two atomics, the fields of each slot, and per thread the slot index
it keeps, the operation it is in and that operation's local variables.
`entered[s]` is a history variable: the counter's value when slot `s` was last
published; the code publishes an older value, loaded before.  `EnterPlain`,
`EnterLazy` and `EnterRefresh` are the three ways to call `enter`, according
to the lazy bound.  `RegisterFull` is the throw when all slots are taken.  The
lazy and refreshing variants pick the published epoch exactly as
`get_epoch_for_enter` does.  Left out: `REWIND_CHECK` code, compiled only for
counters narrower than 64 bits, which nobody instantiates; partitions, a
different order of the same search for a free slot; the destructor's check,
which `FinalizeFreesAll` states for the map.

### `EpochCallback`, `CallbackClients`

Per slot the epoch word (`trigger`) and the context; per thread the loop index,
the word it expects, what it holds and what it took out.  `try_push`,
`try_swap` and `try_pop` are split at each atomic: lock by compare-exchange,
count, store, unlock, run, decrement.  A callback is one step, `RunCallback`.
`CallbackClients` gives each context a reclaim epoch when it is handed in and
lets the safe epoch grow at any time; a refused context stays with its caller,
who may try again.

### `MapReclaim`

What an operation does to the list is reduced to `Link` and `Unlink` (the last
reference is dropped); `reach[t]` collects the nodes thread `t` may hold a
pointer to: what is linked when its slot is published, or later.  The rest is
the protocol of `CautoEpochBlock`, `schedule_async_node_reclaim`,
`schedule_node_reclaim` and `finalize`, step by step.  `finalize` is called
when every thread has unregistered, as the state it leaves (a map about to be
destroyed) demands.  Memory is reused: a freed node may be linked again.  A
thread has one epoch block at a time, as each operation of the map has, so that
the two throws of `reclaim_in_use` (lines 359 and 373) are not reached.

`concurrent_map.h` does not compile as it stands: the `reclaim_t` of
`util/thread_ctx.h` lacks `emplace`, `top`, `pop` and `size`, and `LOG_WARN` is
undefined.  The model takes `reclaim_t` to be the container those calls mean.

### `SkipList`

Each thread has a record of local variables with a program counter.  A search
loads one link per step and helps to remove marked nodes as
`cooperatively_read_next` does (`Read`, `Skip`, `Check`, `Unlink`, `Unref`);
what follows when it returns is `CameSplice` for an insert or erase, `CameNear`
for `find` and the seeks (`le`, `lt`, `ge`, `gt`, last), which stop at an equal
node or take the last level's neighbour without comparing it again.  `Repair`
and `Probe` are what the code does after a lost compare-exchange: search the
level again, or, if the predecessor is marked, refresh from a level above.  An
insert is `Link0`, and per higher level `Dirty`, `Own`, `Ref`, `Link`, `Undo`;
an erase is `Mark` from the top level down and `Cut`, `CutRef` per level; an
erase by node marks that node only.  A scan seeks and then steps an iterator to
the end, over nodes that may be deleted under it.  `refresh_all_links` walks
each level.  A random height is any height up to `MaxHeight`.  Histories: the
keys in the set, whether a key was in it during a call, which calls changed it,
the nodes retired so far and those retired before a call began.  Memory is not
reused in this module; that it is not reused too early is what `MapReclaim`
shows, given `NoStaleVisit`.

A call but the insert with a kept splice begins with fresh local variables.  An
insert begins with a fresh splice, as each call of the map does, or goes on
with the one the insert before has left (`InsertAgain`), as `retry_insert` of
the tests does inside one epoch block.  Then `Validate` looks for a level that
is tight and brackets the key, one level per step, with or without
`allow_partial_splice_fix` (`Past`); `Recompute` adds the upper levels whose
successor the key has passed, and `Leave` keeps the splice, with the new node
in it, or resets it.  `SpliceBrackets`, a part of `ListInv`, is what the
assertions of `insert` say of the two nodes it links between.  Left out: the
insert for single-threaded use.

### `ConcurrencyControl`

`Protector`'s variant is the program counter of a thread that holds a guard.
`std::shared_mutex` is external: shared holders or one unique holder.  The
model starts with `active_` and `upgrade_done_` zero.  Neither has an
initializer and the constructor is defaulted, so under C++17 an object on the
stack starts with indeterminate values; nothing in the repository constructs
one.  `ThreadAssumption` bounds the threads by the bit, as 2^31 does.

### `LogRing`, `LogWorker`

A ring is the three offsets `start`, `end` and `ext_end`, with `end = start`
both for empty and, after a wrap, for exactly full.  `buff` is kept as the
number of the line each byte belongs to, so a byte overwritten too early or
written twice shows in `out`.  A print is `Call`, `NeedDrop` (its own turn of
`tlog.lock`), then `PutLine` or `Full`, and for a blocking stream `Wait` and
`Resume`; what `_tlog_vprintf` does under the lock, the signal included, is one
step, and the gap between `Full` and `Wait` is one that the code has, as it
takes another lock.  The worker is `Top`, `Pick`, `Awake` and, unlocked,
`Write`, `WriteExt`, then `ReleaseTaken` and `WakeWaiters`.  `WriteDropped` is
what the code does about dropped lines: `snprintf` is given no room
(`DropMsgRoom`), so that their number is written nowhere (`recorded`) and bytes
of an uninitialised buffer may go out instead (`stray`).  `CloseIdle` is
`_tlog_close`: it frees a stream, and unless that was the head of the list the
worker keeps the freed pointer as its position (`UseFreed`: undefined
behaviour, any outcome, after which nothing more is said).  A stream is closed
when nobody prints on it, and `tlog_exit` is called when nobody prints, as
their use demands.  Streams of this module do not compress, so that the worker
waits without a timeout.  The process-wide screen and custom outputs, levels,
formatting, segment heads, printing before `tlog_init` and the fork handlers
are left out.

### `LogRotate`

The one writer of a stream's files.  A file is its set of lines, its time and
the gzip that has not completed it, if any; `dir` has the three names the code
works with and `archives` those with a time and number of their own.
`BeginWrite` is the head of `_tlog_write`; archiving goes on through
`ArchiveOldGz`, `SetAside`, `ArchivePending` or `Fork`; `CountArchives` counts
once how many of the archives are too many, and `RemoveOldest` or `RemoveFails`
is done so many times; then `OpenLog` and `AppendLine`.  Each of these can fail,
with what the code does then: a rename, or the time or name it needs, in
`ArchiveOldGz`, `SetAside`, `ArchivePending` and `WaitPid` (the file stays);
reading the directory (`CountFails`, after which nothing is removed);
`RemoveFails`; `OpenFails`, `AppendFails`, `ForkFails` and `ExecFails` (the child
of `vfork` sets `nocompress` in the shared memory).  `WaitPid` is the poll for
the child.  The gzip processes and the file system are external: gzip refuses to
overwrite, writes a file that is not whole at first, and then removes its input
by name.  There is one gzip per life of the process.  `Crash` stops the process
at any step, with its gzip (a signal to the group) or without: a gzip that goes
on is beside the next process, which does not know of it.  `Start` begins anew on
what is there; a user may delete the log file.  Renames are atomic, and a crash
leaves the files as they are: it is one of the process, not of the machine, as
nothing is synced.  One process writes (`multi_log` is 0), so that the lock file
does nothing.

### `Segment`

Each class of the source is a state; the transitions, `insert_pid`,
`remove_pid` and `can_free` are operators on one segment, field by field.  What
calls them is not in the repository.  The module's actions stand for the
accountant that the header comment of `segment.h` describes and the assertions
demand: the tip receives fragments (`Link`, `Replace`); every segment that
holds a replaced page is told once; segments become inactive in the order of
their lsn, when they are on disk; a draining segment's pages are rewritten by
`Clean`; a freed place waits for the segment that holds its replacements.
Heap items and the file itself are left out.

### `ThreadPool`, `ConcurrentStack`, `Heap`

`ThreadPool` has the mutex as the atomicity of its actions, `Notify` apart from
`Enqueue` as in the code.  `ConcurrentStack` has one action per atomic access,
and the memory of a popped node may be pushed again at once.  A pop and `top()`
read a node that nothing protects; `undercut` remembers that a pop has taken off
a node another thread was looking at.  From then on anything may happen, up to
the use of freed memory (`UseFreedNode`, after which the module stops), and
`StackInv` claims the types only.  `Heap` evaluates the functions for every word of `WordBits`
bits, the index part `IdxBits` wide; these are pure, so the one variable is the
word asked about.  It uses the bit operators of `Bitwise` and is not proved
about.

## 3. The runs

State counts are distinct states, after symmetry where a run uses it.

| Run | Instance | States | Shows |
|---|---|---|---|
| `epoch_callback` | epochs: 3 threads, 2 slots, counter to 3, nesting 2; callbacks: 2 callers, 2 slots, 3 contexts, safe to 3 | 1175 k | `SafeBelowEntry`, `AnswerStaysSafe`, `SlotOwnedOnce`, `SafeOnlyGrows`, and the inductive invariant of the proofs; `CallbackInv` (one place per context, exact count, lock discipline), `DrainClears`, `KeepsPromise`: the refinement of `CallbackPromise` |
| `map_reclaim` | 2 threads, 2 nodes, 1 callback slot, counter to 6 | 176 k | `MapInv`, `NoUseAfterFree`, `FinalizeFreesAll`, `ImplementsGrace`; operations, hand-ins and `finalize` end |
| `skiplist` | 2 threads on every list the nodes allow, 2 levels; 3 nodes with 2 keys: one call each of any update, `find`, `le`, `ge` or refresh, or a seek or scan beside two updates, or an insert that may meet a dirty node; 3 nodes with 3 keys: two inserts with one splice beside an erase | 614 k | `ListInv`, `Linearizable`, `RefsExact`, `NoStaleVisit`, `SeekIsNearest`, `ScanSeesAll`, `CallsReturn` |
| `logger` | memory: 2 producers, 3 streams, of which the root blocks; rings of 4, lines of 1, 4 prints; files: 1 line to a file, 1 archive, 5 lines, 1 crash, with gzip or without | 569 k | `LogInv`, `FlushedWhenFreed`, `NeverSleepsOnData`, `LinesGetWritten`, `ExitReturns`; `RotateInv`, `NoLineLost`, `GzipUndisturbed`, `ZipReaped` |
| `concurrency_control` | five parts, one per behaviour. Upgradable control: 3 threads, 2 calls each; segments: 3 places, 2 pages, 5 segments; pool: 2 workers, 2 callers, 4 works; stack: 2 pushers, 2 poppers, 3 addresses, 3 pushes; heap: 8-bit words | 480 k | `ControlInv`, `OldReadersDrained`, `CallsEnd`; `SegmentInv`, `StableStateKept`; `PoolInv`, `WorkStarts`; `StackInv`; `HeapInv` |
| `skiplist_dirty_spins`, `skiplist_last_reference`, `skiplist_splice_reuse`, `upgrade`, `logger_lost_wakeup`, `logger_long_lines`, `logger_drops_unrecorded` | | | violations, section 5 |

**Bounds, and why they are enough.**  `MaxEpoch` bounds bumps.  An entry, a
scan and a bump race with at most one value of the counter apart per bump, so
few bumps already give a thread that entered early, one that entered late and a
scan that began before both.  `MaxNest` 2 has an enter inside an enter, which
is the first that neither publishes nor clears.  Two threads are both sides of
each race; a third one matters as a third competitor for two slots (`epoch_callback`)
and as a second reader beside an upgrading writer (`concurrency_control`).  One
callback slot makes the list full as soon as one batch waits, which two nodes
suffice to reach; two slots and three contexts in `epoch_callback` have refusals with
the list full, swaps in the first and the second slot and pops during pushes.
`RoomToBump` keeps the counter's bound from blocking an operation in its
middle: a node is unlinked only if the bumps it will cause fit.  Two levels
give each case of the skip list its code: level 0 where an insert takes effect
and an erase is decided, and one level above it that is linked later, marked
earlier and helped.  Three keys let an erase between the keys of two inserts
leave their splice behind the second key above and not below, which is what
`Recompute` is for.  The plan `DirtyNode` has the insert of the first finding
(section 5) run into its endless search: `CallsReturn` claims that every call
returns once the others leave the list alone, except an insert that keeps
meeting a node of its own key above level 0.  `REQUIRED_BIT` is 8, more than the number of readers, as
2^31 is.  A ring of twice the longest line is the smallest `tlog_init` allows,
so that every second line wraps and four lines fill it; three streams are a
head, a middle and a last of the list.  The clock of the log files needs two
values for "not tried again in the same second"; five lines make two files
full, so that one archive too many appears, and one crash leaves each leftover,
and a gzip beside that of the next process.
Three places and five segments bring a place to its second use while another
segment drains; with four works two workers sleep and wake in each order; with
three addresses and three pushes addresses come back under a pop, and two
poppers take nodes from under each other.  Eight-bit
words have every alignment of a slab's bit and an index of four bits.

**Deadlock** is checked in `epoch_callback`, whose clients can always call
again.  The others stop: `MapReclaim` after `finalize`; the number of
calls, lines, segments and works is bounded; the logger ends in `tlog_exit`, the
stack once freed memory was used.

**Symmetry** is used in `epoch_callback`, which checks no liveness.  Threads are
interchangeable there, and so are callers and contexts (threads and contexts are
the same values, as no behaviour has both); slots, which are scanned in order,
are not.

**Fairness.** Weak fairness of each thread's own steps inside an operation: the
scheduler runs every thread and no operation sleeps with a lock of its own.
Calls themselves are never assumed, except that in `MapFairSpec` a thread
inside the map leaves: the destructor of `CautoEpochBlock` does so at the end
of every operation. Weak fairness suffices for compare-exchange loops because a
loop that fails has been overtaken by one that succeeded, and the number of
calls, or of bumps, is finite in each instance; with endless competition, no
lock-free operation is promised to end. For a lock of `std::shared_mutex` and
for the drain of the first writer, weak fairness is enough here since guards
are released (`Release` is fair) and each thread makes finitely many calls. In
the logger the steps of a print, of the worker and of a `tlog_exit` once begun
are fair; spurious wake-ups, prints, closings and the call of `tlog_exit` are
not, so nothing rests on them. In `MCLogger` the files begin when the worker
sleeps, so that the fairness of the memory can be met beside them. For the
files the steps of a write, the poll for gzip (`_tlog_wait_pids` runs in the
worker's loop) and gzip itself are fair, failed or not; the use of a freed
stream (`UseFreed`) is not, and the instance does not let the worker stand
still there. In the pool, notifications, workers that want the mutex and the
works, which return, are fair.

## 4. The proofs

### `EpochProofs`

`EpochProofs` proves, for any set of threads, any number of slots greater than
zero and any bounds, that `Spec` of `Epoch` implies

- `TypeCorrect`: types are kept; in particular the two subtractions of the code
  (the scan's minimum less one, the reentrant count) never leave the naturals;
- `SafeBelowEntryHolds`: the bound is below the entry epoch of every protected
  slot, the safety of the whole framework;
- `AnswerStaysSafeHolds`, `SlotOwnedOnceHolds`, `SafeOnlyGrowsHolds`;
- `InductiveInvariant`, from which they follow.

**The argument.**  `SafeBelowEntry` alone is not inductive: the bound is raised
from a minimum computed slot by slot in the past.  `ScanInv` says what such a
minimum is worth at each moment: it is at most the counter as it was when the
scan began, and at most the *entry epoch* of each protected slot already
passed.  A slot published after the scan has passed it may show a smaller,
stale epoch, and still cannot hurt: it was entered at a counter value that the
minimum does not exceed (`EntryKept`: a slot protected after a step was so
before with the same entry epoch, or has just been published at the current
value).  So what is stored is below every entry epoch (`BoundStep`), although
not below every *published* epoch.  `PublishedInv` ties what a scan reads to
the entry epoch, `EnteringInv` covers threads between their load of the counter
and publication, and `SlotOwnedOnce` lets a slot be its owner's.
`ScanInv` also has a scan remember a bound no larger than the current one, so a
successful compare-exchange can only raise it.  TLC checks `InductiveInv` in
run `epoch_callback`.

Assumed: `SlotCount` is a positive natural, `MaxEpoch` and `MaxNest` are
naturals.  Nothing is assumed about `Thread`, not even that it is finite.

### `PartsProofs`

**The control.**  For any finite set of fewer than `REQUIRED_BIT` threads and any bound on calls:
`ControlInvHolds` (types; `active_` is the bit, once set, plus the number of
readers counted; one thread upgrades) and `OldReadersDrainedHolds` (no reader
counted before the bit is still reading when the upgrade is done).  The
invariant adds to the count (`CountInv`) that it stays below the bit, since
each thread is counted once, so that the sum of the two can be taken apart;
that a reader from before the bit is one of those counted (`EarlyInv`), so
that `active_ = REQUIRED_BIT`, the exact value the writer waits for, leaves
none; and which thread upgrades (`WriterInv`).  The facts about cardinalities,
one thread more and one less in the set of the counted, are lemmas.

**The pool.**  For any finite sets of workers and callers and any number of works,
`PoolInvHolds`: works are started once and in order (`started` and the queue
together are the numbers of the works, whichever end moves), and queued works
are never more than the workers about to take the mutex and the notifications
under way while a worker sleeps (`Covered`).  Only the worker that takes a work
or finds the queue empty leaves the awake; only `Notify`, which wakes one if one
sleeps, leaves the announcing.

**The stack.**  For any finite sets of pushing and popping threads, any finite
memory and any number of pushes, `StackInvHolds`: until a pop takes off a node
that another thread looks at (`undercut`), the linked nodes are what was pushed
and not popped, in order, `pop` and `top` return what was on top, no freed node
is read, and the memory in use is on the stack or in a thread's hands.  The list
is stated by its path, a function from positions to addresses (`Chain`), so that
no induction over data is needed: a push puts an address in front of the path, a
pop takes the first away.  What makes the exchange of `pop` right, although
addresses are reused, is in `HandsOK`: from the load of `top` to the exchange the
node a thread looks at is *on the path*, since a pop that takes it is an
undercut, and a node on the path has the same node below it all the time.  So if
it is on top at the exchange, `new_front` is what is below it.  A node in hand is
on no path and in one thread's hand only, which also makes the memory add up.
The types hold in any case (`StackTypeNext`).  Without the condition the rest is
false (section 6).  `StackAssumption` says that `Null` is no address and no node,
and that the sets are finite.

**The segments.**  For any places, any number of segments and any finite set of pages,
`SegmentInvHolds`: `can_free` is exact, the pids are the pages present and the
cleaner knows what is left.  The invariant relates the books of one segment
(`BookInv`) to the pages in it: while active, the deferred removals are among
the pids; on becoming inactive `max` and `replaced` are the numbers of both, and
differ by the pages present (`Without`); from then on each replacement takes one page out of the
segment and adds one to the count (`OneLess`), whether its name is still known
or not.  `LsnInv` says that pages are in segments that have begun and that
segments no longer active are older than the tip, so that a write to the tip
never counts against itself.  The lsns of segments differ (`SegTypeOK`), which
makes a page's removal from one segment leave the others alone.

`StableStateKeptHolds` is about several segments at once: a place that may be
used again holds the newest state on disk of no page.  A page written again is
replaced in its old segment at once, long before the new fragment is on disk,
so the old segment may drain and be freed while it is still needed.  What keeps
it is the list of freed places in a segment that is not older than any
replacement (`upon`).  `StaysInv` says so for what is on disk (`needed`) and
for what will be when a segment becomes stable (`snap`): the segment is not
reusable, and either still in use or `Guarded` by an active segment that
brings newer state of the page to the disk.  `WaitInv` says which places wait
in those lists, `TipInv` that the lsns up to the tip are those of the segments
not yet on disk, so that stabilizing in their order is stabilizing them all.

**The files.**  For any `logsize` and `logcount`, with or without compression, and any bounds
on lines, clock and crashes: `NoLineLostHolds`, `RotateInvHolds` and
`GzipUndisturbedHolds`.  The invariant is `RotateIInv`; its parts:

- `LinesInv`: every file holds lines that were written, and the line in hand
  is in none.  That is why the size goes up by one when it is appended
  (`SizeTracked` is inductive with it).
- `OpenInv`: the stream has the log open only while there is one by that name,
  and never while files are archived, so that no rename takes a file away from
  under an open stream; the log and the pending file are whole.
- `GzipInv`: the process knows of the gzip of its own life, which runs only
  while nothing is archived.  `GzipUndisturbed` is a consequence, whatever gzips
  of earlier lives run.
- `AloneInv`: unless a gzip went on after a crash, that gzip is the only one, and
  while it writes, its output stands for lines that are all in the pending file;
  when that is removed the output is whole.  So a line is in one whole file at
  every moment, whatever gzip does and whenever it or a rename fails
  (`KeptNext`).
- `OwedInv`: archives beyond `logcount` are among those named since the last
  count and those it found too many and has not removed.

A gzip left by a crash may take a line out of all files: at its end it removes
the `.pending` that is there then, which may be another one.  `NoLineLost`
excepts it for that reason (`outlived`); without the exception TLC finds it
violated.  Assumed (`RotateAssumption`): the bounds are naturals, and `NoFile` is
no file.

### `EpochCallbackProofs` and `CallbackProofs`

`EpochCallbackProofs` proves that every step of a call keeps `CbInductive`,
whoever the caller is: a slot is locked when and only when one thread is
between its compare-exchange and its store (`SlotLocks`), what is in the fields
then, and `CountExact`, the counter against the slots and the threads that have
popped and not yet decremented.  A user's proof needs to show only that its
steps are such steps.

`CallbackProofs` does for `CallbackClients`, any finite set of threads, any
contexts, any number of slots.  `CallbackInvHolds`: each context is in one
place, and the lock discipline.  `PromiseKept`: `EpochCallback` implements
`CallbackPromise`, step by step; a context taken out of a slot is due
(`DueInv`), because the compare-exchange compares with the epoch that was
looked at, and no other context with another epoch can have come in between
without changing the word.  `DrainsClear`: `PromisedInv` follows what a drain
owes from its call to its return; where the loop has passed, a context it owes
is in a slot only if another thread has locked that slot to take it out.
Assumed: slots exist; epochs stay two below `INT64_MAX`, the words for free and
locked (`CbAssumption`, `MaxSafeAssumption`), as a counter of 63 bits does.

### `MapReclaimProofs`

For any finite set of threads, any numbers of epoch slots, callback slots and
nodes: `NoUseAfterFreeHolds`, `MapInvHolds`, `FinalizeFreesAllHolds`, and
`ImplementsGraceHolds`, the refinement of `GracePeriod`.  The map's invariant
is that of `EpochProofs`, that of `EpochCallbackProofs`, and what ties the two
together; every step of the map is a step or a stutter of each (`EpochPart`,
`ListPart`), so the first two carry over (`PartsStep`) and only the third is
proved anew:

- `HeldInv`: an unlinked node is in exactly one bag, slot or hand, and other
  nodes are in none;
- `ReachInv`: whoever may reach an unlinked node entered at an epoch no greater
  than the one its batch waits for, and the node is in nobody's hand who is
  about to free it.

The step that matters is where a batch is found safe: the answer that covers it
is at most the bound, the bound is below the entry epoch of every thread inside
(`SafeBelowEntry`), and `ReachInv` has that entry epoch at most the batch's, so
nobody inside can reach it.  That the batch's epoch is at least every entry
epoch is why the counter is bumped after unlinking and not before.  `FinalInv`
follows `finalize` through its stages: once its caller is the only thread left,
the scan finds no protected slot, so that the answer covers every batch.
`MapAssumption` is what `CbAssumption` asks, and that the counter does not come
near `INT64_MAX`.

### `SkipListProofs`

For any set of threads, any finite set of nodes, any integer keys, heights
up to any bound and any plans: `ListInvHolds` and `RefsExactHolds`.  The inductive
invariant is `ListIInv`.

**The chain.**  The links of a level are walked in `SkipList` (`Walk`).  A proof
along the walk would be an induction over data, so the chain is described by
what it is instead: a *set* of nodes with different keys, the link of each of which leads to the
next larger of the set, or to the tail (`IsChain`).  There is one such set only
and the walk visits it (`ChainIs`, by counting: a walk that goes up in a finite
set ends).  So each change of a link needs to show only what the new set is:
one node more (`ChainsLink`) or one marked node less (`ChainsCut`).

**The hands.**  A thread works with nodes it loaded some time ago.
`Reached(n, l)` is what stays true of such a node: it was linked at level `l`,
and it is in the chain or marked there.  The link of a marked node never
changes, so a node unlinked keeps pointing at a node that was reached too and
comes after it (`Links`); this is why a walk over deleted nodes still goes up.
A compare-exchange expects an unmarked link, so the predecessor of a
change that succeeds is in the chain, its successor is the node expected, and
`BracketInv`, which bounds the splice by the key on each level, puts a new node at
its place.  `NestInv` has the predecessors of a splice go back from level to
level; without it `refresh_splice`, and an insert with a splice used again,
could begin to search behind the key.

**The counts.**  `Counts` has `refs` equal to the number of levels at which a
node is linked or a thread has a reference in its hands (`Counted`), and
`HandsApart` has only one thread hold the reference for one level.  `Owners`:
no two inserts have one node.  That each of an insert's levels is linked,
marked or still to come (`Whole`) gives `WellFormed`, the `dbg_validate` of a
list at rest.

The steps are proved by what they do to the list, which few lemmas cover:
nothing (`QuietStep`), a node taken out (`TakeOutStep`), a count (`DropStep`,
`RefStep`), a node prepared, linked or marked.  Assumed (`ListAssumption`): nodes
are finitely many and different from head and tail, keys are integers; nothing
is assumed about threads.

### `SkipListCallProofs`

Under the same assumption: `LinearizableHolds`, `NoStaleVisitHolds`,
`SeekIsNearestHolds` and `ScanSeesAllHolds`, the four properties that are about
a whole call.  They compare what a call answers with the histories `seen`
(whether a key was in the set, was out of it, or both, during the call), `won`
(which calls changed the set) and `stale` (what was retired before its epoch
block began).  `ListIInv` speaks of one state, so it does not say why a call that
stands on nodes erased long ago may still answer.  The inductive invariant is
`ListIInv /\ CallIInv`, and the reason is one set per thread and level.

**The nodes linked meanwhile.**  `Been(t, op, W)`: `W[l]` holds the nodes that were
linked at level `l` at some moment since the epoch block of `t` began.  Nodes
linked are added to it, and a node taken out stays.  The link of such a node is
frozen, and when it was taken out its successor was linked, so the link leads to
another node of `W[l]` or to the tail.  Hence a walk that starts in `W[l]` never
leaves it (`Visit`), whatever is unlinked under it, and no node of `W[l]` was
retired before the block began: this is `NoStaleVisit`.  `Told` asks only that
some `W` is there for each thread; no step has to remember it, and each step
shows how to get the new one from the old (`BeenLinks`, `BeenKept`).  An insert with
the splice of the insert before is in the same block, so `W` passes from call to
call; a fresh call begins with the nodes that are linked now (`BeenAll`,
`BeenMeets`).

**The gaps.**  Between a node of level 0 and the node its link leads to there is no
present key (`GapEmpty`).  When a node is taken out, the two gaps around it and
its own key become one; the key is erased by then, so each key in the gap was
absent at some moment of the call (`SawGap`, `GapJoin`).  A search
that follows links at level 0 therefore has, for each key it comes past, a
moment without it, though no moment may be without all of them.  Seeks and scans rest
on that alone.  A key that a call *meets* was present when its node was
linked or the call began, and if the node is marked, there was a moment when the
key was out (`SawIn`); this serves a refused insert, an erase that loses the mark
of level 0, and `find`.

**The right side.**  `Bounds` says of a search that its node is before the key (or
at it, for `gt`), that the bound `last_bigger` is not, and that the bound is the
key itself in the mode `lt` only; so the bound needs no comparison when the code
takes it for the answer.  `Scanned` has the keys an iterator has returned, in
order, be those it has come past that were in, and the rest out.

Before the proof was begun TLC checked `CallIInv`, with `W` as a variable that each
step updates as the proof does: on the plans of run `skiplist`, on two updates
of each thread (`TwoUpdatesEach`), on a scan beside two updates, and on two
inserts with one splice beside two erases (`SpliceAmongErases`), up to 1.8
million states.

### `LogWorkerProofs`

`NeverSleepsHolds` holds for any threads, streams, buffers and lines: the worker
tests every ring under the lock it goes to sleep with.

`LogInvHolds` and `FlushedWhenFreedHolds` hold for any finite set of printing
threads, any streams and any buffer, when no line has the full length
`max_line_size` (`ShortLines`); for longer lines they are false, which is the
finding of run `logger_long_lines`.  The root stream cannot take such a line,
the others can.  The worker writes from the buffer without the lock while
lines are put behind, so `NothingLost` needs to be said of the middle of a
write too.  `LinesInv` does: what was written, followed by what is unread in
`View`, the ring without what the worker has written of it, is what was
accepted.  `TakenOK` keeps what the worker took the *beginning* of the ring as
it is by now, and `RingOK` is why: a ring that has wrapped ends before its
start, or at 0, so no line put behind touches a byte of what was taken, and an
end that equals the start means an empty ring.  Putting a line behind what is
unread commutes with releasing what is before it.  `WaitersInv` counts the
waiting threads, `DropInv` has the dropped lines with the worker while it writes,
and `RefusedInv` ties them to lines that were refused: that is all that is true
of them (`OnlyLines`), as their number is not written (section 5).

### Checked by TLC only

- Liveness (`ZipReaped`, `WorkStarts`, `CallsEnd` and the others): out of the
  prover's reach, with fairness and `ENABLED`.
- `Heap`, for words of eight bits: it uses `Bitwise` and a recursive definition.

## 5. Findings

- **A dirty node that nobody deletes** (`skiplist_dirty_spins`).  Thread 1 links
  a node of height 2 at level 0 and is suspended.  Thread 2 erases that node, and inserts another of the same key on
  both levels.  Thread 1 goes on with level 1, loses its compare-exchange,
  searches the level again and finds the other node right behind its position.
  The code takes a successor with its own key to be a node under deletion: the
  assertion at line 706 fails, and without assertions the loop at line 703
  searches again for ever, while the node it waits for is alive and every
  other thread idle.  Only an erase of the second node ends it.
- **The last reference goes unnoticed** (`skiplist_last_reference`).
  `decrease_reference` of the map returns the count before the decrement,
  the comment, the test's implementation and the caller mean the one after it.
  An insert that gives back the last reference goes on instead of aborting.
  As it is still inside its epoch block the node's memory is still there, and
  often it meets its own deleting mark a little later; but going on is also what
  lets an insert run into the search of the finding before.
- **A kept splice shows an erased node** (`skiplist_splice_reuse`).  An insert
  with the splice of the insert before may be refused as a duplicate although
  the key was erased, and its eraser has returned, before the insert began.
  The splice holds two erased nodes; the frozen link from the one to the other
  agrees with it, so the splice passes for tight, and at level 0 nobody looks
  at a mark before saying duplicate.  The map makes a splice per call and is not
  affected; `retry_insert` of the tests would try another key.  A key inserted
  with a kept splice is never lost or out of order: `Linearizable` excepts only
  the refusals.
- **The upgrade is not permanent** (`upgrade`).  `read` compares with `>` where
  the value before its own increment is exactly `REQUIRED_BIT` if nobody else
  is counted.  Such a reader is not locked out, and reads while a writer holds
  the mutex.  `CountExact`, `OldReadersDrained` and `OneUpgrader` hold all the
  same.
- **A blocked print sleeps on an empty buffer** (`logger_lost_wakeup`).  A print
  that finds no room releases `tlog.lock`, and only then takes the stream's lock
  and counts itself as a waiter, without looking again.  If the worker writes
  everything in between, it sees no waiters and wakes nobody, and then waits for
  data itself.  The print goes on when another thread prints.
- **Bytes released unwritten** (`logger_long_lines`).  A stream that is not the
  root takes lines of exactly `max_line_size` bytes.  After a wrap such a line
  can end exactly at `start`.  The worker reckons the part from 0 to `end` only
  if `end < start`, takes just the part before the wrap, and releases both.
  With lines shorter than that (run `logger`) `end` cannot meet `start`, and
  nothing is lost.
- **Dropped lines are not recorded** (`logger_drops_unrecorded`).  The worker
  takes the count of dropped lines, resets it, and formats its message into a
  buffer of size `msg - dropmsg`, which is 0 without segment heads.  The number
  is written nowhere, and what the uninitialised buffer holds up to a zero byte
  is written among the lines.

Also seen while reading, and not modelled: the worker keeps the address of a
stream it has just freed when that was not the head of the list
(`tlog.c:1453`, see `UseFreed`); and `header.h` writes `1ull < 32`
for `1ull << 32` in two places, so sealed and maxed are never set; the mask of
`bump_salt` clears bit 33, the lowest bit of the salt it has just incremented,
and keeps the maxed flag below it.

## 6. What is not modelled, and the plan

Not modelled:

- Stubs without operations (`pagecache/pagecache.*`, `tree.*`, `db.h`,
  `snapshot.h`, ...), plain data (`slice.h`, `config.h`), `lazy.*` (commented
  out), `ebr/atom.h` (unfinished: two conflicting definitions of `Pointable`, no
  operation on the pointers), the random number generator and the checksum.
- `header.h` and `iobuf.h`: no code calls them but `store_segment_header`,
  which nobody calls, and there is no log whose states would give them meaning.
- Of the epoch framework, the branches for narrow counters and partitioned
  registration; of the skip list, the single-threaded insert.
- Of the logger, several processes on one log (`multi_log`), compression
  together with the worker's loop, the switch to the screen when the log's
  directory may not be used (`tlog.c:1302`), formatting, segment heads, early printing
  and fork support.
- The concurrent stack after an undercut, beyond the types.  `pop` and `top` read
  a node that another `pop` may have deleted, and the exchange succeeds on a
  reused address: without the condition `~undercut` TLC violates `ReturnsTop` in
  9 states, `ChainIsStack` and `OwnedOnce` in 14.  No line of the repository
  promises otherwise, and nothing uses the stack.
- A crash of the machine: the log files are not synced, and what it leaves of
  them is up to the file system.  After a crash of the process alone a gzip may
  go on; then `NoLineLost` is not claimed, and the next process names a
  `.pending.gz` that is still being written (`tlog.c:1118`), although it is
  completed under its new name.
- An end of the thread pool: `stop_` is never set and `shutdown` has no body.

Next, in this order:

1. *Skip list*: three levels in the run, for `refresh_splice` past one level (the
   proofs have any number).
2. *Logger*: `multi_log` with its lock file, and `LogRotate` composed with
   `LogWorker`, where a stream waits for its gzip before it is freed.
3. *Composition* of `SkipList` and `MapReclaim` through their interfaces:
   `SkipList` guarantees `NoStaleVisit`, `MapReclaim` assumes it in `reach`.
