# A TLA+ model of the I/O motif benchmark

`motif_1` measures storage with many concurrent sequential processes. A parent
forks tasks, releases them together, and waits; each task writes many small
objects through a storage driver, reads some back and validates them, and
records the time of every access in a trace file. This directory models what in
that can go wrong by ordering, by failure or by what earlier runs left, checks
it with TLC on small instances, and proves the parts that do not depend on the
instance with TLAPS.

## The system

| Part | State it keeps | Operations | Talks to | What is hard |
|---|---|---|---|---|
| Motif control, `motif_1.c` | arguments, vector of object identifiers | `main`, `run_motif` | everything | processes, failures whose result is ignored |
| Process barrier, `utils/barrier.c` | counter and two semaphores in shared memory | `barrier_init`, `barrier_wait`, `barrier_destroy` (never called) | parent and tasks | interleaving, memory that outlives a run |
| Trace recorder, `utils/trace.c` | ring of 65536 records, request word, flush marker, file | `trace_init`, `trace`, `trace_flush`, `trace_fini`, thread `trace_sync` | drivers call `trace_read`, `trace_write` | a ring shared unlocked, coalesced requests, modular indices |
| Debug storage driver, `storage/storage_debug.c` | workspace path, working directories | create and destroy for parent and task, write, read | file system, trace | ignored failures, erasure, leftovers |
| Directory tree driver, `storage/storage_dirtree.c` | the same | the same, with directories made on demand and removed recursively | file system, trace | the same, and recursion |
| RADOS driver, `storage/storage_rados.c` | cluster handle, I/O context | the same | librados | failures half-way through set-up |
| Samples, `sample/` | length and words | create, init, read, valid | PRNG | same draws in the same order, the last partial word |
| PRNGs, `prng/` | counter, or xorwow state | create, init, next, peek | | what `peek` names, word width |
| Storage dispatch, `storage/storage.c` | the driver selected | `storage_select`, one call for each operation | the drivers | a name in no list |
| Time, `utils/time.c` | start times | `time_now`, `time_delta` | drivers, control | borrowing a second |
| Trace formatter, `utils/tracefmt.c` | none | binary to text or CSV | trace file | two integers printed as a fraction |
| Command line, `parse_opt` | arguments | one per option | | fields without default, unsigned checks |
| Logging, `log/` | level | `log_set_level`, `log_log` | stderr | lines of several writes, no lock; nothing the motif depends on |

What makes each correct:

* barrier: nobody passes before everybody has arrived; everybody passes, unless
  one is killed who owes the others something; what an earlier run left does not
  matter;
* recorder: the file is the sequence of records, none torn, lost, repeated or
  invented; a flush or exit request is not lost; `trace_fini` returns;
* control: tasks start together, the workspace outlives them, the run ends;
* driver and samples: an object read back is accepted exactly when it is the one
  that was written; the workspace, and nothing else, is removed, unless a call of
  its removal fails, and nothing is put in it from then on; sessions are given
  back, and descriptors by accesses that succeed;
* time and trace: a record is of the time of its own access and of no other's;
* options: a task does what the last option of each kind said.

## Modules

| Module | Models |
|---|---|
| `TraceBuffer` | The recorder: the worker thread (`trace_init`, `trace`, `trace_flush`, `trace_fini`) and the flush thread (`trace_sync`) |
| `TraceBufferProofs` | Its inductive invariant and theorems |
| `AbstractBarrier` | What a barrier promises |
| `Barrier` | `barrier_init` and `barrier_wait`, one semaphore operation a step |
| `BarrierProofs` | Its inductive invariant, theorems and refinement |
| `SharedBarrier` | `Barrier` twice on one piece of shared memory: two runs on a host |
| `SharedBarrierProofs` | `BarrierProofs`' theorems with the other run in the memory |
| `AbstractWorkspace` | What the file drivers promise of a workspace |
| `Motif` | `main` and `run_motif` over `AbstractBarrier`, with the debug driver |
| `MotifProofs` | Its inductive invariant, theorems and refinement |
| `DirTree` | The directory tree driver, one system call a step |
| `MCDirTree` | `DirTree` with two tasks that share directories |
| `DirTreeProofs` | Its inductive invariants, theorems and refinement |
| `Powers` | Powers, as a recursive function |
| `PowerProofs` | Induction, recursive functions, and powers, as lemmas |
| `Prng` | The two generators, as operators on words of `W` bits |
| `Objects` | One task's two loops over `Prng`, with the samples' bytes |
| `ObjectsProofs` | Its inductive invariant and theorems, and validation to the byte |
| `Timespec` | `time_now`, `time_delta` and what a reader makes of a formatted time, as operators |
| `CommandLine` | `parse_opt` and the selection of drivers and log level, as operators |
| `Session` | One task from its options to its trace, over `Timespec` and `CommandLine`, with the RADOS driver and the descriptors of the other two |
| `MCSession` | `Session` with its options |
| `SessionProofs` | Its inductive invariant and theorems; `time_delta` is subtraction |

`Barrier` is shown to implement `AbstractBarrier` for one use, and `Motif` and
`DirTree` to implement `AbstractWorkspace`, by TLC and by proof; `SharedBarrier`
does the first with what other runs leave in the memory. `Motif` is written over
`AbstractBarrier`, which keeps the semaphores out of it. `Motif` does not hold a
recorder: a task's recorder is private to it, and no step of a task depends on
what the recorder holds. `Motif` takes an object for its index; `Objects` shows,
to the byte, that validation can tell objects apart that way. `Session` looks at
one task and leaves to `Motif` and `DirTree` the other tasks, and what is in the
files; it has what they leave out: the options, the clock, the descriptors and
the third driver. `DirTree` takes from `Motif` that the parent removes the
workspace when the tasks have ended.

### TraceBuffer

A record is its serial number, so "the file holds the records in order" is
`file[i] = i - 1`. `req`, `nextent`, `lastflush`, `nextflush` and `ring` are the
fields of `trace_info_t`; `job`, `tbp`, `nflush` and `wrapped` are the flush
thread's locals. A critical section is one step: every access to `ti_req` and
`ti_nextflush` is under the mutex, and the only thing that blocks inside is
`pthread_cond_wait`, which releases it. What is *not* under the mutex is split:
`trace` claims a slot in one step, which leaves it torn, and fills it in another;
`fwrite` reads one record a step. `TRACE_NENT` is a constant, as is the modulus
of `uint16_t`: in the code they are equal, 2^16. `traced`, `requested`,
`flushes` and `overrun` are history.

The recorder has a precondition that nothing enforces: the worker must stay less
than a ring ahead of the file. `Kept` says it has, and that nobody called
`trace_flush` (nobody does). What is promised is promised under `Kept`, and
what happens otherwise is shown by runs of its own.

### Barrier

`b_mutex`, `b_barrier`, `b_count` and `b_num` are the fields of `barrier_t`; `pc`
is the place in `barrier_wait`, and `++bp->b_count` is a load and a store, so that
the counter needs its guard. `Init` starts from anything a run can have left in
the shared memory, since nothing unlinks it; `BarrierInit` writes all four fields,
`b_num` with the processes of its own run (`Count`). `Kill` ends a process at any
place, and leaves semaphores and counter as they are. A process killed at one of
the places in `Owing` owes the others its arrival, the mutex, the signal or the
turnstile's permit, and those behind it wait for ever: the semaphores of the code
are not robust. `EverybodyPasses` says that nothing else holds anybody up. `arrivals` (at the
store) and `passes` (at the turnstile's `sem_wait`) are history, and are the
abstract barrier's variables. The turnstile's permit is never taken back: the
barrier serves once, which is all `motif_1` asks of it.

### SharedBarrier

The object's name is `/motif_1` for every run, so that the processes of every run
work on one structure. `Proc`'s run is that of `Barrier`; `Other`'s is a second
instance with private variables of its own (`oPc`, `oArrivals`, ...) on the same
`b_mutex`, `b_barrier`, `b_count` and `b_num`. Each run is of any number of
processes, and writes its own `b_num`. A process of either can be killed anywhere:
in the critical section, between its wait and its post, between the load and the
store; any number of the other run's, `MaxKills` of the run looked at. The other
run can also be started again. With `Overlap` FALSE a run starts only when the one
before is over (all its processes past the barrier or dead), which is what
`Barrier`'s `Init` stands for, made explicit; with it TRUE a run starts when it
likes.

### AbstractWorkspace

A name holds nothing, part of an object, the whole of it, or more than a sample
(`held`). An object is put under a name that held nothing (`Put`), all of it, a
part that stays one, or a part that is filled later (`open`, then `Finish`);
nothing else changes it until the removal (`Remove`), which begins when nothing
is being put and takes names away step by step; from then on nothing is put.
`Motif` maps its `disk` to it (an object's file is filled in the step it is
created in, hence `open` is empty), `DirTree` its files, where opening and
filling are two steps. The statement is one of the two together: that creation
never goes over what is there is the driver's (`O_CREAT|O_EXCL`), that nothing is
put during the removal is `main`'s waiting for its tasks.

### Motif

`parent` and `task` are places in `main` and `run_motif`; `disk` says of each
object's file whether it is absent, whole, truncated or foreign ("junk"), or
longer than any sample ("huge", which fails an assertion of the read and crashes
the task). `home` is what regular files the parent's own
working directory holds: `storage_debug_driver_destroy` can get at them. A
sample is the index of the object it holds: a PRNG seeded with an object's
identifier generates that object. That is true of the default generator, which
this module assumes, and not of XORSHIFT (`Objects`). A file of an object is named
by one task only, so opening, filling and closing it is one step, and a task
killed in it leaves a truncated file.

The removal is the driver's loop, call by call: `chdir`, which is not looked at
and whose failure has the loop run in the parent's own directory (`ChdirFails`,
`EraseHome`); `opendir`, without which nothing is erased; for each entry (`todo`)
`stat` and `unlink`, whose failures leave it (`EraseFails`); `chdir` back and
`rmdir` (`RmdirFails`). `flawed` notes that one of them failed.

What can fail, within `MaxFaults`, is the workspace's creation, `barrier_init`,
`fork`, a task's set-up, a write, a read, and each of the removal's calls; and the
parent and each task can be killed anywhere. `stuck` notes that a process was
killed in `barrier_wait` where it owed the others a semaphore; since the abstract
barrier has no semaphores, a kill there may or may not make it so, and also just
after the passing, where the last `sem_post` is still to come. From then on nobody
passes, as in `Barrier`: nobody can be counted any more, or everybody is and the
signal or the one permit is lost. `RunEnds` excuses only this, and a process
lost before the barrier, and only while somebody waits there (`Stranded`): a kill
anywhere else, the parent's included, holds nobody up. `MaxWrites` bounds the objects of a task,
which are one of `WriteCounts`. `Removing` and `Held` are what `disk` and the
parent's place are to `AbstractWorkspace`.

### Prng and Objects

A generator is a value, and a draw gives a word and the generator after it. A
sample is its first `len` bytes: nothing reads its buffer further. `S`, `P` and
`obj_id` are `run_motif`'s; `store` holds the task's files by name. The width of
a word, the bytes of a word and `SAMPLE_LEN_MAX` are constants, tied as in the
code: the buffer is a whole number of words, the shortest sample half of it.
`Alter` is the environment: a file changes after it was written. One that has
grown past the longest sample is not read here: the driver's assertion ends the
task, as in `Motif`. Powers, exclusive or and a row of draws are recursive
functions, whose equations `PowerProofs` makes available to proofs; powers stand
for shifts and sizes.

### DirTree

A path is the sequence of names from the workspace. `Pathname` and `GenDir` are
kept apart, as the code spells the path twice. The parent's recursion is `stack`:
a frame has what is left of the listing `opendir` gave, the directory entered and
the path to go back to. `cwd` matters because every name is relative to it: a
`chdir` that fails leaves the loop naming entries of one directory in another.
`sealed` directories cannot be entered (`chdir` and creation in them fail).
`Contents` is what there is in the workspace, and `Attached` that it is a tree:
what is there is in a directory.

`stat` and `chdir` follow symbolic links, so `links` has one that a workspace may
hold before the run: to the workspace itself, so that the recursion goes round
until no more directories can be opened, or to a directory outside (`Elsewhere`),
which holds one file that is named as an object (`outside`). An entry is passed
over when `stat` fails (`EntryPassed`), unlinked, or not, when it is a file
(`EntryUnlinked`, `EntryAborts`), and entered when it is a directory or a link to
one (`EntryEntered`). `getcwd`'s failure leaves the buffer with the way back as it
was, which may be any directory's path (`Unfilled`); `lost` notes it.

`Removing`, `Held` and `BeingPut` are its variables to
`AbstractWorkspace`. There is at least one task and one object.

### Timespec, CommandLine and Session

A time is a pair of seconds and nanoseconds; `Ns` is what it stands for.
`TimeDelta` has the code's loop, which carries a second over for as long as the
nanoseconds are negative, as a division; `CsvValue` is what a reader makes of the
two integers `csv_trace` prints with a point between them. An option is a pair of
its letter and what `atoi` or `find_match` is given. Numbers that are stored in
an `unsigned` are taken modulo `UINTS`, and so is the -1 of a name that is not
found, which no check of `parse_opt` can see: the enumerations are unsigned.
`AsAsked` speaks of the options that `parse_opt`'s messages allow; what becomes of
the others is against these messages, and a finding. An
`int` fits, with its sign, in an `unsigned` (`SessionAssumption`). A
field without default holds what the stack held (`Garbage`).

`Session`'s `pc` and `phase` are the place in `main`, `run_motif` and the driver.
A step is one option, one call of librados or of the file system that can fail,
or one reading of the clock with what is worked out from it. `fds` counts the
descriptors, `handle` is how far `rados_create`, `rados_conf_read_file` (with
`rados_conf_parse_argv`), `rados_connect` and `rados_ioctx_create` have got,
`pool` what is under each name in the pool. `Open` may fail at any time without
being counted as a fault, since what the workspace holds is not in this module;
other failures count in `faults`. `Judge` is `sample_valid`'s verdict: with the
default generator it is whether the sample is the object asked for; with XORSHIFT,
which does not regenerate an object from its name (`Objects`), it may be either.
`asked` and `until` are history. The
seed taken from the clock when none was given is left out: no step depends on it.
A task's time of reference is its own reading of `time_benchmark`, after its own
set-up, so the records of two tasks count from different moments, and no property
compares them.

## Runs

| Run | Question | Answer |
|---|---|---|
| `trace` | Is the file the sequence of records? Can a request be lost? | It is, while the worker is less than a ring ahead; blocks reach the file and `trace_fini` returns, with failing `fopen`, `pthread_create` and `fwrite` |
| `trace_overrun` | Is every access recorded? | Not when the worker is a ring ahead (finding) |
| `barrier` | Is it a barrier, whatever runs came before or come after? | It implements the abstract one, its turnstile has one permit, nobody passes early, everybody who lives passes unless one is killed who owes the others something |
| `barrier_overlap` | And with two runs at their barriers at the same time? | No (finding) |
| `motif` | Is a whole run right? | Tasks start together, the workspace outlives them, what was written is found, the workspace implements the abstract one and is removed unless a call of its removal fails, and the run ends unless a process is lost before the barrier or in it |
| `motif_unread` | Is a failed read noticed? | Not by validation (finding) |
| `motif_home` | Is only the workspace erased? | Not when it cannot be entered (finding) |
| `objects` | Is an object accepted exactly when it is what was written? | Yes with the default generator, for every seed and every change |
| `objects_xorshift` | And with XORSHIFT? | No (finding) |
| `dirtree` | Do shared directories and the recursive removal work? | No write is lost; the removal ends, leaves nothing when nothing fails and there is no link, and stays inside the workspace where no link leads out and `getcwd` does not fail; the abstract workspace is implemented |
| `session` | Does a task do as it was asked, record its own times, and give back what it took, with each driver? | Yes, with options that `parse_opt` allows, and for the descriptors when no call fails; in CSV a time is never less than it was, and more when its fraction is less than a tenth |
| `session_options` | Is every option that is accepted as its message says? | No (finding) |

### Bounds

* `trace`: a ring of 5, blocks of 2, 8 accesses and one call of `trace_flush`.
  What matters is kept: the block does not divide the ring (as 204 does not divide
  65536, which leaves a shorter block at the end of each lap), there is more than
  one block to a lap, the ring wraps, requests coalesce, and every overrun is
  explored. The theorems remove the bounds for safety.
* `barrier`: four processes, one of which may be killed, and two in the other
  run, both of which may be. Every process takes each semaphore once, so more of
  them add no new kind of step; the theorems hold for any number in `Proc` and
  in `Other`, and any number of kills. The other run may come first, and come
  again and again. `Rounds` is 1, as in `motif_1`. A run that leaves a `b_num`
  smaller than the run's own is checked; larger ones are in the theorems.
  `barrier_overlap` needs two and two, and no kill.
* `motif`: two tasks, up to two objects written and three reads, so that the read
  index goes round and that one task can be ahead of the other; one fault or kill,
  anywhere; one leftover file, of any kind; any workspace. The theorems remove
  these bounds.
* `objects`: words of two four-bit bytes, samples of 4 to 7 bytes (two to four
  words, with and without a remainder), all 256 seeds, so that the counter also
  wraps inside an object; two objects, three reads, one change. The theorems
  remove these bounds.
* `dirtree`: two tasks with a common first directory, as tasks 0 and 65536 have,
  three objects of which two share the last directory; one failing call; one
  link, in the workspace itself; a listing can be open four times, as often as
  the tree is deep, so that `CleanAfter` can hold and the recursion that does
  not descend is seen to end at the limit. The theorems remove all but the least
  limit of four that `CleanAfter` needs.
* `session`: two of fourteen options, of every letter, with a negative, a zero and
  a legal count and with names in and out of the lists; an `unsigned` of 0 to 3, so
  that -1 is a large count; up to three objects and reads, with and without
  objects; two descriptors and two faults, so that the descriptors can run out; a
  second of a hundred nanoseconds (two digits, so that there is a zero to lose), a
  clock that starts just before a second and moves by 0, 30 or 75 until 250, so
  that differences borrow. The clock can stand still, so the limit stops no
  task. The pool may hold an object of an earlier run under the first name.
  The theorems remove all of these bounds.
* No run checks for deadlock: each system stops when it is done. That it stops
  only then is what `FiniReturns`, `EverybodyPasses`, `RunEnds` and
  `DestroyReturns` say.

### Fairness

* `TraceBuffer`: the flush thread, and the worker inside a call, are scheduled.
  Nothing makes the worker time another access or finish; spurious wake-ups and
  failing writes may happen and need not.
* `SharedBarrier`: nothing is assumed of the other run. A process of the run
  looked at inside `barrier_wait` is scheduled. Weak fairness is enough, also for
  `sem_wait`: each process takes each semaphore once, so a waiter that is not
  served is in the end the only one. Entering is not fair:
  `EverybodyPasses` is about the case that everybody does.
* `Motif`: a process that can run does. No system call has to fail, and no task
  has to be killed.
* `DirTree`: the parent and the tasks are scheduled. `Objects` and `Session` are
  sequential and their runs check safety only.

## Proofs

All theorems hold for every value of the constants allowed by `TraceAssumption`
(a ring of more than one slot, blocks of at least one record),
`BarrierAssumption` (a finite, non-empty set of processes), `SharedAssumption`
(the other run has a finite, non-empty set of processes), `MotifAssumption` and `DirTreeAssumption` (at
least one task, counts are counts), `TimespecAssumption` (a second has some number
of digits), `CommandLineAssumption` and `SessionAssumption` (types, and that an
`int` fits in an `unsigned`), `PrngAssumption` (a word has more than the six bits
it is rotated by, and there are the code's two generators) and `ObjectsAssumption`
(a word is whole bytes, the longest sample and half of it are whole words, a task
writes at least one object). What a theorem needs beyond them is in its statement:
one use of the barrier, runs that do not overlap, four directories open at a time,
the default generator, no more objects than it has words for. The inductive
invariants were first checked by TLC as invariants of the runs' models.

**`TraceBufferProofs`.** `RecordsInOrder`, `OnlyOutstanding`, `ExitComplete` and
`NoDataRace` are not inductive: they say nothing of the indices. `IInv` adds

* `RingInv`: the next index is the count of records modulo the ring, and the ring
  holds the last `NENT` records, but for the one being filled;
* `ControlInv`: what each place of the two threads implies, and that without an
  overrun fewer than `NENT` records are not in the file;
* `KeptInv`: under `Kept`, either the indices are the counts modulo the ring
  (`OnTrack`: what is planned is at most what was requested, and a flush request
  that was not taken has something to flush), or an exit request has found
  nothing outstanding and has the ring written again (`Redundant`).

The arithmetic is in lemmas: `ModUnique` and `ModShift` on remainders,
`SlotsDiffer` (records less than a ring apart have different slots, which is why
there is no data race), `FlushRange` (the range `trace_sync` works out, wrapped
or not, is what was requested and not written) and `Advance`. `FlushRange` needs
something outstanding and less than a ring of it: its two hypotheses are the two
ways in which the code goes wrong.

**`BarrierProofs`.** For one use. `IInv` says that the counter is the number of
processes counted, back to zero at the last (`CountInv`), that `b_mutex` guards
the section (`MutexInv`), what a place says of a process's counts (`PlaceInv`),
and that the turnstile's permit, held or posted, implies that everybody is
counted (`PermitInv`). The step that matters is the store: the count reaches
`b_num` exactly when the set of the counted becomes `Proc`, by the cardinality
of a subset. A killed process stays at its place for ever, where the invariant holds
of it as of one that is not scheduled. `Refinement` follows: the store is the abstract arrival, the
turnstile's `sem_wait` the abstract pass, every other step stutters.

**`SharedBarrierProofs`.** For one use, and runs that do not overlap: with
`Overlap` TRUE the properties are false (`barrier_overlap`). Each run has any number
of processes, which may be killed anywhere, and the other one may be started again,
before or after.
`SharedInv` says that the two runs are never both at their barriers, that `IInv`
holds while the run looked at is, and `OtherInv`, the like of it for processes
that may be dead, while the other is; a dead process can leave `b_mutex` taken for
ever and the counter at any value. Outside their own turn a run's variables say
only what `PlaceInv` and `OtherPlaces` say. When a run starts, `barrier_init`
overwrites counter and semaphores, which establishes its invariant again: this is
what `Barrier`'s `Init` assumes, here derived.

**`MotifProofs`.** For any number of tasks, objects, reads, faults, killed tasks
and any workspace. `IInv` is the type invariant with

* `BarrierInv`: who works has passed, who has passed knows that all have arrived,
  and a task that is not forked is unborn; it gives `StartTogether`;
* `ReapInv`: when the parent removes the workspace it has the end of every task,
  `reaped = Tasks`, and what is reaped stays gone; it gives `RemovedAfterUse`;
* `DiskInv`: without a workspace there are no objects;
* `EraseInv`: as long as no call of the removal has failed, what the loop has passed
  is gone, and it is in the workspace that it runs; it gives `WorkspaceRemoved`;
* `FoundInv`: with no fault, and only absent and whole files, the objects before a
  task's index are whole, all of them in the read loop, where the index is taken
  modulo the count (`ObjIdxRange`); it gives `NoFalseAlarm`.

For `WorkspaceRefined`, a task's steps are `Put` or stutter, because tasks that work
are not reaped; the parent's erasures are the `Remove`.

**`DirTreeProofs`.** For any number of tasks and objects, however their
directories coincide. Four invariants, each on top of the first:

* `BaseInv`: types, `Attached` (`mkdir` makes what it makes in a directory,
  `rmdir` removes none that holds something), and that tasks work only while the
  parent waits (`TasksFirst`);
* `BackInv` gives `StaysInside`. That the parent's directory is there is not
  inductive: `chdir` back must find its directory too. The ways back on the stack
  are directories that are there and go up, and what a step removes is below where
  the parent is, so that none of them is removed. A `chdir` that fails leaves the
  parent where it was, which keeps the order. The invariant, like the property,
  is only of runs in which no link leads out of the workspace (`LeadsOut`) and
  `getcwd` has not failed (`lost`): a link to the workspace is in the workspace,
  where all ways back lead to;
* `DemandInv` gives `CreatedOnDemand`. `Reached` says what a task has behind it:
  directories that it or another has made, none of which goes away while the
  parent waits, and what its first `open` found; its file is no other's, since the
  name has the task's identifier;
* `CleanInv` gives `CleanAfter`, from `Descent`: when nothing has failed each
  waiting call is one directory below the one before, and what is left in its
  directory is in the rest of its listing or is the entry it has entered
  (`HasEntered`). So a call that returns leaves its directory empty, and `rmdir`
  succeeds. It is of runs without links and faults, and needs `OpenMax >= 4`, the workspace and three levels below: with
  fewer, `opendir` runs into the limit, which counts as no fault, and the directory
  stays.

`WorkspaceRefined` follows from `BaseInv`: opening an absent file is `Put`,
filling it `Finish`, `unlink` the `Remove`.

**`PowerProofs`.** The library states induction of an operator, which no prover
here can instantiate; that the order of the naturals is well-founded it states of
sets. `Induction` is derived from it for a set that has 0 and is closed under
successor. `Iteration` follows: a function of a set to itself can be applied again
and again, so that there is a function that satisfies the equation of a recursive
definition, and the definition's `CHOOSE` picks one. `PowIs`, `DrawsAre` and
`XorTyped` are instances; `PowSum` and `PowProduct` add and multiply exponents.

**`SessionProofs`.** For any options, counts, descriptors, clock and faults. The
properties say nothing of the middle of an access, so `IInv` adds to them

* `LoopInv`: a place inside an access implies that the round exists and, for a
  read, that there are objects; this is what makes `Object` an index of the pool;
* `TimeInv`: the clock has not gone back since the last record, and `iop_start`
  was read after it; with `DeltaExact` it gives `RecordsExact`. The exception is
  `mkdir`, where `iop_start` is of an open that failed and is about to be read
  again;
* `DescriptorInv`: one descriptor more is open inside an access;
* `HandleInv`: the session with the cluster is up only between the set-up's last
  step and `worker_destroy`;
* `PoolInv`: without a fault every object written so far is whole in the pool,
  all of them when the reading begins, so that with the default generator what is
  read is accepted.

`AsAsked` speaks of the last option of a kind in a sequence of any length, where it
is one that `parse_opt`'s messages allow.
`OptionInv` says it so that a step preserves it: that option was accepted, and
parsing it once more would change nothing (`Heeded`). An option leaves the
arguments of the other kinds alone (`ParsedArgument`), and the new one is the last
of its kind (`GivenMore`).

`DeltaExact` says that the difference of two times is a proper time and exactly the
nanoseconds between them. The difference of two counts of nanoseconds is more than
minus a second, so the loop carries over once at most (`CarriesOnce`), and the
second it takes away is the `NSEC` nanoseconds it adds (`Distribute`).
`DeltaForward`: from an earlier time to a later one it is not negative, so the
formatter's conversion to `unsigned` does no harm.

`ZerosLost` says what the CSV output makes of the times recorded. A fraction that
loses its leading zeros is multiplied by the power of ten that makes it a tenth or
more; `LeadingZeros` finds that power, as the least element of a set of exponents,
and `Recorded` shows that what is recorded is a proper time.

**`ObjectsProofs`.** For words of any width above six bits, samples of any length,
any seed and any number of objects, reads and changes. `ValidExactly` is about the
operators alone and holds for either generator: each byte of a sample is one of a
whole word or of the last word's remainder (`Place`), each of these is compared
(`PlaceOf`), and the draws are the same ones in the same order (`DrawsAre`). What
distinguishes the generators is the name. With the counter, a generator seeded with
the number `prng_peek` gives is the generator it was asked of (`Reseeded`), so that
every object written is what its name generates (`Generated`), which with
`ValidExactly` is `ReadJudgedRight`. With XORSHIFT it is not (`objects_xorshift`).

`OthersRefused` keeps that from being empty: an object under another's name is
refused, so that an object can be taken for its index, as `Motif` takes it.
The first word of an object's data is the one after its name (`FirstWord`), which
its bytes determine (`SameBytes`, from `SameDigits`: numbers with the same digits
are the same).

`Stored` needs that names differ. An object takes at least one word and at most
`MostDraws` (`SampleCounts`), so the names of two objects of a task lie that far
apart for each object between them (`Spaced`), as does the generator (`NextSpaced`);
a name comes round again only after all words (`WrapDiffers`). Its hypothesis says
that there are enough of them: with 32-bit words and samples of 1536 bytes, for
eleven million objects. Beyond that an object can be refused as existing, by the
file of an object that is the same, since it has the same name: `JudgedRight` does
not need the hypothesis.

**Only model-checked:** liveness (`FiniReturns`, `BlocksReachFile`,
`EverybodyPasses`, `RunEnds`, `DestroyReturns`), which is out of TLAPS's reach here.
Every safety property that a passing run checks is a theorem. What the code does against
what is said of it, the findings, is shown by the runs' counterexamples only.

## Findings

1. A worker a ring ahead of the flush thread loses records silently
   (`trace_overrun`).
2. Two runs at the barrier at the same time are counted together: a process passes
   though the others of its run have not arrived (`barrier_overlap`).
3. An object that could not be read can be found valid (`motif_unread`).
4. When the workspace cannot be entered, the parent erases files of its own
   working directory (`motif_home`). The directory tree driver gives up there.
5. With XORSHIFT, objects are named after a number that does not regenerate them,
   and reported as not valid (`objects_xorshift`).
6. A negative count of writes or reads is accepted as a large one
   (`session_options`); in the same way a name in no list is accepted, and stands for
   the default driver or generator or for logging everything.

More are in the models as what the code does, without a run of their own:

* With nothing outstanding, `thisflush` is one past `nextflush`, which `trace_sync`
  takes for a wrap: the whole ring is written again, after the records. Only the
  exit request can find nothing outstanding (`OnlyOutstanding`), and does when the
  last record completed a block and that was flushed before `trace_fini`; on the
  first lap, when the number of records is a multiple of 204. The comment of
  `trace_sync` says that it flushes what is outstanding.
* The directory tree driver's removal follows a symbolic link to a directory out of
  the workspace, and unlinks what is named as an object there, which its comment,
  "Recursively remove files and directories in the workspace", does not say:
  `StaysInside` is stated where no link leads out.
* After a failed `trace_init`, `trace_fini` joins a thread that was never created.
* `trace_flush`, which nothing calls, does not move the flush marker, which is why
  `Kept` excludes it.
* The barrier's turnstile is left open: the barrier cannot be used a second time
  without `barrier_init`.
* A failed `fork` has the parent return and leaves the tasks forked before at the
  barrier for ever, as does a kill before the barrier, or in it by one that owes the
  others something: this is what `RunEnds` excuses (`Stranded`).
* The counts and the seed have no default.
* A call of the flat driver's removal that fails leaves entries, and with them the
  workspace, and the run still ends with status 0.
* The directory tree driver does not look at `getcwd`'s result, and after a failure
  goes back to where an unset buffer says.
* An access that fails after its `open` returns with the descriptor open
  (`DescriptorsReturned` bounds what is lost by the number of failures).
* When RADOS cannot be configured or connected to, the handle is not released. The
  pool is never emptied.
* In CSV the fraction of a second loses its leading zeros (`CsvOverstates`).

## State of the plan

Everything that was planned is done: `TraceBuffer`; `Barrier` over
`AbstractBarrier`, alone and with other runs in the shared memory; `Motif`,
`DirTree` and the workspace both implement; `Objects` over `Prng`; `Session` over
`Timespec` and `CommandLine`; the proofs of each, with the three refinements.

## Not modelled

* How trace records and log lines are spelled, and that log lines of two processes
  or of a task and its flush thread mix: nothing reads them back. What is read
  from a printed time is in `Timespec`.
* The build and the tests, which are a source of intent. The storage tests call
  functions that the code no longer has.
* `barrier_destroy`, `sample_destroy`, `sample_fini`, `prng_destroy` and
  `prng_fini`, which `motif_1` does not call, and `sample_select`, which has one
  sample to select.
* librados and the cluster: `rados_write_full` replaces an object whole or fails,
  before or after doing so; `rados_read` gives what is there or fails.
* What a workspace may hold besides: fifos, links to files and links that lead
  nowhere (`stat` fails for the last, as for an entry that is gone), more than one
  link, links deeper in the tree or under the names that tasks use, and outside the
  workspace anything but one flat directory with a file that is named as an object:
  the one link is enough for the removal to go out of the workspace or round in it.
* The result of the recorder's `fclose`, which the code ignores: the file of
  `TraceBuffer` is what `fwrite` accepted.
