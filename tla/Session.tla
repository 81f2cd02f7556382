------------------------------- MODULE Session -------------------------------
(***************************************************************************)
(* What one task's user gets to see, from the command line to the trace:   *)
(* the options choose a driver (module CommandLine), the driver is set up, *)
(* and every access is timed (module Timespec) and traced.  A system call, *)
(* a call of librados and a reading of the clock are each a step.  The     *)
(* directories, the other tasks and the parent are in Motif and DirTree;   *)
(* the objects of the RADOS driver (storage_rados.c) are here, and the     *)
(* file descriptors of the two file drivers.                               *)
(***************************************************************************)
EXTENDS CommandLine, Timespec, Sequences

CONSTANTS
  Options,    \* the options that may be given, as pairs
  MaxOptions, \* at most so many are given
  Garbage,    \* what the stack may hold where no default is set
  FdMax,      \* the descriptors the task may have open (RLIMIT_NOFILE)
  Starts,     \* the clock when the task starts, and the time that may go by
  Steps,      \* before a reading of it, in nanoseconds
  MaxTime,    \* the clock stops there
  Leftovers,  \* what an earlier run may have left of an object in the pool
  MaxFaults   \* at most this many calls fail of themselves

VARIABLES
  pc,         \* where the task is
  phase,      \* the loop it is in: "write" or "read"
  args,       \* struct motif_arguments
  asked,      \* history: the options given, in order, until they are used
  driver,     \* storage, in storage.c
  prng,       \* PRNG, in prng.c
  level,      \* L.level, in log.c
  handle,     \* storage_rados_data and storage_rados_ctx
  pool,       \* the objects in the pool, by index (RADOS)
  sample,     \* the object the sample S holds
  verdict,    \* the last read and what sample_valid said (RADOS)
  i,          \* the loop counter
  fds,        \* the descriptors open
  now,        \* the clock
  time_benchmark, iop_start,      \* as in the code
  rec,        \* the last record traced
  until,      \* history: when the last access traced, or the making of
              \* directories, was over
  faults      \* history: how many faults there have been

optVars == <<args, asked, driver, prng, level>>
storeVars == <<handle, pool, sample, verdict, fds>>
loopVars == <<phase, i>>
timeVars == <<now, time_benchmark, iop_start, rec, until>>
vars == <<pc, phase, args, asked, driver, prng, level, handle, pool, sample, verdict, fds,
          i, now, time_benchmark, iop_start, rec, until, faults>>

ASSUME SessionAssumption ==
  /\ MaxOptions \in Nat /\ MaxTime \in Nat /\ MaxFaults \in Nat
  /\ Starts \subseteq 0 .. MaxTime /\ Steps \subseteq Nat
  /\ FdMax \in Nat \ {0}
  /\ \A o \in Options : o[1] \in Numbers => o[2] \in 1 - UINTS .. UINTS - 1  \* atoi's
  /\ \A g \in Garbage : {g.c, g.n} \subseteq 0 .. UINTS - 1
  /\ Leftovers \subseteq {"absent", "whole", "junk"}

Objs == 0 .. UINTS - 1
Junk == -1

NoRecord == [op |-> "none", ts |-> TimeNow(0), dur |-> TimeNow(0)]
NoVerdict == [held |-> "absent", accepted |-> FALSE]

Init ==
  /\ pc = "options" /\ phase = "write"
  /\ \E g \in Garbage : args = Defaults(g)
  /\ asked = <<>>
  /\ driver = "DEBUG" /\ prng = "DEBUG" /\ level = LogLevel.TRACE
  /\ handle = "none"
  /\ \E l \in Leftovers : pool = [o \in Objs |-> IF o = 0 THEN l ELSE "absent"]
  /\ sample = Junk /\ verdict = NoVerdict
  /\ i = 0 /\ fds = 0
  /\ now \in Starts
  /\ time_benchmark = TimeNow(0) /\ iop_start = TimeNow(0)
  /\ rec = NoRecord /\ until = 0
  /\ faults = 0

Goto(place) == pc' = place

Fault == faults < MaxFaults /\ faults' = faults + 1
NoFault == UNCHANGED faults

\* A reading of CLOCK_MONOTONIC, some time after the last one.
Clock ==
  /\ now' \in {now} \cup {now + d : d \in Steps}
  /\ now' <= MaxTime

-----------------------------------------------------------------------------
(* main: the options, and the drivers they name. *)

Option(o) ==
  /\ pc = "options"
  /\ Len(asked) < MaxOptions
  /\ asked' = Append(asked, o)
  /\ IF Rejected(o) THEN Goto("rejected") /\ UNCHANGED args
                    ELSE UNCHANGED pc /\ args' = ParseOpt(args, o)
  /\ NoFault
  /\ UNCHANGED <<driver, prng, level, storeVars, loopVars, timeVars>>

\* Mutant: the defaults are set when the options have been read.
SelectDefaults ==
  /\ pc = "options"
  /\ Goto("selected")
  /\ driver' = "DEBUG" /\ prng' = PrngSelect(args.r) /\ level' = LogSetLevel(args.v)
  /\ NoFault
  /\ UNCHANGED <<args, asked, storeVars, loopVars, timeVars>>

\* log_set_level, storage_select and prng_select.
SelectDrivers ==
  /\ pc = "options"
  /\ Goto("selected")
  /\ driver' = StorageSelect(args.S) /\ prng' = PrngSelect(args.r)
  /\ level' = LogSetLevel(args.v)
  /\ NoFault
  /\ UNCHANGED <<args, asked, storeVars, loopVars, timeVars>>

\* The barrier, and the task's set-up but its driver's: the vector of the
\* objects' names may be more memory than there is.
Start ==
  /\ pc = "selected"
  /\ \/ Goto("create") /\ NoFault
     \/ Goto("returned") /\ Fault
  /\ asked' = <<>>
  /\ UNCHANGED <<args, driver, prng, level, storeVars, loopVars, timeVars>>

-----------------------------------------------------------------------------
(* storage_worker_create and storage_worker_destroy. *)

\* The file drivers: chdir.
WorkerCreate ==
  /\ pc = "create" /\ driver # "RADOS"
  /\ \/ Goto("ready") /\ NoFault
     \/ Goto("returned") /\ Fault
  /\ UNCHANGED <<optVars, storeVars, loopVars, timeVars>>

\* rados_create, rados_conf_read_file and rados_conf_parse_argv, rados_connect.
\* A failure returns at once: the handle is left as it is.
RadosConnect ==
  /\ pc = "create" /\ driver = "RADOS" /\ handle # "connected"
  /\ \/ /\ NoFault /\ UNCHANGED pc
        /\ handle' = CASE handle = "none" -> "created"
                       [] handle = "created" -> "configured"
                       [] handle = "configured" -> "connected"
     \/ Fault /\ Goto("returned") /\ UNCHANGED handle
  /\ UNCHANGED <<optVars, pool, sample, verdict, fds, loopVars, timeVars>>

\* Mutant: the last failure returns like the others.
RadosIoctxLeavesSession ==
  /\ pc = "create" /\ handle = "connected"
  /\ \/ NoFault /\ Goto("ready") /\ handle' = "open"
     \/ Fault /\ Goto("returned") /\ UNCHANGED handle
  /\ UNCHANGED <<optVars, pool, sample, verdict, fds, loopVars, timeVars>>

\* rados_ioctx_create: when it fails the session with the cluster is shut down.
RadosIoctx ==
  /\ pc = "create" /\ handle = "connected"
  /\ \/ NoFault /\ Goto("ready") /\ handle' = "open"
     \/ Fault /\ Goto("returned") /\ handle' = "shutdown"
  /\ UNCHANGED <<optVars, pool, sample, verdict, fds, loopVars, timeVars>>

\* storage_rados_worker_destroy; the file drivers' does nothing.
WorkerDestroy ==
  /\ pc = "destroy"
  /\ Goto("returned")
  /\ handle' = IF driver = "RADOS" THEN "shutdown" ELSE handle
  /\ NoFault
  /\ UNCHANGED <<optVars, pool, sample, verdict, fds, loopVars, timeVars>>

-----------------------------------------------------------------------------
(* run_motif's two loops. *)

\* time_now( &time_benchmark )
Benchmark ==
  /\ pc = "ready"
  /\ Goto("loop")
  /\ Clock /\ time_benchmark' = TimeNow(now')
  /\ NoFault
  /\ UNCHANGED <<optVars, storeVars, loopVars, iop_start, rec, until>>

\* Mutant: one round too many.
MoreRoundsInclusive == i <= IF phase = "write" THEN args.c ELSE args.n

\* The loop has rounds left.
MoreRounds == i < IF phase = "write" THEN args.c ELSE args.n

\* The object of this round.
Object == IF phase = "write" THEN i ELSE i % args.c

\* A round begins: time_now( &iop_start ).  The sample of a round of the write
\* loop is new.  Without objects i % 0 is a fault.
Begin ==
  /\ pc = "loop" /\ MoreRounds
  /\ Goto(IF phase = "read" /\ args.c = 0 THEN "crashed" ELSE "open")
  /\ sample' = IF phase = "write" THEN i ELSE sample
  /\ Clock /\ iop_start' = TimeNow(now')
  /\ NoFault
  /\ UNCHANGED <<optVars, handle, pool, verdict, fds, loopVars, time_benchmark, rec, until>>

\* The loop is left, and the clock is read for its report.
LoopDone ==
  /\ pc = "loop" /\ ~MoreRounds
  /\ IF phase = "write" THEN phase' = "read" /\ UNCHANGED pc
                        ELSE Goto("destroy") /\ UNCHANGED phase
  /\ i' = 0
  /\ Clock
  /\ NoFault
  /\ UNCHANGED <<optVars, storeVars, time_benchmark, iop_start, rec, until>>

\* An access returns, with an error or without one, to the loop, which does not
\* look at its result.
Return == Goto("loop") /\ i' = i + 1 /\ UNCHANGED phase

Proceed(place) == Goto(place) /\ UNCHANGED loopVars

\* sample_valid, after a read that found the object like that.  Seeded with its
\* name the default generator generates the object; XORSHIFT does not, and what
\* it does generate is in module Objects: here it may be anything.
Judge(held) ==
  \E said \in IF prng = "DEBUG" THEN {sample' = Object} ELSE BOOLEAN :
    verdict' = [held |-> held, accepted |-> said]

-----------------------------------------------------------------------------
(* The file drivers' storage_write and storage_read, call by call. *)

\* open, which may also fail because of what the workspace holds (modules Motif
\* and DirTree).  After its first failure for a write the directory tree driver
\* makes the directories; any other failure is the access's.
Open ==
  /\ pc \in {"open", "retry"} /\ driver # "RADOS"
  /\ \/ fds < FdMax /\ fds' = fds + 1 /\ Proceed("transfer")
     \/ /\ IF driver = "DIRTREE" /\ phase = "write" /\ pc = "open"
             THEN Proceed("mkdir")
             ELSE Return
        /\ UNCHANGED fds
  /\ NoFault
  /\ UNCHANGED <<optVars, handle, pool, sample, verdict, timeVars>>

\* Mutant: the time of the directories is the access's.
RetryKeepsStart ==
  /\ pc = "mkdir"
  /\ Proceed("retry")
  /\ Clock /\ until' = now'
  /\ NoFault
  /\ UNCHANGED <<optVars, storeVars, time_benchmark, iop_start, rec>>

\* storage_dirtree_pathgen, and time_now( &iop_start ) again.
Retry ==
  /\ pc = "mkdir"
  /\ Proceed("retry")
  /\ Clock /\ iop_start' = TimeNow(now') /\ until' = now'
  /\ NoFault
  /\ UNCHANGED <<optVars, storeVars, time_benchmark, rec>>

\* write, or fstat and read: an error returns with the descriptor still open.
Transfer ==
  /\ pc = "transfer"
  /\ \/ NoFault /\ Proceed("close")
     \/ Fault /\ Return
  /\ UNCHANGED <<optVars, storeVars, timeVars>>

\* Mutant: the descriptor is not closed.
CloseNot ==
  /\ pc = "close"
  /\ NoFault /\ Proceed("trace")
  /\ UNCHANGED <<optVars, storeVars, loopVars, timeVars>>

\* close: the descriptor is gone, also when it reports an error.
Close ==
  /\ pc = "close"
  /\ fds' = fds - 1
  /\ \/ NoFault /\ Proceed("trace")
     \/ Fault /\ Return
  /\ UNCHANGED <<optVars, handle, pool, sample, verdict, timeVars>>

-----------------------------------------------------------------------------
(* The RADOS driver's. *)

\* Mutant: rados_write, which leaves the rest of a longer object.
AfterWriteOver(held) == IF held = "junk" THEN "junk" ELSE "whole"

\* rados_write_full: the object is replaced.
AfterWrite(held) == "whole"

\* When it fails, it may have been done or not.
RadosWrite ==
  /\ pc = "open" /\ phase = "write" /\ driver = "RADOS"
  /\ \/ /\ NoFault /\ Proceed("trace")
        /\ pool' = [pool EXCEPT ![i] = AfterWrite(@)]
     \/ /\ Fault /\ Return
        /\ pool' \in {pool, [pool EXCEPT ![i] = AfterWrite(@)]}
  /\ UNCHANGED <<optVars, handle, sample, verdict, fds, timeVars>>

\* rados_read, of at most SAMPLE_LEN_MAX bytes: a longer object is cut short,
\* and does not fail the assertion of the file drivers.  After an error the
\* sample is validated as it is.
RadosRead ==
  /\ pc = "open" /\ phase = "read" /\ driver = "RADOS"
  /\ \/ /\ pool[Object] # "absent"
        /\ NoFault /\ Proceed("trace")
        /\ UNCHANGED <<i, sample, verdict>>
     \/ /\ IF pool[Object] = "absent" THEN NoFault ELSE Fault
        /\ Return
        /\ UNCHANGED sample /\ Judge("error")
  /\ UNCHANGED <<optVars, handle, pool, fds, timeVars>>

-----------------------------------------------------------------------------
\* The end of an access that succeeded: time_now( &iop_end ), the two
\* differences and the record; a read is then put in the sample and validated.
Trace ==
  /\ pc = "trace"
  /\ Clock
  /\ rec' = [op |-> phase, ts |-> TimeDelta(time_benchmark, iop_start),
             dur |-> TimeDelta(iop_start, TimeNow(now'))]
  /\ until' = now'
  /\ IF phase = "read" /\ driver = "RADOS"
       THEN /\ sample' = IF pool[Object] = "whole" THEN Object ELSE Junk
            /\ Judge(pool[Object])
       ELSE UNCHANGED <<sample, verdict>>
  /\ Return
  /\ NoFault
  /\ UNCHANGED <<optVars, handle, pool, fds, time_benchmark, iop_start>>

-----------------------------------------------------------------------------
Next ==
  \/ (\E o \in Options : Option(o)) \/ SelectDrivers \/ Start
  \/ WorkerCreate \/ RadosConnect \/ RadosIoctx \/ WorkerDestroy
  \/ Benchmark \/ Begin \/ LoopDone
  \/ Open \/ Retry \/ Transfer \/ Close \/ RadosWrite \/ RadosRead \/ Trace

Spec == Init /\ [][Next]_vars

-----------------------------------------------------------------------------
(* Properties. *)

\* Every variable keeps its type; no loop counter passes its bound, whatever the
\* counts are.
TypeOK ==
  /\ pc \in {"options", "rejected", "selected", "create", "ready", "loop", "open",
             "mkdir", "retry", "transfer", "close", "trace", "destroy", "returned",
             "crashed"}
  /\ phase \in {"write", "read"}
  /\ driver \in Names.S /\ prng \in Names.r /\ level \in -1 .. LogLevel.FATAL
  /\ handle \in {"none", "created", "configured", "connected", "open", "shutdown"}
  /\ pool \in [Objs -> {"absent", "whole", "junk"}]
  /\ sample \in Objs \cup {Junk}
  /\ fds \in 0 .. FdMax
  /\ i \in 0 .. IF phase = "write" THEN args.c ELSE args.n
  /\ now \in 0 .. MaxTime
  /\ {time_benchmark, iop_start} \subseteq Timespec
  /\ faults \in 0 .. MaxFaults

Given(key) == {k \in DOMAIN asked : asked[k][1] = key}
LastGiven(key) == asked[CHOOSE k \in Given(key) : \A l \in Given(key) : l <= k][2]

\* What main uses of a name.
Used(key) == IF key = "S" THEN driver ELSE prng

\* A task does what the last option of each kind said, wherever the others are
\* and whatever was given before it, and an option that is not given is the
\* default (parse_opt, storage_select, prng_select, log_set_level).  What is made
\* of a last option that parse_opt's messages forbid is not said here.
AsAsked ==
  pc = "selected" =>
    /\ \A key \in Numbers :
         Given(key) # {} /\ LastGiven(key) > 0 => args[key] = LastGiven(key)
    /\ \A key \in {"S", "r"} :
         /\ Given(key) = {} => Used(key) = "DEBUG"
         /\ Given(key) # {} /\ LastGiven(key) \in Names[key] => Used(key) = LastGiven(key)
    /\ LET least == IF Given("v") = {} THEN "DEBUG" ELSE LastGiven("v")
       IN least \in Names.v =>
            \A severity \in Names.v :
              Logged(severity, level) <=> LogLevel[severity] >= LogLevel[least]

\* The records of a task are apart from one another and from the making of
\* directories, each begins and ends when its access did, and their fields are
\* proper times (time_delta, storage_*_write, storage_*_read).
RecordsApart ==
  [][rec' # rec =>
       LET began == Ns(time_benchmark) + Ns(rec'.ts)
       IN /\ {rec'.ts, rec'.dur} \subseteq Timespec
          /\ began >= until
          /\ began + Ns(rec'.dur) = until']_vars

\* In CSV a time is never less than it was, and it is what it was from a tenth
\* of a second on only: a shorter rest of a second loses its zeros (csv_trace).
CsvOverstates ==
  \A t \in {rec.ts, rec.dur} :
    /\ CsvValue(t) >= TextValue(t)
    /\ CsvValue(t) = TextValue(t) <=> (t.nsec = 0 \/ t.nsec * 10 >= NSEC)

\* Descriptors do not run out over a long run: between accesses each one that is
\* open was left by a call that failed (storage_debug_write and the others).
DescriptorsReturned ==
  pc \in {"loop", "destroy", "returned"} => fds <= faults

\* A task that has returned has no session with the cluster open, whichever call
\* of its set-up failed (storage_rados_worker_create).
SessionShutDown == pc = "returned" => handle \notin {"connected", "open"}

\* What an earlier run left under an object's name does no harm: without a fault,
\* and with the default generator, every object read back is accepted
\* (storage_rados_write and read; the pool is never emptied, so there are leftovers).
LeftoversReplaced ==
  driver = "RADOS" /\ prng = "DEBUG" /\ faults = 0 /\ phase = "read" /\ i > 0 =>
    verdict.accepted

-----------------------------------------------------------------------------
(* What the messages of parse_opt say, and it does not do. *)

\* "Write count must be greater than 0", "Storage must be one of %s", and so of the
\* other counts, the seed and the other names: a run goes on only if each option
\* that was given is as its message says.
OptionsChecked ==
  pc = "selected" =>
    \A k \in DOMAIN asked :
      IF asked[k][1] \in Numbers THEN asked[k][2] > 0 ELSE asked[k][2] \in Names[asked[k][1]]
=============================================================================
