-------------------------------- MODULE Motif --------------------------------
(***************************************************************************)
(* The life of one motif_1 run (motif_1.c) with the file-based storage     *)
(* driver of storage/storage_debug.c: the parent prepares the workspace,   *)
(* forks its tasks, meets them at the barrier, waits for them all and      *)
(* removes the workspace; each task writes its objects, then reads them    *)
(* back and validates them.                                                *)
(*                                                                         *)
(* barrier_wait is the AbstractBarrier that module Barrier implements, and  *)
(* as there a process killed in it may leave the others waiting.  A        *)
(* process's system calls on files nobody else names are one step.  The    *)
(* generator is the default one, which generates an object when it is      *)
(* seeded with its identifier (XORSHIFT does not: module Objects); an      *)
(* object is told apart from the others by its index.                      *)
(***************************************************************************)
EXTENDS Integers, FiniteSets

CONSTANTS
  TaskCount,    \* task_count
  WriteCounts,  \* values object_write_count may have: positive when -c is
                \* given, whatever the stack holds when it is not
  MaxWrites,    \* none is larger (object_write_count is an unsigned)
  ReadCount,    \* object_read_count
  MaxFaults,    \* at most this many system calls fail or tasks are killed
  Leftovers,    \* what an earlier run may have left of an object of this one
  Workspaces,   \* what may be at the workspace's path before the run
  Foreigners,   \* what nobody's run created may be in the workspace
  Homes         \* the regular files the parent's working directory may hold

ASSUME MotifAssumption ==
  /\ TaskCount \in Nat \ {0}
  /\ MaxWrites \in Nat \ {0}
  /\ WriteCounts \subseteq 0 .. MaxWrites
  /\ ReadCount \in Nat
  /\ MaxFaults \in Nat
  /\ Leftovers \subseteq {"absent", "whole", "junk", "huge"}
  /\ Workspaces \subseteq {"none", "dir", "file"}
  /\ Foreigners \subseteq {"none", "file", "dir"}
  /\ Homes \subseteq SUBSET {"object", "other"}

VARIABLES
  parent,       \* where the parent is
  forked,       \* the tasks forked so far
  reaped,       \* the tasks wait() has returned
  bp,           \* the barrier: "ok", or "null" when barrier_init failed
  arrivals, passes,           \* the barrier's state (module AbstractBarrier)
  stuck,        \* a process was killed in barrier_wait where it owed the others
                \* a semaphore (Owing of module Barrier)
  workspace,    \* what is at the workspace's path
  foreign,      \* what nobody's run created in the workspace
  disk,         \* each object's file
  home,         \* the regular files in the parent's working directory
  todo,         \* the entries of the workspace readdir has yet to return
  flawed,       \* a call of the workspace's removal has failed
  writes,       \* object_write_count
  task,         \* where each task is
  index,        \* each task's loop counter
  sample,       \* the object each task's sample S holds
  verdict,      \* the last read of each task, and what sample_valid said of it
  faults        \* how many faults there have been

barrierVars == <<bp, arrivals, passes, stuck>>
parentVars == <<parent, forked, reaped>>
removalVars == <<home, todo, flawed>>
storeVars == <<workspace, foreign, disk, removalVars>>
taskVars == <<task, index, sample, verdict>>
vars == <<parent, forked, reaped, bp, arrivals, passes, stuck, workspace, foreign, disk,
          home, todo, flawed, writes, task, index, sample, verdict, faults>>

Parent == -1
Tasks == 0 .. TaskCount - 1
Procs == Tasks \cup {Parent}

Bar == INSTANCE AbstractBarrier WITH Proc <- Procs, Rounds <- 1

Objs == 0 .. MaxWrites - 1

\* A sample that is no object of this run: the one sample_create generates,
\* or what a truncated or foreign file held.
Junk == -1

NoVerdict == [ok |-> FALSE, held |-> "absent", accepted |-> FALSE]

Init ==
  /\ parent = "create" /\ forked = 0 /\ reaped = {}
  /\ bp = "ok" /\ Bar!Init /\ stuck = FALSE
  /\ workspace \in Workspaces
  /\ foreign \in IF workspace = "dir" THEN Foreigners ELSE {"none"}
  /\ \E l \in Tasks \X Objs, c \in IF workspace = "dir" THEN Leftovers ELSE {"absent"} :
       disk = [o \in Tasks \X Objs |-> IF o = l THEN c ELSE "absent"]
  /\ home \in Homes /\ todo = {} /\ flawed = FALSE
  /\ writes \in WriteCounts
  /\ task = [t \in Tasks |-> "unborn"]
  /\ index = [t \in Tasks |-> 0]
  /\ sample = [t \in Tasks |-> Junk]
  /\ verdict = [t \in Tasks |-> NoVerdict]
  /\ faults = 0

Fault == faults < MaxFaults /\ faults' = faults + 1

NoFault == UNCHANGED faults

Goto(t, place) == task' = [task EXCEPT ![t] = place]

-----------------------------------------------------------------------------
(* The parent. *)

\* storage_driver_create: a missing workspace is created, an existing one,
\* whatever it is, is only warned about.
DriverCreate ==
  /\ parent = "create"
  /\ parent' = "init"
  /\ workspace' = IF workspace = "none" THEN "dir" ELSE workspace
  /\ NoFault
  /\ UNCHANGED <<forked, reaped, barrierVars, foreign, disk, removalVars, writes, taskVars>>

\* stat, mkdir or strndup fails: the last leaves the workspace behind.
DriverCreateFails ==
  /\ parent = "create"
  /\ Fault
  /\ parent' = "exit1"
  /\ workspace' \in {workspace, IF workspace = "none" THEN "dir" ELSE workspace}
  /\ UNCHANGED <<forked, reaped, barrierVars, foreign, disk, removalVars, writes, taskVars>>

\* barrier_init, whose result is not looked at.
BarrierInit ==
  /\ parent = "init"
  /\ parent' = "fork"
  /\ \/ bp' = "ok" /\ NoFault
     \/ bp' = "null" /\ Fault
  /\ UNCHANGED <<forked, reaped, arrivals, passes, stuck, storeVars, writes, taskVars>>

\* fork: a task starts in run_motif.
Fork ==
  /\ parent = "fork"
  /\ forked < TaskCount
  /\ forked' = forked + 1
  /\ Goto(forked, "born")
  /\ NoFault
  /\ UNCHANGED <<parent, reaped, barrierVars, storeVars, writes, index, sample, verdict>>

\* fork fails: the parent returns at once.
ForkFails ==
  /\ parent = "fork"
  /\ forked < TaskCount
  /\ Fault
  /\ parent' = "exit1"
  /\ UNCHANGED <<forked, reaped, barrierVars, storeVars, writes, taskVars>>

\* Mutant: the parent is counted at the barrier but does not go there.
ParentSkipsBarrier ==
  /\ parent = "fork"
  /\ forked = TaskCount
  /\ parent' = "wait"
  /\ NoFault
  /\ UNCHANGED <<forked, reaped, barrierVars, storeVars, writes, taskVars>>

\* barrier_wait; on a barrier that is not there the process crashes.
ParentArrive ==
  /\ parent = "fork"
  /\ forked = TaskCount
  /\ IF bp = "ok" THEN parent' = "barrier" /\ Bar!Arrive(Parent)
                  ELSE parent' = "crashed" /\ UNCHANGED <<arrivals, passes>>
  /\ NoFault
  /\ UNCHANGED <<forked, reaped, bp, stuck, storeVars, writes, taskVars>>

ParentPass ==
  /\ parent = "barrier"
  /\ ~stuck /\ Bar!Pass(Parent)
  /\ parent' = "wait"
  /\ NoFault
  /\ UNCHANGED <<forked, reaped, bp, stuck, storeVars, writes, taskVars>>

Gone == {"exited", "crashed"}

\* wait() returns a task that has ended ...
WaitReap(t) ==
  /\ parent = "wait"
  /\ task[t] \in Gone
  /\ t \notin reaped
  /\ reaped' = reaped \cup {t}
  /\ NoFault
  /\ UNCHANGED <<parent, forked, barrierVars, storeVars, writes, taskVars>>

\* Mutant: one child's end is taken for all of them.
WaitFirst ==
  /\ parent = "wait"
  /\ reaped # {}
  /\ parent' = "destroy"
  /\ NoFault
  /\ UNCHANGED <<forked, reaped, barrierVars, storeVars, writes, taskVars>>

\* ... and fails with ECHILD when there is none left.
WaitDone ==
  /\ parent = "wait"
  /\ reaped = Tasks
  /\ parent' = "destroy"
  /\ NoFault
  /\ UNCHANGED <<forked, reaped, barrierVars, storeVars, writes, taskVars>>

\* Another program's file or directory among the workspace's entries.
ForeignEntry == <<Parent, 0>>

\* Mutant: only objects this run has written are looked for.
EntriesWritten ==
  {o \in DOMAIN disk : disk[o] # "absent" /\ o[2] < writes}
    \cup (IF foreign = "none" THEN {} ELSE {ForeignEntry})

\* The entries of the workspace.
Entries ==
  {o \in DOMAIN disk : disk[o] # "absent"}
    \cup (IF foreign = "none" THEN {} ELSE {ForeignEntry})

\* storage_driver_destroy: chdir to the workspace and opendir.
EnterWorkspace ==
  /\ parent = "destroy"
  /\ workspace = "dir"
  /\ parent' = "erase"
  /\ todo' = Entries
  /\ NoFault
  /\ UNCHANGED <<forked, reaped, barrierVars, workspace, foreign, disk, home, flawed, writes,
                 taskVars>>

\* opendir fails, and nothing is erased.
OpendirFails ==
  /\ parent = "destroy"
  /\ workspace = "dir"
  /\ Fault
  /\ parent' = "rmdir"
  /\ flawed' = TRUE
  /\ UNCHANGED <<forked, reaped, barrierVars, workspace, foreign, disk, home, todo, writes,
                 taskVars>>

\* chdir fails, which is not looked at: the erasure will be of the parent's
\* working directory.
ChdirFails ==
  /\ parent = "destroy"
  /\ parent' = "stray"
  /\ IF workspace = "dir" THEN Fault /\ flawed' = TRUE ELSE NoFault /\ UNCHANGED flawed
  /\ UNCHANGED <<forked, reaped, barrierVars, workspace, foreign, disk, home, todo, writes,
                 taskVars>>

\* One round of the readdir loop: a regular file is unlinked if it is named as
\* an object, and if it is not the parent aborts; directories are left.
EraseEntry(e) ==
  /\ parent = "erase"
  /\ e \in todo
  /\ todo' = todo \ {e}
  /\ parent' = IF e = ForeignEntry /\ foreign = "file" THEN "crashed" ELSE "erase"
  /\ disk' = IF e = ForeignEntry THEN disk ELSE [disk EXCEPT ![e] = "absent"]
  /\ NoFault
  /\ UNCHANGED <<forked, reaped, barrierVars, workspace, foreign, home, flawed, writes,
                 taskVars>>

\* stat fails, and the loop goes on, or unlink does, which is not looked at.
EraseFails(e) ==
  /\ parent = "erase"
  /\ e \in todo
  /\ Fault
  /\ todo' = todo \ {e}
  /\ flawed' = TRUE
  /\ UNCHANGED <<parent, forked, reaped, barrierVars, workspace, foreign, disk, home, writes,
                 taskVars>>

EraseDone ==
  /\ parent = "erase"
  /\ todo = {}
  /\ parent' = "rmdir"
  /\ NoFault
  /\ UNCHANGED <<forked, reaped, barrierVars, storeVars, writes, taskVars>>

\* The same loop in the parent's working directory, up to the first regular file
\* that is not named as an object; the last choice is that a call of it fails.
EraseHome ==
  /\ parent = "stray"
  /\ \/ /\ "other" \in home /\ NoFault
        /\ parent' = "crashed" /\ home' \in {home, home \ {"object"}}
     \/ /\ "other" \notin home /\ NoFault
        /\ parent' = "rmdir" /\ home' = {}
     \/ /\ Fault
        /\ parent' = "rmdir" /\ home' \in {home, home \ {"object"}}
  /\ UNCHANGED <<forked, reaped, barrierVars, workspace, foreign, disk, todo, flawed, writes,
                 taskVars>>

\* rmdir, from the directory the run was started in, and the end of main.
Rmdir ==
  /\ parent = "rmdir"
  /\ parent' = "exit0"
  /\ workspace' = IF workspace = "dir" /\ Entries = {} THEN "none" ELSE workspace
  /\ NoFault
  /\ UNCHANGED <<forked, reaped, barrierVars, foreign, disk, removalVars, writes, taskVars>>

\* rmdir fails, or the chdir back before it: it is only logged.
RmdirFails ==
  /\ parent = "rmdir"
  /\ Fault
  /\ parent' = "exit0"
  /\ flawed' = TRUE
  /\ UNCHANGED <<forked, reaped, barrierVars, workspace, foreign, disk, home, todo, writes,
                 taskVars>>

-----------------------------------------------------------------------------
(* A task: run_motif. *)

TaskArrive(t) ==
  /\ task[t] = "born"
  /\ IF bp = "ok" THEN Goto(t, "barrier") /\ Bar!Arrive(t)
                  ELSE Goto(t, "crashed") /\ UNCHANGED <<arrivals, passes>>
  /\ NoFault
  /\ UNCHANGED <<parentVars, bp, stuck, storeVars, writes, index, sample, verdict>>

\* Mutant: the task does not wait for the others.
TaskRunsAhead(t) ==
  /\ task[t] = "barrier"
  /\ Goto(t, "setup")
  /\ NoFault
  /\ UNCHANGED <<parentVars, barrierVars, storeVars, writes, index, sample, verdict>>

TaskPass(t) ==
  /\ task[t] = "barrier"
  /\ ~stuck /\ Bar!Pass(t)
  /\ Goto(t, "setup")
  /\ NoFault
  /\ UNCHANGED <<parentVars, bp, stuck, storeVars, writes, index, sample, verdict>>

\* malloc, trace_init, prng_create, sample_create and storage_worker_create,
\* which enters the workspace.
Setup(t) ==
  /\ task[t] = "setup"
  /\ workspace = "dir"
  /\ Goto(t, "write")
  /\ NoFault
  /\ UNCHANGED <<parentVars, barrierVars, storeVars, writes, index, sample, verdict>>

\* The vector of identifiers cannot be allocated.
SetupFails(t) ==
  /\ task[t] = "setup"
  /\ Fault
  /\ Goto(t, "exited")
  /\ UNCHANGED <<parentVars, barrierVars, storeVars, writes, index, sample, verdict>>

\* The workspace cannot be entered: the task removes it, if it is empty.
WorkerCreateFails(t) ==
  LET empty == foreign = "none" /\ \A o \in DOMAIN disk : disk[o] = "absent"
  IN /\ task[t] = "setup"
     /\ IF workspace = "dir" THEN Fault ELSE NoFault
     /\ Goto(t, "exited")
     /\ workspace' = IF workspace = "dir" /\ empty THEN "none" ELSE workspace
     /\ UNCHANGED <<parentVars, barrierVars, foreign, disk, removalVars, writes, index,
                    sample, verdict>>

\* storage_write: create the file, fill it, close it.  The file must not exist.
\* Its result is not looked at.
StorageWrite(t, o) ==
  \/ /\ workspace = "dir" /\ disk[o] = "absent"
     /\ disk' = [disk EXCEPT ![o] = "whole"]
     /\ NoFault
  \/ /\ workspace # "dir" \/ disk[o] # "absent"
     /\ NoFault
     /\ UNCHANGED disk
  \/ /\ workspace = "dir" /\ disk[o] = "absent"
     /\ \E c \in {"absent", "junk", "whole"} : disk' = [disk EXCEPT ![o] = c]
     /\ Fault

\* One round of the write loop.
Write(t) ==
  /\ task[t] = "write"
  /\ index[t] < writes
  /\ sample' = [sample EXCEPT ![t] = index[t]]
  /\ StorageWrite(t, <<t, index[t]>>)
  /\ index' = [index EXCEPT ![t] = @ + 1]
  /\ UNCHANGED <<parentVars, barrierVars, workspace, foreign, removalVars, writes, task,
                 verdict>>

WritesDone(t) ==
  /\ task[t] = "write"
  /\ index[t] = writes
  /\ Goto(t, "read")
  /\ index' = [index EXCEPT ![t] = 0]
  /\ NoFault
  /\ UNCHANGED <<parentVars, barrierVars, storeVars, writes, sample, verdict>>

\* Mutant: one round too many.
MoreReadsInclusive(t) == index[t] <= ReadCount

\* The read loop has rounds left.
MoreReads(t) == index[t] < ReadCount

\* The object a round of the read loop reads.
ObjIdx(i) == i % writes

\* Mutant: the generator is not seeded again, and goes on from the last object.
RegeneratedUnseeded(i) == i

\* The object that sample_valid generates from obj_id[obj_idx] to compare with.
Regenerated(i) == ObjIdx(i)

\* sample_read: what the sample holds after a file is read into it.
SampleRead(held, o) == IF held = "whole" THEN o ELSE Junk

\* One round of the read loop, when storage_read succeeds.
Read(t) ==
  LET i == ObjIdx(index[t])
      held == disk[<<t, i>>]
  IN /\ task[t] = "read"
     /\ MoreReads(t) /\ writes > 0
     /\ held \in {"whole", "junk"} /\ workspace = "dir"
     /\ sample' = [sample EXCEPT ![t] = SampleRead(held, i)]
     /\ verdict' = [verdict EXCEPT ![t] =
                      [ok |-> TRUE, held |-> held,
                       accepted |-> sample'[t] = Regenerated(index[t])]]
     /\ index' = [index EXCEPT ![t] = @ + 1]
     /\ NoFault
     /\ UNCHANGED <<parentVars, barrierVars, storeVars, writes, task>>

\* One round when storage_read fails, which is not looked at: the sample is
\* validated as it is.
ReadFails(t) ==
  LET i == ObjIdx(index[t])
      held == disk[<<t, i>>]
  IN /\ task[t] = "read"
     /\ MoreReads(t) /\ writes > 0
     /\ IF held = "absent" \/ workspace # "dir" THEN NoFault ELSE Fault
     /\ verdict' = [verdict EXCEPT ![t] =
                      [ok |-> FALSE, held |-> held,
                       accepted |-> sample[t] = Regenerated(index[t])]]
     /\ index' = [index EXCEPT ![t] = @ + 1]
     /\ UNCHANGED <<parentVars, barrierVars, storeVars, writes, task, sample>>

\* A file longer than any sample fails an assertion; i % 0 is a fault.
ReadCrashes(t) ==
  /\ task[t] = "read"
  /\ MoreReads(t)
  /\ \/ writes = 0
     \/ writes > 0 /\ workspace = "dir" /\ disk[<<t, ObjIdx(index[t])>>] = "huge"
  /\ Goto(t, "crashed")
  /\ NoFault
  /\ UNCHANGED <<parentVars, barrierVars, storeVars, writes, index, sample, verdict>>

\* trace_fini and storage_worker_destroy.
ReadsDone(t) ==
  /\ task[t] = "read"
  /\ index[t] = ReadCount
  /\ Goto(t, "exited")
  /\ NoFault
  /\ UNCHANGED <<parentVars, barrierVars, storeVars, writes, index, sample, verdict>>

\* A task is killed from outside, anywhere.  In barrier_wait, whose last statement
\* comes after the passing, it may owe the others a semaphore; in the middle of
\* a write it leaves a truncated file.
Kill(t) ==
  /\ task[t] \in {"born", "barrier", "setup", "write", "read"}
  /\ Fault
  /\ Goto(t, "crashed")
  /\ stuck' \in IF task[t] \in {"barrier", "setup"} THEN {stuck, TRUE} ELSE {stuck}
  /\ \/ UNCHANGED disk
     \/ /\ task[t] = "write" /\ index[t] < writes
        /\ workspace = "dir" /\ disk[<<t, index[t]>>] = "absent"
        /\ disk' = [disk EXCEPT ![<<t, index[t]>>] = "junk"]
  /\ UNCHANGED <<parentVars, bp, arrivals, passes, workspace, foreign, removalVars, writes,
                 index, sample, verdict>>

\* The parent is killed, anywhere; its tasks go on without it.
KillParent ==
  /\ parent \notin {"exit0", "exit1", "crashed"}
  /\ Fault
  /\ parent' = "crashed"
  /\ stuck' \in IF parent \in {"barrier", "wait"} THEN {stuck, TRUE} ELSE {stuck}
  /\ UNCHANGED <<forked, reaped, bp, arrivals, passes, storeVars, writes, taskVars>>

-----------------------------------------------------------------------------
ParentStep ==
  \/ DriverCreate \/ BarrierInit \/ Fork \/ ParentArrive \/ ParentPass
  \/ (\E t \in Tasks : WaitReap(t)) \/ WaitDone
  \/ EnterWorkspace \/ ChdirFails \/ (\E e \in todo : EraseEntry(e)) \/ EraseDone
  \/ EraseHome \/ Rmdir

TaskStep(t) ==
  \/ TaskArrive(t) \/ TaskPass(t) \/ Setup(t) \/ WorkerCreateFails(t)
  \/ Write(t) \/ WritesDone(t)
  \/ Read(t) \/ ReadFails(t) \/ ReadCrashes(t) \/ ReadsDone(t)

Next ==
  \/ ParentStep \/ DriverCreateFails \/ ForkFails
  \/ OpendirFails \/ (\E e \in todo : EraseFails(e)) \/ RmdirFails
  \/ KillParent
  \/ \E t \in Tasks : TaskStep(t) \/ SetupFails(t) \/ Kill(t)

Spec == Init /\ [][Next]_vars

\* Every process that can run is scheduled; no system call has to fail.
FairSpec == Spec /\ WF_vars(ParentStep) /\ \A t \in Tasks : WF_vars(TaskStep(t))

-----------------------------------------------------------------------------
(* Properties. *)

\* Every variable keeps its type; no loop counter passes its bound.
TypeOK ==
  /\ parent \in {"create", "init", "fork", "barrier", "wait", "destroy", "erase", "stray",
                 "rmdir", "exit0", "exit1", "crashed"}
  /\ forked \in 0 .. TaskCount
  /\ reaped \subseteq Tasks
  /\ bp \in {"ok", "null"}
  /\ arrivals \in [Procs -> 0 .. 1] /\ passes \in [Procs -> 0 .. 1]
  /\ stuck \in BOOLEAN
  /\ workspace \in {"none", "dir", "file"}
  /\ foreign \in {"none", "file", "dir"}
  /\ disk \in [Tasks \X Objs -> {"absent", "whole", "junk", "huge"}]
  /\ home \subseteq {"object", "other"}
  /\ todo \subseteq (Tasks \X Objs) \cup {ForeignEntry}
  /\ flawed \in BOOLEAN
  /\ writes \in WriteCounts
  /\ task \in [Tasks -> {"unborn", "born", "barrier", "setup", "write", "read",
                         "exited", "crashed"}]
  /\ index \in [Tasks -> Nat]
  /\ \A t \in Tasks : index[t] <= writes \/ index[t] <= ReadCount
  /\ sample \in [Tasks -> Objs \cup {Junk}]
  /\ verdict \in [Tasks -> [ok : BOOLEAN,
                            held : {"absent", "whole", "junk", "huge"},
                            accepted : BOOLEAN]]
  /\ faults \in 0 .. MaxFaults

Working == {"setup", "write", "read"}

\* The benchmark is concurrent: no task touches the storage before every task
\* has been forked and has reached the barrier (main, run_motif).
StartTogether ==
  (\E t \in Tasks : task[t] \in Working) => \A t \in Tasks : arrivals[t] = 1

Removal == {"destroy", "erase", "stray", "rmdir", "exit0"}

\* The workspace is not taken away under a task: when the parent starts to
\* remove it every task has ended (main's wait loop).
RemovedAfterUse ==
  parent \in Removal => \A t \in Tasks : task[t] \in Gone

\* In a workspace the run created, and with no fault, every object read back
\* was found and accepted, through both loops (with the default generator).
NoFalseAlarm ==
  (faults = 0 /\ writes > 0 /\ workspace = "dir" /\ foreign = "none"
     /\ \A o \in DOMAIN disk : disk[o] \in {"absent", "whole"}) =>
    \A t \in Tasks : task[t] = "read" /\ index[t] > 0 => verdict[t].accepted

\* Nothing but a failing call of the removal itself keeps a workspace with only
\* objects in it: what failed writes, killed tasks and earlier runs have left is
\* erased with the rest (storage_driver_destroy).
WorkspaceRemoved ==
  parent = "exit0" /\ foreign = "none" /\ ~flawed =>
    workspace # "dir" /\ \A o \in DOMAIN disk : disk[o] = "absent"

\* The abstract workspace's variables: the removal begins with the parent's
\* wait at its end, and a crash then is one of the removal.
Removing == parent \in Removal \/ (parent = "crashed" /\ reaped = Tasks)
Held == [o \in Tasks \X Objs |-> IF disk[o] = "junk" THEN "part" ELSE disk[o]]

WS == INSTANCE AbstractWorkspace WITH
        Object <- Tasks \X Objs, removing <- Removing, held <- Held, open <- {}

\* The workspace is used as the abstract one: no object is put over another, or
\* changed by anything but its removal, and none is put when that has begun
\* (storage_debug_write, storage_debug_driver_destroy, main).
WorkspaceKept == WS!Spec

\* The process is gone without having come to the end of its work.
Lost(p) == IF p = Parent THEN parent \in {"exit1", "crashed"} ELSE task[p] = "crashed"

\* Somebody waits at the barrier, and somebody was lost before it or killed in it.
Stranded ==
  /\ parent = "barrier" \/ \E t \in Tasks : task[t] = "barrier"
  /\ stuck \/ \E p \in Procs : Lost(p) /\ arrivals[p] = 0

Ended ==
  /\ parent \in {"exit0", "exit1", "crashed"}
  /\ \A t \in Tasks : task[t] \in Gone \cup {"unborn"}

\* The run ends, whoever fails or is killed anywhere, unless that is before the
\* barrier or in it and others wait there: the parent's wait and the tasks'
\* waiting at the barrier are never for each other.
RunEnds == <>(Stranded \/ Ended)

-----------------------------------------------------------------------------
(* What comments and documentation say, and the code does not do. *)

\* "Each process will read and validate this number of objects": an object
\* that could not be read is not found valid.
UnreadNotAccepted == \A t \in Tasks : verdict[t].accepted => verdict[t].ok

\* "Deallocate the workspace": nothing else is.
HomeKept == home \in Homes
=============================================================================
