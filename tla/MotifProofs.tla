----------------------------- MODULE MotifProofs -----------------------------
(***************************************************************************)
(* Motif's safety properties, for any number of tasks, objects, reads and  *)
(* faults and for every workspace; and that a run uses its workspace as    *)
(* AbstractWorkspace says.                                                 *)
(***************************************************************************)
EXTENDS Motif, TLAPS

-----------------------------------------------------------------------------
(* The inductive invariant. *)

\* Nobody runs who has not passed the barrier, and nobody has passed it while
\* somebody had not arrived; the loops begin at 0.
BarrierInv ==
  /\ \A t \in Tasks : task[t] \in Working => passes[t] = 1
  /\ \A p \in Procs : passes[p] = 1 => \A q \in Procs : arrivals[q] = 1
  /\ \A t \in Tasks : task[t] \notin {"write", "read", "exited", "crashed"} => index[t] = 0
  /\ \A t \in Tasks : t >= forked => task[t] = "unborn"

\* Tasks are forked after the parent's set-up; it waits for them after the
\* barrier, and has the end of each of them when it removes the workspace.
ReapInv ==
  /\ parent \in {"create", "init"} => \A t \in Tasks : task[t] = "unborn"
  /\ parent \in {"create", "init", "fork", "barrier"} => reaped = {}
  /\ parent \in Removal => reaped = Tasks
  /\ \A t \in reaped : task[t] \in Gone

\* Where there is no workspace there are no objects.
DiskInv == workspace # "dir" => \A o \in DOMAIN disk : disk[o] = "absent"

\* What the readdir loop has passed is gone, unless a call failed; it runs in the
\* parent's directory only when there is no workspace or a call failed.
EraseInv ==
  ~flawed =>
    /\ parent = "erase" => \A o \in DOMAIN disk : disk[o] = "absent" \/ o \in todo
    /\ parent = "stray" => workspace # "dir"
    /\ parent = "rmdir" /\ workspace = "dir" => \A o \in DOMAIN disk : disk[o] = "absent"

\* With no fault, and no file that no run of as many objects could have left,
\* what a task has written is there, and what it has read was accepted.
FoundInv ==
  faults = 0 /\ writes > 0 /\ workspace = "dir"
    /\ (\A o \in DOMAIN disk : disk[o] \in {"absent", "whole"}) =>
  \A t \in Tasks :
    /\ task[t] = "write" => \A i \in Objs : i < index[t] => disk[<<t, i>>] = "whole"
    /\ task[t] = "read" => /\ \A i \in Objs : i < writes => disk[<<t, i>>] = "whole"
                           /\ index[t] > 0 => verdict[t].accepted

IInv ==
  /\ TypeOK /\ BarrierInv /\ ReapInv /\ DiskInv /\ FoundInv
  /\ EraseInv /\ WorkspaceRemoved

-----------------------------------------------------------------------------
(* What the constants have to do with arithmetic. *)

LEMMA Bounds ==
  /\ TaskCount \in Nat /\ TaskCount > 0 /\ MaxWrites \in Nat /\ MaxWrites > 0
  /\ ReadCount \in Nat /\ MaxFaults \in Nat
  /\ Tasks = 0 .. TaskCount - 1 /\ Procs = Tasks \cup {-1} /\ Parent = -1
  /\ Objs = 0 .. MaxWrites - 1 /\ Junk = -1 /\ WriteCounts \subseteq 0 .. MaxWrites
  BY MotifAssumption DEF Tasks, Procs, Parent, Objs, Junk

\* The object a round of the read loop reads is one the task has written.
LEMMA ObjIdxRange ==
  ASSUME NEW n \in WriteCounts, n > 0, NEW i \in Nat
  PROVE  i % n \in Objs /\ i % n < n
  BY Bounds

\* A task takes no object for a sample that is none.
LEMMA JunkIsNoObject == Junk \notin Objs
  BY Bounds

\* barrier_wait's two halves, for a barrier that is used once.
LEMMA ArriveOnce ==
  ASSUME TypeOK, NEW p \in Procs, Bar!Arrive(p)
  PROVE  /\ arrivals[p] = 0 /\ arrivals' = [arrivals EXCEPT ![p] = 1] /\ passes' = passes
         /\ arrivals' \in [Procs -> 0 .. 1] /\ passes' \in [Procs -> 0 .. 1]
<1>1. arrivals \in [Procs -> 0 .. 1] /\ passes \in [Procs -> 0 .. 1]
  BY DEF TypeOK
<1>2. arrivals[p] < 1 /\ arrivals' = [arrivals EXCEPT ![p] = @ + 1] /\ passes' = passes
  BY DEF Bar!Arrive
<1>3. arrivals[p] = 0
  BY <1>1, <1>2
<1> QED
  BY <1>1, <1>2, <1>3

LEMMA PassOnce ==
  ASSUME TypeOK, NEW p \in Procs, Bar!Pass(p)
  PROVE  /\ \A q \in Procs : arrivals[q] = 1
         /\ passes' = [passes EXCEPT ![p] = 1] /\ arrivals' = arrivals
         /\ arrivals' \in [Procs -> 0 .. 1] /\ passes' \in [Procs -> 0 .. 1]
<1>1. arrivals \in [Procs -> 0 .. 1] /\ passes \in [Procs -> 0 .. 1]
  BY DEF TypeOK
<1>2. /\ passes[p] < arrivals[p] /\ \A q \in Procs : passes[p] < arrivals[q]
      /\ passes' = [passes EXCEPT ![p] = @ + 1] /\ arrivals' = arrivals
  BY DEF Bar!Pass
<1>3. passes[p] = 0
  BY <1>1, <1>2
<1> QED
  BY <1>1, <1>2, <1>3

\* What a round of the read loop writes down, whether or not the file was read.
LEMMA VerdictTyped ==
  ASSUME TypeOK, NEW t \in Tasks, Read(t) \/ ReadFails(t)
  PROVE  verdict' \in [Tasks -> [ok : BOOLEAN, held : {"absent", "whole", "junk", "huge"},
                                 accepted : BOOLEAN]]
<1> DEFINE i == ObjIdx(index[t])
<1>1. i \in Objs
  BY ObjIdxRange DEF TypeOK, Read, ReadFails, ObjIdx
<1>2. disk[<<t, i>>] \in {"absent", "whole", "junk", "huge"}
  BY <1>1 DEF TypeOK
<1>3. verdict \in [Tasks -> [ok : BOOLEAN, held : {"absent", "whole", "junk", "huge"},
                             accepted : BOOLEAN]]
  BY DEF TypeOK
<1> HIDE DEF i
<1>4. PICK okay \in BOOLEAN, said \in BOOLEAN :
        verdict' = [verdict EXCEPT ![t] =
                      [ok |-> okay, held |-> disk[<<t, i>>], accepted |-> said]]
  <2>1. CASE Read(t)
    <3> DEFINE said == sample'[t] = Regenerated(index[t])
    <3>1. said \in BOOLEAN
      OBVIOUS
    <3>2. verdict' = [verdict EXCEPT ![t] =
                        [ok |-> TRUE, held |-> disk[<<t, i>>], accepted |-> said]]
      BY <2>1 DEF Read, i
    <3> QED
      BY <3>1, <3>2
  <2>2. CASE ReadFails(t)
    <3> DEFINE said == sample[t] = Regenerated(index[t])
    <3>1. said \in BOOLEAN
      OBVIOUS
    <3>2. verdict' = [verdict EXCEPT ![t] =
                        [ok |-> FALSE, held |-> disk[<<t, i>>], accepted |-> said]]
      BY <2>2 DEF ReadFails, i
    <3> QED
      BY <3>1, <3>2
  <2> QED
    BY <2>1, <2>2
<1> QED
  BY <1>2, <1>3, <1>4

\* A read that succeeds finds the object looked for exactly when the file is whole.
LEMMA ReadFinds ==
  ASSUME TypeOK, NEW t \in Tasks, Read(t)
  PROVE  /\ verdict' = [verdict EXCEPT ![t] = verdict'[t]]
         /\ verdict'[t].held = disk[<<t, ObjIdx(index[t])>>]
         /\ verdict'[t].accepted <=> verdict'[t].held = "whole"
<1> DEFINE i == ObjIdx(index[t])
           said == sample'[t] = i
<1>1. i \in Objs
  BY ObjIdxRange DEF TypeOK, Read, ObjIdx
<1>2. sample'[t] = SampleRead(disk[<<t, i>>], i)
  BY DEF TypeOK, Read
<1>3. said <=> disk[<<t, i>>] = "whole"
  BY <1>1, <1>2, JunkIsNoObject DEF SampleRead
<1>4. verdict' = [verdict EXCEPT ![t] =
                    [ok |-> TRUE, held |-> disk[<<t, i>>], accepted |-> said]]
  BY DEF Read, Regenerated
<1>5. verdict'[t] = [ok |-> TRUE, held |-> disk[<<t, i>>], accepted |-> said]
  BY <1>4 DEF TypeOK
<1>6. verdict' = [verdict EXCEPT ![t] = verdict'[t]]
  BY <1>4, <1>5
<1>7. verdict'[t].held = disk[<<t, i>>]
  BY <1>5
<1>8. verdict'[t].accepted = said
  BY <1>5
<1>9. verdict'[t].accepted <=> disk[<<t, i>>] = "whole"
  BY <1>3, <1>8, Zenon
<1> QED
  BY <1>6, <1>7, <1>9

LEMMA InitIInv == Init => IInv
<1> SUFFICES ASSUME Init PROVE IInv
  OBVIOUS
<1>1. PICK l \in Tasks \X Objs, c \in IF workspace = "dir" THEN Leftovers ELSE {"absent"} :
        disk = [o \in Tasks \X Objs |-> IF o = l THEN c ELSE "absent"]
  BY DEF Init
<1>2. c \in {"absent", "whole", "junk", "huge"}
  BY MotifAssumption
<1>3. TypeOK
  <2>1. arrivals \in [Procs -> 0 .. 1] /\ passes \in [Procs -> 0 .. 1]
    BY DEF Init, Bar!Init
  <2>2. disk \in [Tasks \X Objs -> {"absent", "whole", "junk", "huge"}]
    BY <1>1, <1>2
  <2>3. foreign \in {"none", "file", "dir"} /\ workspace \in {"none", "dir", "file"}
    BY MotifAssumption DEF Init
  <2>4. home \subseteq {"object", "other"}
    BY MotifAssumption DEF Init
  <2>5. verdict \in [Tasks -> [ok : BOOLEAN, held : {"absent", "whole", "junk", "huge"},
                               accepted : BOOLEAN]]
    BY DEF Init, NoVerdict
  <2>6. /\ writes \in WriteCounts /\ writes \in Nat
        /\ index \in [Tasks -> Nat] /\ \A t \in Tasks : index[t] <= writes
    BY Bounds DEF Init
  <2>7. sample \in [Tasks -> Objs \cup {Junk}] /\ reaped \subseteq Tasks
    BY DEF Init
  <2>8. /\ parent = "create" /\ forked \in 0 .. TaskCount /\ bp = "ok" /\ faults \in 0 .. MaxFaults
        /\ task \in [Tasks -> {"unborn"}]
    BY Bounds DEF Init
  <2> QED
    <3>1. todo = {} /\ flawed = FALSE /\ stuck = FALSE
      BY DEF Init
    <3> QED
      BY <2>1, <2>2, <2>3, <2>4, <2>5, <2>6, <2>7, <2>8, <3>1 DEF TypeOK
<1>4. BarrierInv
  BY DEF Init, BarrierInv, Working, Bar!Init
<1>5. ReapInv
  BY DEF Init, ReapInv, Removal
<1>6. DiskInv
  BY <1>1 DEF DiskInv
<1>7. FoundInv
  BY DEF Init, FoundInv
<1>8. EraseInv
  BY DEF Init, EraseInv
<1>9. WorkspaceRemoved
  BY DEF Init, WorkspaceRemoved
<1> QED
  BY <1>3, <1>4, <1>5, <1>6, <1>7, <1>8, <1>9 DEF IInv

\* No action disturbs a type.
LEMMA TypeStep == IInv /\ [Next]_vars => TypeOK'
<1> SUFFICES ASSUME IInv, [Next]_vars PROVE TypeOK'
  OBVIOUS
<1> USE DEF IInv, Fault, NoFault, Goto, barrierVars, parentVars, storeVars, removalVars, taskVars, TypeOK
<1>1. CASE DriverCreate
  BY <1>1, Bounds DEF DriverCreate
<1>2. CASE DriverCreateFails
  BY <1>2, Bounds DEF DriverCreateFails
<1>3. CASE BarrierInit
  BY <1>3, Bounds DEF BarrierInit
<1>4. CASE Fork
  BY <1>4, Bounds DEF Fork
<1>5. CASE ForkFails
  BY <1>5, Bounds DEF ForkFails
<1>6. CASE ParentArrive
  BY <1>6, ArriveOnce, Bounds DEF ParentArrive
<1>7. CASE ParentPass
  BY <1>7, PassOnce, Bounds DEF ParentPass
<1>8. CASE WaitDone
  BY <1>8, Bounds DEF WaitDone
<1>9. CASE EnterWorkspace
  <2>1. todo' \subseteq (Tasks \X Objs) \cup {ForeignEntry}
    BY <1>9 DEF EnterWorkspace, Entries
  <2> QED
    BY <1>9, <2>1 DEF EnterWorkspace
<1>10. CASE OpendirFails
  BY <1>10, Bounds DEF OpendirFails
<1>11. CASE ChdirFails
  <2>1. faults' \in 0 .. MaxFaults
    BY <1>11, Bounds DEF ChdirFails
  <2>2. flawed' \in BOOLEAN
    BY <1>11, Zenon DEF ChdirFails
  <2> QED
    BY <1>11, <2>1, <2>2 DEF ChdirFails
<1>12. CASE EraseDone
  BY <1>12, Bounds DEF EraseDone
<1>13. CASE EraseHome
  <2>1. faults' \in 0 .. MaxFaults
    BY <1>13, Bounds DEF EraseHome
  <2>2. home' \subseteq {"object", "other"}
    BY <1>13 DEF EraseHome
  <2>3. parent' \in {"crashed", "rmdir"}
    BY <1>13 DEF EraseHome
  <2> QED
    BY <1>13, <2>1, <2>2, <2>3 DEF EraseHome
<1>14. CASE Rmdir
  BY <1>14, Bounds DEF Rmdir
<1>15. CASE RmdirFails
  BY <1>15, Bounds DEF RmdirFails
<1>16. CASE KillParent
  <2>1. faults' \in 0 .. MaxFaults
    BY <1>16, Bounds DEF KillParent
  <2>2. stuck' \in BOOLEAN
    BY <1>16, Zenon DEF KillParent
  <2> QED
    BY <1>16, <2>1, <2>2 DEF KillParent
<1>17. ASSUME NEW e \in todo, EraseEntry(e) PROVE TypeOK'
  BY <1>17, Bounds DEF EraseEntry
<1>18. ASSUME NEW e \in todo, EraseFails(e) PROVE TypeOK'
  BY <1>18, Bounds DEF EraseFails
<1>19. ASSUME NEW t \in Tasks, WaitReap(t) PROVE TypeOK'
  BY <1>19, Bounds DEF WaitReap
<1>20. ASSUME NEW t \in Tasks, TaskArrive(t) PROVE TypeOK'
  <2>1. CASE bp = "ok"
    <3>1. Bar!Arrive(t) /\ t \in Procs
      BY <1>20, <2>1, Bounds DEF TaskArrive
    <3>2. /\ arrivals[t] = 0 /\ arrivals' = [arrivals EXCEPT ![t] = 1] /\ passes' = passes
          /\ arrivals' \in [Procs -> 0 .. 1] /\ passes' \in [Procs -> 0 .. 1]
      BY <3>1, ArriveOnce
    <3>3. task' = [task EXCEPT ![t] = "barrier"]
      BY <1>20, <2>1 DEF TaskArrive
    <3> QED
      BY <1>20, <3>2, <3>3, Bounds DEF TaskArrive
  <2>2. CASE bp # "ok"
    BY <1>20, <2>2, Bounds DEF TaskArrive
  <2> QED
    BY <2>1, <2>2
<1>21. ASSUME NEW t \in Tasks, TaskPass(t) PROVE TypeOK'
  BY <1>21, PassOnce, Bounds DEF TaskPass
<1>22. ASSUME NEW t \in Tasks, Setup(t) PROVE TypeOK'
  BY <1>22, Bounds DEF Setup
<1>23. ASSUME NEW t \in Tasks, SetupFails(t) PROVE TypeOK'
  BY <1>23, Bounds DEF SetupFails
<1>24. ASSUME NEW t \in Tasks, WorkerCreateFails(t) PROVE TypeOK'
  <2>1. task' = [task EXCEPT ![t] = "exited"] /\ workspace' \in {"none", "dir", "file"}
    BY <1>24 DEF WorkerCreateFails
  <2>2. faults' \in 0 .. MaxFaults
    BY <1>24, Bounds DEF WorkerCreateFails
  <2> QED
    BY <1>24, <2>1, <2>2 DEF WorkerCreateFails
<1>25. ASSUME NEW t \in Tasks, Write(t) PROVE TypeOK'
  <2>1. index[t] \in Objs /\ index[t] < writes /\ writes \in Nat /\ <<t, index[t]>> \in Tasks \X Objs
    BY <1>25, Bounds DEF Write
  <2>2. disk' \in [Tasks \X Objs -> {"absent", "whole", "junk", "huge"}] /\ faults' \in 0 .. MaxFaults
    <3>1. PICK c \in {"absent", "whole", "junk"} :
            disk' = disk \/ disk' = [disk EXCEPT ![<<t, index[t]>>] = c]
      BY <1>25 DEF Write, StorageWrite
    <3>2. disk' \in [Tasks \X Objs -> {"absent", "whole", "junk", "huge"}]
      BY <2>1, <3>1
    <3>3. faults' \in 0 .. MaxFaults
      BY <1>25, Bounds DEF Write, StorageWrite
    <3> QED
      BY <3>2, <3>3
  <2>3. index' \in [Tasks -> Nat] /\ \A u \in Tasks : index'[u] <= writes \/ index'[u] <= ReadCount
    BY <1>25, <2>1, Bounds DEF Write
  <2> QED
    BY <1>25, <2>1, <2>2, <2>3 DEF Write
<1>26. ASSUME NEW t \in Tasks, WritesDone(t) PROVE TypeOK'
  BY <1>26, Bounds DEF WritesDone
<1>27. ASSUME NEW t \in Tasks, Read(t) PROVE TypeOK'
  <2>1. index[t] < ReadCount /\ index[t] \in Nat /\ ObjIdx(index[t]) \in Objs
    BY <1>27, ObjIdxRange DEF Read, MoreReads, ObjIdx
  <2>2. sample' \in [Tasks -> Objs \cup {Junk}]
    BY <1>27, <2>1 DEF Read, SampleRead
  <2>3. index' \in [Tasks -> Nat] /\ \A u \in Tasks : index'[u] <= writes \/ index'[u] <= ReadCount
    BY <1>27, <2>1, Bounds DEF Read
  <2> QED
    <3>1. verdict' \in [Tasks -> [ok : BOOLEAN, held : {"absent", "whole", "junk", "huge"},
                                  accepted : BOOLEAN]]
      BY <1>27, VerdictTyped
    <3> QED
      BY <1>27, <2>2, <2>3, <3>1 DEF Read
<1>28. ASSUME NEW t \in Tasks, ReadFails(t) PROVE TypeOK'
  <2>1. index[t] < ReadCount /\ index[t] \in Nat /\ ObjIdx(index[t]) \in Objs
    BY <1>28, ObjIdxRange DEF ReadFails, MoreReads, ObjIdx
  <2>2. sample' \in [Tasks -> Objs \cup {Junk}]
    BY <1>28, <2>1 DEF ReadFails, SampleRead
  <2>3. index' \in [Tasks -> Nat] /\ \A u \in Tasks : index'[u] <= writes \/ index'[u] <= ReadCount
    BY <1>28, <2>1, Bounds DEF ReadFails
  <2> QED
    <3>1. verdict' \in [Tasks -> [ok : BOOLEAN, held : {"absent", "whole", "junk", "huge"},
                                  accepted : BOOLEAN]]
      BY <1>28, VerdictTyped
    <3>2. faults' \in 0 .. MaxFaults
      BY <1>28, Bounds DEF ReadFails
    <3> QED
      BY <1>28, <2>2, <2>3, <3>1, <3>2 DEF ReadFails
<1>29. ASSUME NEW t \in Tasks, ReadCrashes(t) PROVE TypeOK'
  BY <1>29, Bounds DEF ReadCrashes
<1>30. ASSUME NEW t \in Tasks, ReadsDone(t) PROVE TypeOK'
  BY <1>30, Bounds DEF ReadsDone
<1>31. ASSUME NEW t \in Tasks, Kill(t) PROVE TypeOK'
  <2>1. faults' \in 0 .. MaxFaults /\ task' \in [Tasks -> {"unborn", "born", "barrier", "setup",
                                               "write", "read", "exited", "crashed"}]
    BY <1>31, Bounds DEF Kill
  <2>2. disk' \in [Tasks \X Objs -> {"absent", "whole", "junk", "huge"}]
    BY <1>31 DEF Kill
  <2> QED
    BY <1>31, <2>1, <2>2 DEF Kill
<1>32. CASE UNCHANGED vars
  BY <1>32 DEF vars
<1> QED
  BY <1>1, <1>2, <1>3, <1>4, <1>5, <1>6, <1>7, <1>8, <1>9, <1>10, <1>11, <1>12, <1>13, <1>14, <1>15, <1>16, <1>17, <1>18, <1>19, <1>20, <1>21, <1>22, <1>23, <1>24, <1>25, <1>26, <1>27, <1>28, <1>29, <1>30, <1>31, <1>32 DEF Next, ParentStep, TaskStep

\* Nobody passes the barrier early.
LEMMA BarrierStep == IInv /\ [Next]_vars => BarrierInv'
<1> SUFFICES ASSUME IInv, [Next]_vars PROVE BarrierInv'
  OBVIOUS
<1> USE DEF IInv, Fault, NoFault, Goto, barrierVars, parentVars, storeVars, removalVars, taskVars, TypeOK, BarrierInv, Working
<1>1. CASE DriverCreate
  BY <1>1, Bounds DEF DriverCreate
<1>2. CASE DriverCreateFails
  BY <1>2, Bounds DEF DriverCreateFails
<1>3. CASE BarrierInit
  BY <1>3, Bounds DEF BarrierInit
<1>4. CASE Fork
  BY <1>4, Bounds DEF Fork
<1>5. CASE ForkFails
  BY <1>5, Bounds DEF ForkFails
<1>6. CASE ParentArrive
  <2>1. CASE bp = "ok"
    <3>1. Bar!Arrive(Parent) /\ Parent \in Procs
      BY <1>6, <2>1, Bounds DEF ParentArrive
    <3>2. arrivals[Parent] = 0 /\ arrivals' = [arrivals EXCEPT ![Parent] = 1] /\ passes' = passes
      BY <3>1, ArriveOnce
    <3> QED
      BY <1>6, <3>2 DEF ParentArrive
  <2>2. CASE bp # "ok"
    BY <1>6, <2>2 DEF ParentArrive
  <2> QED
    BY <2>1, <2>2
<1>7. CASE ParentPass
  <2>1. Bar!Pass(Parent) /\ Parent \in Procs
    BY <1>7, Bounds DEF ParentPass
  <2>2. /\ \A q \in Procs : arrivals[q] = 1
        /\ passes' = [passes EXCEPT ![Parent] = 1] /\ arrivals' = arrivals
    BY <2>1, PassOnce
  <2> QED
    BY <1>7, <2>1, <2>2, Bounds DEF ParentPass
<1>8. CASE WaitDone
  BY <1>8, Bounds DEF WaitDone
<1>9. CASE EnterWorkspace
  BY <1>9, Bounds DEF EnterWorkspace
<1>10. CASE OpendirFails
  BY <1>10, Bounds DEF OpendirFails
<1>11. CASE ChdirFails
  BY <1>11, Bounds DEF ChdirFails
<1>12. CASE EraseDone
  BY <1>12, Bounds DEF EraseDone
<1>13. CASE EraseHome
  BY <1>13, Bounds DEF EraseHome
<1>14. CASE Rmdir
  BY <1>14, Bounds DEF Rmdir
<1>15. CASE RmdirFails
  BY <1>15, Bounds DEF RmdirFails
<1>16. CASE KillParent
  BY <1>16, Bounds DEF KillParent
<1>17. ASSUME NEW e \in todo, EraseEntry(e) PROVE BarrierInv'
  BY <1>17, Bounds DEF EraseEntry
<1>18. ASSUME NEW e \in todo, EraseFails(e) PROVE BarrierInv'
  BY <1>18, Bounds DEF EraseFails
<1>19. ASSUME NEW t \in Tasks, WaitReap(t) PROVE BarrierInv'
  BY <1>19, Bounds DEF WaitReap
<1>20. ASSUME NEW t \in Tasks, TaskArrive(t) PROVE BarrierInv'
  <2>1. CASE bp = "ok"
    <3>1. Bar!Arrive(t) /\ t \in Procs
      BY <1>20, <2>1, Bounds DEF TaskArrive
    <3>2. /\ arrivals[t] = 0 /\ arrivals' = [arrivals EXCEPT ![t] = 1] /\ passes' = passes
          /\ arrivals' \in [Procs -> 0 .. 1] /\ passes' \in [Procs -> 0 .. 1]
      BY <3>1, ArriveOnce
    <3>3. task' = [task EXCEPT ![t] = "barrier"]
      BY <1>20, <2>1 DEF TaskArrive
    <3> QED
      BY <1>20, <3>2, <3>3, Bounds DEF TaskArrive
  <2>2. CASE bp # "ok"
    BY <1>20, <2>2, Bounds DEF TaskArrive
  <2> QED
    BY <2>1, <2>2
<1>21. ASSUME NEW t \in Tasks, TaskPass(t) PROVE BarrierInv'
  <2>1. Bar!Pass(t) /\ t \in Procs
    BY <1>21, Bounds DEF TaskPass
  <2>2. /\ \A q \in Procs : arrivals[q] = 1
        /\ passes' = [passes EXCEPT ![t] = 1] /\ arrivals' = arrivals
    BY <2>1, PassOnce
  <2> QED
    BY <1>21, <2>1, <2>2 DEF TaskPass
<1>22. ASSUME NEW t \in Tasks, Setup(t) PROVE BarrierInv'
  BY <1>22, Bounds DEF Setup
<1>23. ASSUME NEW t \in Tasks, SetupFails(t) PROVE BarrierInv'
  BY <1>23, Bounds DEF SetupFails
<1>24. ASSUME NEW t \in Tasks, WorkerCreateFails(t) PROVE BarrierInv'
  BY <1>24, Bounds DEF WorkerCreateFails
<1>25. ASSUME NEW t \in Tasks, Write(t) PROVE BarrierInv'
  BY <1>25, Bounds DEF Write
<1>26. ASSUME NEW t \in Tasks, WritesDone(t) PROVE BarrierInv'
  BY <1>26, Bounds DEF WritesDone
<1>27. ASSUME NEW t \in Tasks, Read(t) PROVE BarrierInv'
  BY <1>27, Bounds DEF Read
<1>28. ASSUME NEW t \in Tasks, ReadFails(t) PROVE BarrierInv'
  BY <1>28, Bounds DEF ReadFails
<1>29. ASSUME NEW t \in Tasks, ReadCrashes(t) PROVE BarrierInv'
  BY <1>29, Bounds DEF ReadCrashes
<1>30. ASSUME NEW t \in Tasks, ReadsDone(t) PROVE BarrierInv'
  BY <1>30, Bounds DEF ReadsDone
<1>31. ASSUME NEW t \in Tasks, Kill(t) PROVE BarrierInv'
  BY <1>31, Bounds DEF Kill
<1>32. CASE UNCHANGED vars
  BY <1>32 DEF vars
<1> QED
  BY <1>1, <1>2, <1>3, <1>4, <1>5, <1>6, <1>7, <1>8, <1>9, <1>10, <1>11, <1>12, <1>13, <1>14, <1>15, <1>16, <1>17, <1>18, <1>19, <1>20, <1>21, <1>22, <1>23, <1>24, <1>25, <1>26, <1>27, <1>28, <1>29, <1>30, <1>31, <1>32 DEF Next, ParentStep, TaskStep

\* A task that was waited for has ended, and stays so.
LEMMA ReapStep == IInv /\ [Next]_vars => ReapInv'
<1> SUFFICES ASSUME IInv, [Next]_vars PROVE ReapInv'
  OBVIOUS
<1> USE DEF IInv, Fault, NoFault, Goto, barrierVars, parentVars, storeVars, removalVars, taskVars, TypeOK, ReapInv, Gone, Removal
<1>1. CASE DriverCreate
  BY <1>1, Bounds DEF DriverCreate
<1>2. CASE DriverCreateFails
  BY <1>2, Bounds DEF DriverCreateFails
<1>3. CASE BarrierInit
  BY <1>3, Bounds DEF BarrierInit
<1>4. CASE Fork
  BY <1>4, Bounds DEF Fork
<1>5. CASE ForkFails
  BY <1>5, Bounds DEF ForkFails
<1>6. CASE ParentArrive
  BY <1>6, Bounds DEF ParentArrive
<1>7. CASE ParentPass
  BY <1>7, Bounds DEF ParentPass
<1>8. CASE WaitDone
  BY <1>8, Bounds DEF WaitDone
<1>9. CASE EnterWorkspace
  BY <1>9, Bounds DEF EnterWorkspace
<1>10. CASE OpendirFails
  BY <1>10, Bounds DEF OpendirFails
<1>11. CASE ChdirFails
  BY <1>11, Bounds DEF ChdirFails
<1>12. CASE EraseDone
  BY <1>12, Bounds DEF EraseDone
<1>13. CASE EraseHome
  BY <1>13, Bounds DEF EraseHome
<1>14. CASE Rmdir
  BY <1>14, Bounds DEF Rmdir
<1>15. CASE RmdirFails
  BY <1>15, Bounds DEF RmdirFails
<1>16. CASE KillParent
  BY <1>16, Bounds DEF KillParent
<1>17. ASSUME NEW e \in todo, EraseEntry(e) PROVE ReapInv'
  BY <1>17, Bounds DEF EraseEntry
<1>18. ASSUME NEW e \in todo, EraseFails(e) PROVE ReapInv'
  BY <1>18, Bounds DEF EraseFails
<1>19. ASSUME NEW t \in Tasks, WaitReap(t) PROVE ReapInv'
  BY <1>19, Bounds DEF WaitReap
<1>20. ASSUME NEW t \in Tasks, TaskArrive(t) PROVE ReapInv'
  BY <1>20, Bounds DEF TaskArrive
<1>21. ASSUME NEW t \in Tasks, TaskPass(t) PROVE ReapInv'
  BY <1>21, Bounds DEF TaskPass
<1>22. ASSUME NEW t \in Tasks, Setup(t) PROVE ReapInv'
  BY <1>22, Bounds DEF Setup
<1>23. ASSUME NEW t \in Tasks, SetupFails(t) PROVE ReapInv'
  BY <1>23, Bounds DEF SetupFails
<1>24. ASSUME NEW t \in Tasks, WorkerCreateFails(t) PROVE ReapInv'
  BY <1>24, Bounds DEF WorkerCreateFails
<1>25. ASSUME NEW t \in Tasks, Write(t) PROVE ReapInv'
  BY <1>25, Bounds DEF Write
<1>26. ASSUME NEW t \in Tasks, WritesDone(t) PROVE ReapInv'
  BY <1>26, Bounds DEF WritesDone
<1>27. ASSUME NEW t \in Tasks, Read(t) PROVE ReapInv'
  BY <1>27, Bounds DEF Read
<1>28. ASSUME NEW t \in Tasks, ReadFails(t) PROVE ReapInv'
  BY <1>28, Bounds DEF ReadFails
<1>29. ASSUME NEW t \in Tasks, ReadCrashes(t) PROVE ReapInv'
  BY <1>29, Bounds DEF ReadCrashes
<1>30. ASSUME NEW t \in Tasks, ReadsDone(t) PROVE ReapInv'
  BY <1>30, Bounds DEF ReadsDone
<1>31. ASSUME NEW t \in Tasks, Kill(t) PROVE ReapInv'
  BY <1>31, Bounds DEF Kill
<1>32. CASE UNCHANGED vars
  BY <1>32 DEF vars
<1> QED
  BY <1>1, <1>2, <1>3, <1>4, <1>5, <1>6, <1>7, <1>8, <1>9, <1>10, <1>11, <1>12, <1>13, <1>14, <1>15, <1>16, <1>17, <1>18, <1>19, <1>20, <1>21, <1>22, <1>23, <1>24, <1>25, <1>26, <1>27, <1>28, <1>29, <1>30, <1>31, <1>32 DEF Next, ParentStep, TaskStep

\* Objects are put in a workspace, and it is removed when none is left.
LEMMA DiskStep == IInv /\ [Next]_vars => DiskInv'
<1> SUFFICES ASSUME IInv, [Next]_vars PROVE DiskInv'
  OBVIOUS
<1> USE DEF IInv, Fault, NoFault, Goto, barrierVars, parentVars, storeVars, removalVars, taskVars, TypeOK, DiskInv
<1>1. CASE DriverCreate
  BY <1>1, Bounds DEF DriverCreate
<1>2. CASE DriverCreateFails
  BY <1>2, Bounds DEF DriverCreateFails
<1>3. CASE BarrierInit
  BY <1>3, Bounds DEF BarrierInit
<1>4. CASE Fork
  BY <1>4, Bounds DEF Fork
<1>5. CASE ForkFails
  BY <1>5, Bounds DEF ForkFails
<1>6. CASE ParentArrive
  BY <1>6, Bounds DEF ParentArrive
<1>7. CASE ParentPass
  BY <1>7, Bounds DEF ParentPass
<1>8. CASE WaitDone
  BY <1>8, Bounds DEF WaitDone
<1>9. CASE EnterWorkspace
  BY <1>9, Bounds DEF EnterWorkspace
<1>10. CASE OpendirFails
  BY <1>10, Bounds DEF OpendirFails
<1>11. CASE ChdirFails
  BY <1>11, Bounds DEF ChdirFails
<1>12. CASE EraseDone
  BY <1>12, Bounds DEF EraseDone
<1>13. CASE EraseHome
  BY <1>13, Bounds DEF EraseHome
<1>14. CASE Rmdir
  BY <1>14, Bounds DEF Rmdir, Entries
<1>15. CASE RmdirFails
  BY <1>15, Bounds DEF RmdirFails
<1>16. CASE KillParent
  BY <1>16, Bounds DEF KillParent
<1>17. ASSUME NEW e \in todo, EraseEntry(e) PROVE DiskInv'
  BY <1>17, Bounds DEF EraseEntry
<1>18. ASSUME NEW e \in todo, EraseFails(e) PROVE DiskInv'
  BY <1>18, Bounds DEF EraseFails
<1>19. ASSUME NEW t \in Tasks, WaitReap(t) PROVE DiskInv'
  BY <1>19, Bounds DEF WaitReap
<1>20. ASSUME NEW t \in Tasks, TaskArrive(t) PROVE DiskInv'
  BY <1>20, Bounds DEF TaskArrive
<1>21. ASSUME NEW t \in Tasks, TaskPass(t) PROVE DiskInv'
  BY <1>21, Bounds DEF TaskPass
<1>22. ASSUME NEW t \in Tasks, Setup(t) PROVE DiskInv'
  BY <1>22, Bounds DEF Setup
<1>23. ASSUME NEW t \in Tasks, SetupFails(t) PROVE DiskInv'
  BY <1>23, Bounds DEF SetupFails
<1>24. ASSUME NEW t \in Tasks, WorkerCreateFails(t) PROVE DiskInv'
  BY <1>24, Bounds DEF WorkerCreateFails
<1>25. ASSUME NEW t \in Tasks, Write(t) PROVE DiskInv'
  BY <1>25, Bounds DEF Write, StorageWrite
<1>26. ASSUME NEW t \in Tasks, WritesDone(t) PROVE DiskInv'
  BY <1>26, Bounds DEF WritesDone
<1>27. ASSUME NEW t \in Tasks, Read(t) PROVE DiskInv'
  BY <1>27, Bounds DEF Read
<1>28. ASSUME NEW t \in Tasks, ReadFails(t) PROVE DiskInv'
  BY <1>28, Bounds DEF ReadFails
<1>29. ASSUME NEW t \in Tasks, ReadCrashes(t) PROVE DiskInv'
  BY <1>29, Bounds DEF ReadCrashes
<1>30. ASSUME NEW t \in Tasks, ReadsDone(t) PROVE DiskInv'
  BY <1>30, Bounds DEF ReadsDone
<1>31. ASSUME NEW t \in Tasks, Kill(t) PROVE DiskInv'
  BY <1>31, Bounds DEF Kill
<1>32. CASE UNCHANGED vars
  BY <1>32 DEF vars
<1> QED
  BY <1>1, <1>2, <1>3, <1>4, <1>5, <1>6, <1>7, <1>8, <1>9, <1>10, <1>11, <1>12, <1>13, <1>14, <1>15, <1>16, <1>17, <1>18, <1>19, <1>20, <1>21, <1>22, <1>23, <1>24, <1>25, <1>26, <1>27, <1>28, <1>29, <1>30, <1>31, <1>32 DEF Next, ParentStep, TaskStep

\* With no fault an object that was written is found, and is the one looked for.
LEMMA FoundStep == IInv /\ [Next]_vars => FoundInv'
<1> SUFFICES ASSUME IInv, [Next]_vars PROVE FoundInv'
  OBVIOUS
<1> USE DEF IInv, Fault, NoFault, Goto, barrierVars, parentVars, storeVars, removalVars, taskVars, TypeOK, FoundInv
<1>1. CASE DriverCreate
  BY <1>1, Bounds DEF DriverCreate, ReapInv
<1>2. CASE DriverCreateFails
  BY <1>2, Bounds DEF DriverCreateFails
<1>3. CASE BarrierInit
  BY <1>3, Bounds DEF BarrierInit
<1>4. CASE Fork
  BY <1>4, Bounds DEF Fork
<1>5. CASE ForkFails
  BY <1>5, Bounds DEF ForkFails
<1>6. CASE ParentArrive
  BY <1>6, ArriveOnce, Bounds DEF ParentArrive
<1>7. CASE ParentPass
  BY <1>7, PassOnce, Bounds DEF ParentPass
<1>8. CASE WaitDone
  BY <1>8, Bounds DEF WaitDone
<1>9. CASE EnterWorkspace
  BY <1>9, Bounds DEF EnterWorkspace
<1>10. CASE OpendirFails
  BY <1>10, Bounds DEF OpendirFails
<1>11. CASE ChdirFails
  BY <1>11, Bounds DEF ChdirFails
<1>12. CASE EraseDone
  BY <1>12, Bounds DEF EraseDone
<1>13. CASE EraseHome
  BY <1>13, Bounds DEF EraseHome
<1>14. CASE Rmdir
  BY <1>14, Bounds DEF Rmdir
<1>15. CASE RmdirFails
  BY <1>15, Bounds DEF RmdirFails
<1>16. CASE KillParent
  BY <1>16, Bounds DEF KillParent
<1>17. ASSUME NEW e \in todo, EraseEntry(e) PROVE FoundInv'
  BY <1>17, Bounds DEF EraseEntry, ReapInv, Removal, Gone
<1>18. ASSUME NEW e \in todo, EraseFails(e) PROVE FoundInv'
  BY <1>18, Bounds DEF EraseFails
<1>19. ASSUME NEW t \in Tasks, WaitReap(t) PROVE FoundInv'
  BY <1>19, Bounds DEF WaitReap
<1>20. ASSUME NEW t \in Tasks, TaskArrive(t) PROVE FoundInv'
  <2>1. CASE bp = "ok"
    <3>1. Bar!Arrive(t) /\ t \in Procs
      BY <1>20, <2>1, Bounds DEF TaskArrive
    <3>2. /\ arrivals[t] = 0 /\ arrivals' = [arrivals EXCEPT ![t] = 1] /\ passes' = passes
          /\ arrivals' \in [Procs -> 0 .. 1] /\ passes' \in [Procs -> 0 .. 1]
      BY <3>1, ArriveOnce
    <3>3. task' = [task EXCEPT ![t] = "barrier"]
      BY <1>20, <2>1 DEF TaskArrive
    <3> QED
      BY <1>20, <3>2, <3>3, Bounds DEF TaskArrive
  <2>2. CASE bp # "ok"
    BY <1>20, <2>2, Bounds DEF TaskArrive
  <2> QED
    BY <2>1, <2>2
<1>21. ASSUME NEW t \in Tasks, TaskPass(t) PROVE FoundInv'
  BY <1>21, PassOnce, Bounds DEF TaskPass
<1>22. ASSUME NEW t \in Tasks, Setup(t) PROVE FoundInv'
  <2>1. index[t] = 0 /\ task' = [task EXCEPT ![t] = "write"]
    BY <1>22 DEF Setup, BarrierInv
  <2>2. \A i \in Objs : ~(i < index[t])
    BY <2>1, Bounds
  <2> QED
    BY <1>22, <2>1, <2>2 DEF Setup
<1>23. ASSUME NEW t \in Tasks, SetupFails(t) PROVE FoundInv'
  BY <1>23, Bounds DEF SetupFails
<1>24. ASSUME NEW t \in Tasks, WorkerCreateFails(t) PROVE FoundInv'
  BY <1>24, Bounds DEF WorkerCreateFails
<1>25. ASSUME NEW t \in Tasks, Write(t) PROVE FoundInv'
  <2> SUFFICES ASSUME faults' = 0, writes' > 0, workspace' = "dir",
                      \A o \in DOMAIN disk' : disk'[o] \in {"absent", "whole"},
                      NEW u \in Tasks
               PROVE  /\ task'[u] = "write" =>
                           \A i \in Objs : i < index'[u] => disk'[<<u, i>>] = "whole"
                      /\ task'[u] = "read" =>
                           /\ \A i \in Objs : i < writes' => disk'[<<u, i>>] = "whole"
                           /\ index'[u] > 0 => verdict'[u].accepted
    BY DEF FoundInv
  <2>1. /\ index[t] \in Objs /\ <<t, index[t]>> \in DOMAIN disk /\ faults = 0 /\ faults' = faults
        /\ writes' = writes /\ workspace = "dir" /\ task' = task /\ verdict' = verdict
        /\ task[t] = "write" /\ index' = [index EXCEPT ![t] = @ + 1]
    BY <1>25, Bounds DEF Write, StorageWrite
  <2>2. /\ disk[<<t, index[t]>>] \in {"absent", "whole"}
        /\ disk' = [disk EXCEPT ![<<t, index[t]>>] = "whole"]
    BY <1>25, <2>1 DEF Write, StorageWrite
  <2>3. \A o \in DOMAIN disk : disk[o] \in {"absent", "whole"}
    BY <2>1, <2>2
  <2>4. \A i \in Objs, v \in Tasks : disk[<<v, i>>] = "whole" => disk'[<<v, i>>] = "whole"
    BY <2>1, <2>2
  <2>5. \A i \in Objs : i < index[t] + 1 => disk'[<<t, i>>] = "whole"
    <3> SUFFICES ASSUME NEW i \in Objs, i < index[t] + 1 PROVE disk'[<<t, i>>] = "whole"
      OBVIOUS
    <3>1. CASE i = index[t]
      BY <2>2, <3>1
    <3>2. CASE i < index[t]
      BY <2>1, <2>3, <2>4, <3>2
    <3> QED
      BY <2>1, <3>1, <3>2, Bounds
  <2> QED
    BY <2>1, <2>3, <2>4, <2>5
<1>26. ASSUME NEW t \in Tasks, WritesDone(t) PROVE FoundInv'
  BY <1>26, Bounds DEF WritesDone
<1>27. ASSUME NEW t \in Tasks, Read(t) PROVE FoundInv'
  <2> SUFFICES ASSUME faults' = 0, writes' > 0, workspace' = "dir",
                      \A o \in DOMAIN disk' : disk'[o] \in {"absent", "whole"},
                      NEW u \in Tasks
               PROVE  /\ task'[u] = "write" =>
                           \A i \in Objs : i < index'[u] => disk'[<<u, i>>] = "whole"
                      /\ task'[u] = "read" =>
                           /\ \A i \in Objs : i < writes' => disk'[<<u, i>>] = "whole"
                           /\ index'[u] > 0 => verdict'[u].accepted
    BY DEF FoundInv
  <2>1. /\ disk' = disk /\ faults = 0 /\ workspace = "dir" /\ writes' = writes /\ task' = task
        /\ task[t] = "read" /\ index' = [index EXCEPT ![t] = @ + 1]
    BY <1>27 DEF Read
  <2>2. ObjIdx(index[t]) \in Objs /\ ObjIdx(index[t]) < writes
    BY <1>27, ObjIdxRange DEF Read, ObjIdx
  <2>3. verdict' = [verdict EXCEPT ![t] = verdict'[t]] /\ verdict'[t].accepted
    BY <1>27, <2>1, <2>2, ReadFinds
  <2> QED
    BY <2>1, <2>3
<1>28. ASSUME NEW t \in Tasks, ReadFails(t) PROVE FoundInv'
  BY <1>28, ObjIdxRange, Bounds DEF ReadFails, MoreReads, ObjIdx, Regenerated
<1>29. ASSUME NEW t \in Tasks, ReadCrashes(t) PROVE FoundInv'
  BY <1>29, Bounds DEF ReadCrashes
<1>30. ASSUME NEW t \in Tasks, ReadsDone(t) PROVE FoundInv'
  BY <1>30, Bounds DEF ReadsDone
<1>31. ASSUME NEW t \in Tasks, Kill(t) PROVE FoundInv'
  BY <1>31, Bounds DEF Kill
<1>32. CASE UNCHANGED vars
  BY <1>32 DEF vars
<1> QED
  BY <1>1, <1>2, <1>3, <1>4, <1>5, <1>6, <1>7, <1>8, <1>9, <1>10, <1>11, <1>12, <1>13, <1>14, <1>15, <1>16, <1>17, <1>18, <1>19, <1>20, <1>21, <1>22, <1>23, <1>24, <1>25, <1>26, <1>27, <1>28, <1>29, <1>30, <1>31, <1>32 DEF Next, ParentStep, TaskStep

\* A step of a task, or of the parent before the removal, is none in it.
LEMMA BeforeRemoval ==
  ASSUME IInv,
         \/ DriverCreate \/ DriverCreateFails \/ BarrierInit \/ Fork \/ ForkFails
         \/ ParentArrive \/ ParentPass \/ WaitDone \/ KillParent
         \/ \E t \in Tasks : WaitReap(t) \/ TaskStep(t) \/ SetupFails(t) \/ Kill(t)
  PROVE  parent' \notin Removal \ {"destroy"}
<1> USE DEF IInv, ReapInv, Removal, Gone
<1>1. CASE \/ DriverCreate \/ DriverCreateFails \/ BarrierInit \/ Fork \/ ForkFails
           \/ ParentArrive \/ ParentPass \/ WaitDone \/ KillParent
  BY <1>1 DEF DriverCreate, DriverCreateFails, BarrierInit, Fork, ForkFails, ParentArrive,
       ParentPass, WaitDone, KillParent
<1>2. ASSUME NEW t \in Tasks, WaitReap(t) PROVE parent' \notin Removal \ {"destroy"}
  BY <1>2 DEF WaitReap
<1>3. ASSUME NEW t \in Tasks, TaskStep(t) \/ SetupFails(t) \/ Kill(t)
      PROVE  parent' \notin Removal \ {"destroy"}
  <2>1. task[t] \notin Gone
    BY <1>3 DEF TaskStep, TaskArrive, TaskPass, Setup, SetupFails, WorkerCreateFails, Write,
         WritesDone, Read, ReadFails, ReadCrashes, ReadsDone, Kill
  <2>2. parent \notin Removal
    BY <2>1
  <2>3. parent' = parent
    BY <1>3 DEF TaskStep, TaskArrive, TaskPass, Setup, SetupFails, WorkerCreateFails, Write,
         WritesDone, Read, ReadFails, ReadCrashes, ReadsDone, Kill, parentVars
  <2> QED
    BY <2>2, <2>3
<1> QED
  BY <1>1, <1>2, <1>3

\* The removal loses no entry, nobody puts one behind it, and after it nothing
\* is put back.
LEMMA RemovedStep == IInv /\ [Next]_vars => EraseInv' /\ WorkspaceRemoved'
<1> SUFFICES ASSUME IInv, [Next]_vars PROVE EraseInv' /\ WorkspaceRemoved'
  OBVIOUS
<1> USE DEF IInv, Fault, NoFault, barrierVars, parentVars, storeVars, removalVars, taskVars, TypeOK,
      EraseInv, WorkspaceRemoved, DiskInv
<1>1. CASE \/ DriverCreate \/ DriverCreateFails \/ BarrierInit \/ Fork \/ ForkFails
           \/ ParentArrive \/ ParentPass \/ WaitDone \/ KillParent
           \/ \E t \in Tasks : WaitReap(t) \/ TaskStep(t) \/ SetupFails(t) \/ Kill(t)
  <2>1. parent' \notin Removal \ {"destroy"}
    BY <1>1, BeforeRemoval
  <2> QED
    BY <2>1 DEF Removal
<1>2. CASE EnterWorkspace
  BY <1>2 DEF EnterWorkspace, Entries
<1>3. CASE OpendirFails
  BY <1>3 DEF OpendirFails
<1>4. CASE ChdirFails
  BY <1>4 DEF ChdirFails
<1>5. ASSUME NEW e \in todo, EraseEntry(e) PROVE EraseInv' /\ WorkspaceRemoved'
  <2>1. CASE e = ForeignEntry
    BY <1>5, <2>1, Bounds DEF EraseEntry, ForeignEntry
  <2>2. CASE e # ForeignEntry
    BY <1>5, <2>2 DEF EraseEntry
  <2> QED
    BY <2>1, <2>2
<1>6. ASSUME NEW e \in todo, EraseFails(e) PROVE EraseInv' /\ WorkspaceRemoved'
  BY <1>6 DEF EraseFails
<1>7. CASE EraseDone
  BY <1>7 DEF EraseDone
<1>8. CASE EraseHome
  BY <1>8 DEF EraseHome
<1>9. CASE Rmdir
  BY <1>9 DEF Rmdir, Entries
<1>10. CASE RmdirFails
  BY <1>10 DEF RmdirFails
<1>11. CASE UNCHANGED vars
  BY <1>11 DEF vars
<1> QED
  BY <1>1, <1>2, <1>3, <1>4, <1>5, <1>6, <1>7, <1>8, <1>9, <1>10, <1>11 DEF Next, ParentStep
-----------------------------------------------------------------------------
(* The theorems. *)

LEMMA NextIInv == IInv /\ [Next]_vars => IInv'
  BY TypeStep, BarrierStep, ReapStep, DiskStep, FoundStep, RemovedStep DEF IInv

LEMMA Inductive == Spec => []IInv
  BY InitIInv, NextIInv, PTL DEF Spec

\* Every variable keeps its type and no loop passes its count, for every number
\* of tasks, objects and reads (main, run_motif).
THEOREM TypeCorrect == Spec => []TypeOK
<1>1. IInv => TypeOK
  BY DEF IInv
<1> QED
  BY <1>1, Inductive, PTL

\* No task touches the storage before every task has been forked and has
\* reached the barrier (main, run_motif).
THEOREM Together == Spec => []StartTogether
<1>1. IInv => StartTogether
  <2> SUFFICES ASSUME IInv, NEW t \in Tasks, task[t] \in Working
               PROVE  \A q \in Tasks : arrivals[q] = 1
    BY DEF StartTogether
  <2>1. passes[t] = 1 /\ t \in Procs
    BY Bounds DEF IInv, BarrierInv
  <2> QED
    BY <2>1, Bounds DEF IInv, BarrierInv
<1> QED
  BY <1>1, Inductive, PTL

\* When the parent begins to remove the workspace every task has ended (main's
\* wait loop).
THEOREM RemovedLast == Spec => []RemovedAfterUse
<1>1. IInv => RemovedAfterUse
  BY DEF IInv, ReapInv, RemovedAfterUse
<1> QED
  BY <1>1, Inductive, PTL

\* With no fault, every object is read back and accepted, through both loops and
\* however often the reads go round (run_motif).
THEOREM Found == Spec => []NoFalseAlarm
<1>1. IInv => NoFalseAlarm
  BY DEF IInv, FoundInv, NoFalseAlarm
<1> QED
  BY <1>1, Inductive, PTL

\* Nothing but a failing call of the removal itself keeps a workspace with only
\* objects in it, for any number of tasks, faults and leftovers and whatever
\* order readdir gives (storage_debug_driver_destroy).
THEOREM Cleaned == Spec => []WorkspaceRemoved
<1>1. IInv => WorkspaceRemoved
  BY DEF IInv
<1> QED
  BY <1>1, Inductive, PTL

-----------------------------------------------------------------------------
(* A run uses its workspace as the abstract one. *)

LEMMA WorkspaceInit == Init /\ IInv => WS!Init
<1> SUFFICES ASSUME Init, IInv PROVE WS!Init
  OBVIOUS
<1>1. Removing = FALSE
  BY DEF Init, Removing, Removal
<1>2. Held \in [Tasks \X Objs -> {"absent", "part", "whole", "huge"}]
  BY DEF IInv, TypeOK, Held
<1> QED
  BY <1>1, <1>2 DEF WS!Init

\* A task that runs has not been waited for, so the removal has not begun.
LEMMA NotRemoving ==
  ASSUME IInv, NEW t \in Tasks, task[t] \notin Gone
  PROVE  ~Removing
<1>1. t \notin reaped
  BY DEF IInv, ReapInv
<1> QED
  BY <1>1 DEF IInv, ReapInv, Removing

\* A file that there was not is made, and nothing else happens to the workspace.
LEMMA PutOne ==
  ASSUME IInv, NEW o \in Tasks \X Objs, NEW c \in {"whole", "junk"},
         ~Removing, Removing' = Removing, disk[o] = "absent",
         disk' = [disk EXCEPT ![o] = c]
  PROVE  WS!Next
<1> DEFINE h == IF c = "junk" THEN "part" ELSE c
<1>1. Held[o] = "absent"
  BY DEF Held
<1>2. h \in {"part", "whole"} /\ Held' = [Held EXCEPT ![o] = h]
  BY DEF Held, IInv, TypeOK
<1>3. WS!Put(o)
  BY <1>1, <1>2 DEF WS!Put
<1> QED
  BY <1>3 DEF WS!Next

\* The removal goes on: objects go, and none comes.
LEMMA RemoveSome ==
  ASSUME IInv, Removing' = TRUE, NEW gone \in SUBSET (Tasks \X Objs),
         gone # {} => Removing,
         disk' = [o \in Tasks \X Objs |-> IF o \in gone THEN "absent" ELSE disk[o]]
  PROVE  WS!Next
<1>1. Held' = [o \in Tasks \X Objs |-> IF o \in gone /\ Removing THEN "absent" ELSE Held[o]]
  BY DEF Held, IInv, TypeOK
<1>2. WS!Remove
  BY <1>1 DEF WS!Remove
<1> QED
  BY <1>2 DEF WS!Next

\* Every step is a step of the abstract workspace, or leaves it alone.
LEMMA WorkspaceStep == IInv /\ [Next]_vars => [WS!Next]_(WS!vars)
<1> SUFFICES ASSUME IInv, [Next]_vars PROVE WS!Next \/ UNCHANGED <<Removing, Held>>
  BY DEF WS!vars
<1> USE DEF Fault, NoFault, Goto, barrierVars, parentVars, storeVars, removalVars, taskVars
<1>a. Tasks # {}
  BY Bounds
<1>1. CASE \/ DriverCreate \/ DriverCreateFails \/ BarrierInit \/ Fork \/ ForkFails
           \/ ParentArrive \/ ParentPass \/ \E t \in Tasks : WaitReap(t)
  BY <1>1, <1>a DEF DriverCreate, DriverCreateFails, BarrierInit, Fork, ForkFails,
       ParentArrive, ParentPass, WaitReap, IInv, ReapInv, Removing, Removal, Held
<1>2. CASE \/ WaitDone \/ EnterWorkspace \/ OpendirFails \/ ChdirFails
           \/ (\E e \in todo : EraseEntry(e) \/ EraseFails(e)) \/ EraseDone \/ EraseHome
           \/ Rmdir \/ RmdirFails
  <2>1. Removing' = TRUE
    BY <1>2 DEF WaitDone, EnterWorkspace, OpendirFails, ChdirFails, EraseEntry, EraseFails,
         EraseDone, EraseHome, Rmdir, RmdirFails, Removing, Removal, IInv, ReapInv
  <2> DEFINE gone == {o \in Tasks \X Objs : disk'[o] # disk[o]}
  <2>2. gone # {} => Removing
    BY <1>2 DEF WaitDone, EnterWorkspace, OpendirFails, ChdirFails, EraseEntry, EraseFails,
         EraseDone, EraseHome, Rmdir, RmdirFails, Removing, Removal
  <2>3. disk' = [o \in Tasks \X Objs |-> IF o \in gone THEN "absent" ELSE disk[o]]
    <3>1. disk' = disk \/ \E e \in todo : EraseEntry(e)
      BY <1>2 DEF WaitDone, EnterWorkspace, OpendirFails, ChdirFails, EraseFails,
           EraseDone, EraseHome, Rmdir, RmdirFails
    <3>2. ASSUME NEW e \in todo, EraseEntry(e)
          PROVE  disk' = disk \/ disk' = [disk EXCEPT ![e] = "absent"]
      BY <3>2 DEF EraseEntry
    <3> QED
      BY <3>1, <3>2 DEF IInv, TypeOK
  <2> QED
    BY <2>1, <2>2, <2>3, RemoveSome
<1>3. CASE KillParent
  <2>1. disk' = disk
    BY <1>3 DEF KillParent
  <2>2. CASE Removing'
    <3>1. disk' = [o \in Tasks \X Objs |-> IF o \in {} THEN "absent" ELSE disk[o]]
      BY <2>1 DEF IInv, TypeOK
    <3> QED
      BY <2>2, <3>1, RemoveSome
  <2>3. CASE ~Removing'
    BY <1>3, <2>1, <2>3 DEF KillParent, Removing, Removal, Held, IInv, ReapInv
  <2> QED
    BY <2>2, <2>3
<1>4. ASSUME NEW t \in Tasks, Write(t) PROVE WS!Next \/ UNCHANGED <<Removing, Held>>
  <2>1. <<t, index[t]>> \in Tasks \X Objs
    BY <1>4, Bounds DEF Write, IInv, TypeOK
  <2>2. ~Removing /\ Removing' = Removing
    BY <1>4, NotRemoving DEF Write, Gone, Removing
  <2>3. \/ disk' = disk
        \/ /\ disk[<<t, index[t]>>] = "absent"
           /\ \E c \in {"absent", "junk", "whole"} : disk' = [disk EXCEPT ![<<t, index[t]>>] = c]
    BY <1>4 DEF Write, StorageWrite
  <2>4. \/ disk' = disk
        \/ /\ disk[<<t, index[t]>>] = "absent"
           /\ \E c \in {"whole", "junk"} : disk' = [disk EXCEPT ![<<t, index[t]>>] = c]
    <3> DEFINE o == <<t, index[t]>>
    <3>1. CASE disk' = disk
      BY <3>1
    <3>2. ASSUME disk[o] = "absent", NEW c \in {"absent", "junk", "whole"},
                 disk' = [disk EXCEPT ![o] = c]
          PROVE  disk' = disk \/ c \in {"whole", "junk"}
      <4>1. CASE c = "absent"
        <5>1. disk \in [Tasks \X Objs -> {"absent", "junk", "whole", "huge"}]
          BY DEF IInv, TypeOK
        <5>2. [disk EXCEPT ![o] = disk[o]] = disk
          BY <5>1
        <5> QED
          BY <3>2, <4>1, <5>2
      <4> QED
        BY <3>2, <4>1
    <3> HIDE DEF o
    <3>3. disk' = disk \/ (/\ disk[o] = "absent"
                          /\ \E c \in {"absent", "junk", "whole"} : disk' = [disk EXCEPT ![o] = c])
      BY <2>3 DEF o
    <3>4. disk' = disk \/ (/\ disk[o] = "absent"
                          /\ \E c \in {"whole", "junk"} : disk' = [disk EXCEPT ![o] = c])
      BY <3>2, <3>3
    <3> QED
      BY <3>4 DEF o
  <2> QED
    BY <2>1, <2>2, <2>4, PutOne DEF Held
<1>5. ASSUME NEW t \in Tasks, Kill(t) PROVE WS!Next \/ UNCHANGED <<Removing, Held>>
  <2>1. ~Removing /\ Removing' = Removing
    BY <1>5, NotRemoving DEF Kill, Gone, Removing
  <2>2. CASE disk' = disk
    BY <2>1, <2>2 DEF Held
  <2>3. CASE disk' # disk
    <3>1. /\ <<t, index[t]>> \in Tasks \X Objs /\ disk[<<t, index[t]>>] = "absent"
          /\ disk' = [disk EXCEPT ![<<t, index[t]>>] = "junk"]
      BY <1>5, <2>3, Bounds DEF Kill, IInv, TypeOK
    <3> QED
      BY <2>1, <3>1, PutOne
  <2> QED
    BY <2>2, <2>3
<1>6. ASSUME NEW t \in Tasks,
             \/ TaskArrive(t) \/ TaskPass(t) \/ Setup(t) \/ SetupFails(t) \/ WorkerCreateFails(t)
             \/ WritesDone(t) \/ Read(t) \/ ReadFails(t) \/ ReadCrashes(t) \/ ReadsDone(t)
      PROVE  UNCHANGED <<Removing, Held>>
  BY <1>6 DEF TaskArrive, TaskPass, Setup, SetupFails, WorkerCreateFails, WritesDone, Read,
       ReadFails, ReadCrashes, ReadsDone, Removing, Held
<1>7. CASE UNCHANGED vars
  BY <1>7 DEF vars, Removing, Held
<1> QED
  BY <1>1, <1>2, <1>3, <1>4, <1>5, <1>6, <1>7 DEF Next, ParentStep, TaskStep

\* No object is put over another or changed but by its removal, and none is put
\* once that has begun, for any number of tasks and faults (storage_debug_write,
\* storage_debug_driver_destroy, main).
THEOREM WorkspaceRefined == Spec => WorkspaceKept
<1>1. Init => WS!Init
  BY InitIInv, WorkspaceInit
<1> QED
  BY <1>1, WorkspaceStep, Inductive, PTL DEF Spec, WorkspaceKept, WS!Spec
=============================================================================
