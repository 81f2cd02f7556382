---------------------------- MODULE SharedBarrier ----------------------------
(***************************************************************************)
(* Two runs of motif_1 on one host.  barrier_init opens the object         *)
(* "/motif_1" of whatever run came before, nothing ever unlinks it, and    *)
(* every process of every run works on the one structure.  Module Barrier  *)
(* is the run looked at; the other run is a second instance of it on the   *)
(* same b_mutex, b_barrier, b_count and b_num.  Processes of both may be   *)
(* killed anywhere in barrier_wait, and the other run may be started       *)
(* again.                                                                  *)
(***************************************************************************)
EXTENDS Barrier

CONSTANTS
  Other,      \* the processes of the other run
  Overlap     \* whether one run may start while the other is at its barrier

ASSUME SharedAssumption ==
  /\ IsFiniteSet(Other) /\ Other # {}
  /\ Overlap \in BOOLEAN

VARIABLES
  oReady, oPc, oKilled, oLoaded, oArrivals, oPasses  \* the other run's own state

ownVars == <<ready, pc, killed, loaded, arrivals, passes>>
oVars == <<oReady, oPc, oKilled, oLoaded, oArrivals, oPasses>>
sharedVars == <<vars, oVars>>

O == INSTANCE Barrier WITH Proc <- Other, MaxKills <- Cardinality(Other), ready <- oReady,
       pc <- oPc, killed <- oKilled, loaded <- oLoaded, arrivals <- oArrivals,
       passes <- oPasses

\* No run came before: shm_open makes a new object, and ftruncate zeroes it.
SharedInit ==
  /\ b_mutex = 0 /\ b_barrier = 0 /\ b_count = 0 /\ b_num = 0 /\ Init
  /\ oReady = FALSE
  /\ oPc = [q \in Other |-> "idle"]
  /\ oKilled = {}
  /\ oLoaded = [q \in Other |-> 0]
  /\ oArrivals = oLoaded /\ oPasses = oLoaded

\* A run is at its barrier from barrier_init until each of its processes is
\* past it, or dead.
AtBarrier == ready /\ \E p \in Proc \ killed : pc[p] # "idle" \/ passes[p] = 0

OtherAtBarrier ==
  oReady /\ \E q \in Other \ oKilled : oPc[q] # "idle" \/ oPasses[q] = 0

RunInit ==
  /\ Overlap \/ ~OtherAtBarrier
  /\ BarrierInit
  /\ UNCHANGED oVars

RunStep(p) == Step(p) /\ UNCHANGED oVars

OtherInit ==
  /\ Overlap \/ ~AtBarrier
  /\ O!BarrierInit
  /\ UNCHANGED ownVars

OtherStep(q) == (O!Enter(q) \/ O!Step(q) \/ O!Kill(q)) /\ UNCHANGED ownVars

\* The next run, when the other one is over.
OtherRunAgain ==
  /\ oReady /\ ~OtherAtBarrier
  /\ oReady' = FALSE
  /\ oPc' = [q \in Other |-> "idle"]
  /\ oKilled' = {}
  /\ oLoaded' = [q \in Other |-> 0]
  /\ oArrivals' = oLoaded' /\ oPasses' = oLoaded'
  /\ UNCHANGED vars

SharedNext ==
  \/ RunInit
  \/ \E p \in Proc : RunStep(p) \/ ((Enter(p) \/ Kill(p)) /\ UNCHANGED oVars)
  \/ OtherInit \/ OtherRunAgain
  \/ \E q \in Other : OtherStep(q)

SharedSpec == SharedInit /\ [][SharedNext]_sharedVars

\* As in Barrier; nothing is assumed of the other run.
SharedFairSpec == SharedSpec /\ \A p \in Proc : WF_sharedVars(RunStep(p))

-----------------------------------------------------------------------------
(* What comments say, and the code does not do when runs overlap. *)

\* "Initialize a barrier structure in shared memory to allow inter-process
\* synchronization": a process passes when those of its own run have arrived.
EachRunTogether == NobodyEarly /\ O!NobodyEarly
=============================================================================
