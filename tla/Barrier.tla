------------------------------- MODULE Barrier -------------------------------
(***************************************************************************)
(* The process barrier of utils/barrier.c: a structure in shared memory    *)
(* with a counter, a semaphore that guards it and a semaphore used as a    *)
(* turnstile.  The parent initialises it, then each process calls          *)
(* barrier_wait, and may be killed anywhere in it.  Every semaphore        *)
(* operation is a step of its own, and the counter's increment is a load   *)
(* and a store.                                                            *)
(***************************************************************************)
EXTENDS Integers, FiniteSets

CONSTANTS
  Proc,       \* the participants: the parent and its tasks
  Rounds,     \* how many times each calls barrier_wait (motif_1: once)
  MaxKills    \* at most this many of them are killed

ASSUME BarrierAssumption ==
  /\ IsFiniteSet(Proc) /\ Proc # {}
  /\ Rounds \in Nat
  /\ MaxKills \in Nat

VARIABLES
  ready,      \* barrier_init has returned, and the tasks may be forked
  b_mutex,    \* the values of the two semaphores
  b_barrier,
  b_count,    \* the processes counted
  b_num,      \* the processes to wait for
  pc,         \* where each process is in barrier_wait, or was killed
  killed,     \* the processes that were killed
  loaded,     \* the value of b_count each process has read
  arrivals,   \* history: the calls of each process that have been counted
  passes      \* history: the calls of each process past the turnstile

shmVars == <<b_mutex, b_barrier, b_count, b_num>>
vars == <<ready, b_mutex, b_barrier, b_count, b_num, pc, killed, loaded, arrivals, passes>>

\* Mutant: the parent, which waits too, is not counted.
CountTasks == Cardinality(Proc) - 1

\* The count barrier_init is called with.
Count == Cardinality(Proc)

\* The living processes at one of the given places.
At(places) == {p \in Proc \ killed : pc[p] \in places}

Goto(p, place) == pc' = [pc EXCEPT ![p] = place]

\* The shared memory object outlives a run (nothing calls barrier_destroy): it
\* is new and zeroed, or as an earlier run left it.
Init ==
  /\ ready = FALSE
  /\ b_mutex \in 0 .. 1
  /\ b_barrier \in 0 .. 1
  /\ b_count \in Nat /\ b_num \in Nat
  /\ pc = [p \in Proc |-> "idle"]
  /\ killed = {}
  /\ loaded = [p \in Proc |-> 0]
  /\ arrivals = [p \in Proc |-> 0]
  /\ passes = [p \in Proc |-> 0]

-----------------------------------------------------------------------------
(* barrier_init, called by the parent before it forks. *)

\* Mutant: the counter an earlier run left is not reset.
BarrierInitKeepsCount ==
  /\ ~ready
  /\ ready' = TRUE
  /\ b_num' = Count
  /\ b_mutex' = 1 /\ b_barrier' = 0
  /\ UNCHANGED <<b_count, pc, killed, loaded, arrivals, passes>>

\* Mutant: the count of the run that came before is waited for.
BarrierInitKeepsNum ==
  /\ ~ready
  /\ ready' = TRUE
  /\ b_num' = (IF b_num = 0 THEN Count ELSE b_num) /\ b_count' = 0
  /\ b_mutex' = 1 /\ b_barrier' = 0
  /\ UNCHANGED <<pc, killed, loaded, arrivals, passes>>

\* Mutant: the turnstile is left as an earlier run left it.
BarrierInitKeepsPermit ==
  /\ ~ready
  /\ ready' = TRUE
  /\ b_num' = Count /\ b_count' = 0
  /\ b_mutex' = 1
  /\ UNCHANGED <<b_barrier, pc, killed, loaded, arrivals, passes>>

BarrierInit ==
  /\ ~ready
  /\ ready' = TRUE
  /\ b_num' = Count /\ b_count' = 0
  /\ b_mutex' = 1 /\ b_barrier' = 0
  /\ UNCHANGED <<pc, killed, loaded, arrivals, passes>>

-----------------------------------------------------------------------------
(* barrier_wait, in the order of its statements. *)

\* The call.
Enter(p) ==
  /\ ready /\ p \notin killed
  /\ pc[p] = "idle"
  /\ arrivals[p] < Rounds
  /\ Goto(p, "lock")
  /\ UNCHANGED <<ready, shmVars, killed, loaded, arrivals, passes>>

\* Mutant: the counter is not guarded.
LockNot(p) ==
  /\ pc[p] = "lock"
  /\ Goto(p, "load")
  /\ UNCHANGED <<ready, shmVars, killed, loaded, arrivals, passes>>

\* sem_wait( &bp->b_mutex )
Lock(p) ==
  /\ pc[p] = "lock"
  /\ b_mutex > 0
  /\ b_mutex' = b_mutex - 1
  /\ Goto(p, "load")
  /\ UNCHANGED <<ready, b_barrier, b_count, b_num, killed, loaded, arrivals, passes>>

\* ++bp->b_count, the read
Load(p) ==
  /\ pc[p] = "load"
  /\ loaded' = [loaded EXCEPT ![p] = b_count]
  /\ Goto(p, "store")
  /\ UNCHANGED <<ready, shmVars, killed, arrivals, passes>>

\* ++bp->b_count, the write, and the reset by the process that completes it
Store(p) ==
  LET signal == loaded[p] + 1 = b_num
  IN /\ pc[p] = "store"
     /\ b_count' = IF signal THEN 0 ELSE loaded[p] + 1
     /\ arrivals' = [arrivals EXCEPT ![p] = @ + 1]
     /\ Goto(p, IF signal THEN "unlockSignal" ELSE "unlock")
     /\ UNCHANGED <<ready, b_mutex, b_barrier, b_num, killed, loaded, passes>>

\* sem_post( &bp->b_mutex ), and the test of signal
Unlock(p) ==
  /\ pc[p] \in {"unlock", "unlockSignal"}
  /\ b_mutex' = b_mutex + 1
  /\ Goto(p, IF pc[p] = "unlockSignal" THEN "signal" ELSE "turnstile")
  /\ UNCHANGED <<ready, b_barrier, b_count, b_num, killed, loaded, arrivals, passes>>

\* sem_post( &bp->b_barrier ) by the process that completes the count
Signal(p) ==
  /\ pc[p] = "signal"
  /\ b_barrier' = b_barrier + 1
  /\ Goto(p, "turnstile")
  /\ UNCHANGED <<ready, b_mutex, b_count, b_num, killed, loaded, arrivals, passes>>

\* sem_wait( &bp->b_barrier )
Turnstile(p) ==
  /\ pc[p] = "turnstile"
  /\ b_barrier > 0
  /\ b_barrier' = b_barrier - 1
  /\ passes' = [passes EXCEPT ![p] = @ + 1]
  /\ Goto(p, "notify")
  /\ UNCHANGED <<ready, b_mutex, b_count, b_num, killed, loaded, arrivals>>

\* Mutant: the next waiter is not let through.
NotifyNot(p) ==
  /\ pc[p] = "notify"
  /\ Goto(p, "idle")
  /\ UNCHANGED <<ready, shmVars, killed, loaded, arrivals, passes>>

\* sem_post( &bp->b_barrier ), and return
Notify(p) ==
  /\ pc[p] = "notify"
  /\ b_barrier' = b_barrier + 1
  /\ Goto(p, "idle")
  /\ UNCHANGED <<ready, b_mutex, b_count, b_num, killed, loaded, arrivals, passes>>

-----------------------------------------------------------------------------
Step(p) ==
  /\ p \notin killed
  /\ \/ Lock(p) \/ Load(p) \/ Store(p) \/ Unlock(p)
     \/ Signal(p) \/ Turnstile(p) \/ Notify(p)

\* A process is killed: what it did to the semaphores stays, and what it was
\* about to do is never done.
Kill(p) ==
  /\ ready /\ p \notin killed
  /\ Cardinality(killed) < MaxKills
  /\ killed' = killed \cup {p}
  /\ UNCHANGED <<ready, shmVars, pc, loaded, arrivals, passes>>

Next == BarrierInit \/ \E p \in Proc : Enter(p) \/ Step(p) \/ Kill(p)

Spec == Init /\ [][Next]_vars

\* A process inside barrier_wait is scheduled; one that runs its own code need
\* never call it.  Each process takes each semaphore once a round, so a waiter
\* is in the end its only contender: weak fairness is enough for one round.
FairSpec == Spec /\ \A p \in Proc : WF_vars(Step(p))

-----------------------------------------------------------------------------
Places == {"idle", "lock", "load", "store", "unlock", "unlockSignal", "signal",
           "turnstile", "notify"}

-----------------------------------------------------------------------------
(* Properties. *)

\* Every variable keeps its type; the guarding semaphore is binary.
TypeOK ==
  /\ ready \in BOOLEAN
  /\ b_mutex \in 0 .. 1
  /\ b_barrier \in Nat
  /\ b_count \in Nat /\ b_num \in Nat
  /\ pc \in [Proc -> Places]
  /\ killed \subseteq Proc
  /\ loaded \in [Proc -> Nat]
  /\ arrivals \in [Proc -> Nat]
  /\ passes \in [Proc -> Nat]

\* Nobody passes the barrier before everybody has arrived, whatever an earlier
\* run left in the shared memory (barrier_init, barrier_wait).
NobodyEarly == \A p, q \in Proc : passes[p] <= arrivals[q]

\* At most one process is let through at a time and nothing is let through
\* twice: the turnstile's permits are never more than one.
OnePermit ==
  ready => b_barrier + Cardinality(At({"unlockSignal", "signal", "notify"})) <= 1

\* A single use of barrier_wait does what the abstract barrier does.
AB == INSTANCE AbstractBarrier

Implements == AB!Spec

\* A process killed at one of these places owes the others its arrival, the
\* mutex, the signal or the permit; killed in the turnstile's sem_wait, or when
\* it has returned, it owes nothing.
Owing == {"lock", "load", "store", "unlock", "unlockSignal", "signal", "notify"}

\* When everybody calls barrier_wait everybody who lives returns from it, unless
\* one is killed where it owes the others something.
EverybodyPasses ==
  (\A p \in Proc : pc[p] # "idle" \/ passes[p] = 1) ~>
    \/ \E p \in killed : pc[p] \in Owing
    \/ \A p \in Proc \ killed : pc[p] = "idle" /\ passes[p] = 1
=============================================================================
