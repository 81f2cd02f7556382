---------------------------- MODULE BarrierProofs ----------------------------
(***************************************************************************)
(* One use of the barrier is correct for every finite set of processes,    *)
(* whatever an earlier run left in the shared memory and whichever of the  *)
(* processes are killed.                                                   *)
(***************************************************************************)
EXTENDS Barrier, FiniteSetTheorems, TLAPS

-----------------------------------------------------------------------------
(* The inductive invariant. *)

Counted == {p \in Proc : arrivals[p] = 1}

\* Between sem_wait and sem_post of b_mutex.
Section == {"load", "store", "unlock", "unlockSignal"}

\* Holding, or about to post, the turnstile's permit.
Permit == {"unlockSignal", "signal", "notify"}

\* What the place of a process says of its call.
PlaceInv ==
  /\ ~ready => \A p \in Proc : pc[p] = "idle" /\ arrivals[p] = 0 /\ passes[p] = 0
  /\ \A p \in Proc :
       /\ arrivals[p] \in {0, 1}
       /\ passes[p] \in {0, 1}
       /\ pc[p] \in {"lock", "load", "store"} => arrivals[p] = 0
       /\ pc[p] \in {"unlock", "unlockSignal", "signal", "turnstile", "notify"} =>
            arrivals[p] = 1
       /\ pc[p] \in {"lock", "load", "store", "unlock", "unlockSignal", "signal", "turnstile"} =>
            passes[p] = 0
       /\ pc[p] = "notify" => passes[p] = 1
       /\ pc[p] = "idle" => passes[p] = arrivals[p]

\* b_mutex guards the section.
MutexInv ==
  ready =>
    /\ \A p \in Proc : pc[p] \in Section => b_mutex = 0
    /\ \A p, q \in Proc : pc[p] \in Section /\ pc[q] \in Section => p = q

\* b_count is the number of processes counted, and goes back to zero.
CountInv ==
  ready =>
    /\ b_num = Count
    /\ b_count = IF Counted = Proc THEN 0 ELSE Cardinality(Counted)
    /\ \A p \in Proc : pc[p] = "store" => loaded[p] = b_count

\* Nothing opens the turnstile before everybody is counted, and there is one
\* permit at most.
PermitInv ==
  ready =>
    /\ b_barrier \in {0, 1}
    /\ b_barrier = 1 => Counted = Proc
    /\ \A p \in Proc :
         /\ pc[p] \in Permit => b_barrier = 0 /\ Counted = Proc
         /\ passes[p] = 1 => Counted = Proc
    /\ \A p, q \in Proc : pc[p] \in Permit /\ pc[q] \in Permit => p = q

IInv == TypeOK /\ PlaceInv /\ MutexInv /\ CountInv /\ PermitInv

-----------------------------------------------------------------------------
(* Counting processes. *)

LEMMA CountedBound ==
  /\ Count \in Nat /\ Count > 0
  /\ IsFiniteSet(Counted) /\ Cardinality(Counted) \in Nat
  /\ Cardinality(Counted) <= Count
  /\ Counted # Proc => Cardinality(Counted) < Count
<1>1. Counted \subseteq Proc
  BY DEF Counted
<1>2. /\ IsFiniteSet(Counted) /\ Cardinality(Counted) <= Count
      /\ Cardinality(Counted) = Count => Counted = Proc
  BY <1>1, BarrierAssumption, FS_Subset DEF Count
<1>3. Count \in Nat /\ Cardinality(Counted) \in Nat
  BY <1>2, BarrierAssumption, FS_CardinalityType DEF Count
<1>4. Count # 0
  BY BarrierAssumption, FS_EmptySet DEF Count
<1> QED
  BY <1>2, <1>3, <1>4

LEMMA InitIInv == Init => IInv
<1> SUFFICES ASSUME Init PROVE IInv
  OBVIOUS
<1>1. TypeOK
  <2>1. 0 .. 1 \subseteq Nat /\ 0 \in Nat
    OBVIOUS
  <2> QED
    BY <2>1 DEF Init, TypeOK, Places
<1>2. PlaceInv
  BY DEF Init, PlaceInv
<1> QED
  BY <1>1, <1>2 DEF Init, IInv, MutexInv, CountInv, PermitInv

-----------------------------------------------------------------------------
(* The steps. *)

LEMMA BarrierInitStep == IInv /\ BarrierInit => IInv'
<1> SUFFICES ASSUME IInv, BarrierInit PROVE IInv'
  OBVIOUS
<1>1. /\ b_num' = Count /\ b_count' = 0 /\ b_mutex' = 1 /\ b_barrier' = 0 /\ ready'
      /\ UNCHANGED <<pc, killed, loaded, arrivals, passes>>
      /\ \A p \in Proc : pc[p] = "idle" /\ arrivals[p] = 0 /\ passes[p] = 0
  BY DEF BarrierInit, IInv, PlaceInv
<1>2. Count \in Nat
  BY CountedBound
<1>3. TypeOK'
  BY <1>1, <1>2 DEF IInv, TypeOK
<1>4. PlaceInv' /\ MutexInv' /\ PermitInv'
  BY <1>1 DEF IInv, PlaceInv, MutexInv, PermitInv, Section, Permit
<1>5. CountInv'
  <2>1. Counted' = {}
    BY <1>1 DEF Counted
  <2>2. Cardinality({}) = 0
    BY FS_EmptySet
  <2> QED
    BY <1>1, <2>1, <2>2 DEF CountInv
<1> QED
  BY <1>3, <1>4, <1>5 DEF IInv

\* A step that moves one process and leaves the counts alone.
LEMMA CountedSame ==
  ASSUME UNCHANGED arrivals
  PROVE  Counted' = Counted
  BY DEF Counted

LEMMA EnterStep ==
  ASSUME Rounds = 1, NEW p \in Proc, IInv, Enter(p) PROVE IInv'
<1>1. /\ ready /\ ready' /\ pc[p] = "idle" /\ arrivals[p] = 0 /\ passes[p] = 0
      /\ pc' = [pc EXCEPT ![p] = "lock"]
      /\ UNCHANGED <<b_mutex, b_barrier, b_count, b_num, killed, loaded, arrivals, passes>>
  BY DEF Enter, Goto, shmVars, IInv, TypeOK, PlaceInv
<1>2. Counted' = Counted
  BY <1>1, CountedSame
<1>3. TypeOK'
  BY <1>1 DEF IInv, TypeOK, Places
<1>4. PlaceInv' /\ MutexInv'
  BY <1>1 DEF IInv, TypeOK, PlaceInv, MutexInv, Section
<1>5. CountInv' /\ PermitInv'
  BY <1>1, <1>2 DEF IInv, TypeOK, CountInv, PermitInv, Permit
<1> QED
  BY <1>3, <1>4, <1>5 DEF IInv

\* Whoever is in barrier_wait got there after barrier_init.
LEMMA InsideIsReady ==
  ASSUME IInv, NEW p \in Proc, pc[p] # "idle" PROVE ready
  BY DEF IInv, PlaceInv

LEMMA LockStep ==
  ASSUME NEW p \in Proc, IInv, Lock(p) PROVE IInv'
<1>1. /\ ready /\ ready' /\ pc[p] = "lock" /\ b_mutex = 1 /\ b_mutex' = 0
      /\ pc' = [pc EXCEPT ![p] = "load"]
      /\ UNCHANGED <<b_barrier, b_count, b_num, killed, loaded, arrivals, passes>>
  BY InsideIsReady DEF Lock, Goto, IInv, TypeOK
<1>2. Counted' = Counted
  BY <1>1, CountedSame
<1>3. TypeOK'
  BY <1>1 DEF IInv, TypeOK, Places
<1>4. PlaceInv' /\ MutexInv'
  BY <1>1 DEF IInv, TypeOK, PlaceInv, MutexInv, Section
<1>5. CountInv' /\ PermitInv'
  BY <1>1, <1>2 DEF IInv, TypeOK, CountInv, PermitInv, Permit
<1> QED
  BY <1>3, <1>4, <1>5 DEF IInv

LEMMA LoadStep ==
  ASSUME NEW p \in Proc, IInv, Load(p) PROVE IInv'
<1>1. /\ ready /\ ready' /\ pc[p] = "load"
      /\ loaded' = [loaded EXCEPT ![p] = b_count]
      /\ pc' = [pc EXCEPT ![p] = "store"]
      /\ UNCHANGED <<b_mutex, b_barrier, b_count, b_num, killed, arrivals, passes>>
  BY InsideIsReady DEF Load, Goto, shmVars
<1>2. Counted' = Counted
  BY <1>1, CountedSame
<1>3. TypeOK'
  BY <1>1 DEF IInv, TypeOK, Places
<1>4. PlaceInv' /\ MutexInv'
  BY <1>1 DEF IInv, TypeOK, PlaceInv, MutexInv, Section
<1>5. CountInv' /\ PermitInv'
  BY <1>1, <1>2 DEF IInv, TypeOK, CountInv, PermitInv, Permit
<1> QED
  BY <1>3, <1>4, <1>5 DEF IInv

\* The count and the set it counts move together.
LEMMA StoreStep ==
  ASSUME NEW p \in Proc, IInv, Store(p) PROVE IInv'
<1> DEFINE signal == loaded[p] + 1 = b_num
<1>1. /\ ready /\ ready' /\ pc[p] = "store" /\ arrivals[p] = 0 /\ passes[p] = 0
      /\ loaded[p] = b_count
      /\ b_count' = IF signal THEN 0 ELSE b_count + 1
      /\ arrivals' = [arrivals EXCEPT ![p] = 1]
      /\ pc' = [pc EXCEPT ![p] = IF signal THEN "unlockSignal" ELSE "unlock"]
      /\ UNCHANGED <<b_mutex, b_barrier, b_num, killed, loaded, passes>>
  <2>1. /\ ready /\ ready' /\ pc[p] = "store"
        /\ UNCHANGED <<b_mutex, b_barrier, b_num, killed, loaded, passes>>
    BY InsideIsReady DEF Store
  <2>2. arrivals[p] = 0 /\ passes[p] = 0 /\ loaded[p] = b_count
    BY <2>1 DEF IInv, PlaceInv, CountInv
  <2> QED
    BY <2>1, <2>2 DEF Store, Goto, IInv, TypeOK
<1>2. p \notin Counted /\ Counted # Proc /\ Counted' = Counted \cup {p}
  BY <1>1 DEF Counted, IInv, TypeOK
<1>3. b_count = Cardinality(Counted) /\ Cardinality(Counted') = b_count + 1
  BY <1>1, <1>2, CountedBound, FS_AddElement DEF IInv, CountInv
<1>4. signal <=> Counted' = Proc
  <2>1. Counted' \subseteq Proc
    BY DEF Counted
  <2>2. Cardinality(Counted') = Count => Counted' = Proc
    BY <2>1, BarrierAssumption, FS_Subset DEF Count
  <2>3. b_num = Count
    BY <1>1 DEF IInv, CountInv
  <2> QED
    BY <1>1, <1>3, <2>2, <2>3 DEF Count
<1>5. b_count' \in Nat
  BY <1>1, <1>3, CountedBound
<1> HIDE DEF signal
<1>6. TypeOK'
  BY <1>1, <1>5 DEF IInv, TypeOK, Places
<1>7. PlaceInv' /\ MutexInv'
  BY <1>1 DEF IInv, TypeOK, PlaceInv, MutexInv, Section
<1>8. CountInv'
  <2>1. \A q \in Proc : q # p => pc[q] # "store"
    BY <1>1 DEF IInv, MutexInv, Section
  <2>2. \A q \in Proc : pc'[q] # "store"
    BY <1>1, <2>1 DEF IInv, TypeOK
  <2>3. b_num' = Count
    BY <1>1 DEF IInv, CountInv
  <2>4. b_count' = IF Counted' = Proc THEN 0 ELSE Cardinality(Counted')
    BY <1>1, <1>3, <1>4
  <2> QED
    BY <2>2, <2>3, <2>4 DEF CountInv
<1>9. PermitInv'
  <2>1. b_barrier = 0 /\ \A q \in Proc : pc[q] \notin Permit /\ passes[q] = 0
    BY <1>1, <1>2 DEF IInv, PlaceInv, PermitInv
  <2>2. \A q \in Proc : pc'[q] \in Permit => q = p /\ signal
    BY <1>1, <2>1 DEF IInv, TypeOK, Permit
  <2> QED
    BY <1>1, <1>4, <2>1, <2>2 DEF PermitInv
<1> QED
  BY <1>6, <1>7, <1>8, <1>9 DEF IInv

LEMMA UnlockStep ==
  ASSUME NEW p \in Proc, IInv, Unlock(p) PROVE IInv'
<1>1. /\ ready /\ ready' /\ pc[p] \in {"unlock", "unlockSignal"}
      /\ b_mutex = 0 /\ b_mutex' = 1
      /\ pc' = [pc EXCEPT ![p] = IF pc[p] = "unlockSignal" THEN "signal" ELSE "turnstile"]
      /\ UNCHANGED <<b_barrier, b_count, b_num, killed, loaded, arrivals, passes>>
  BY InsideIsReady DEF Unlock, Goto, IInv, MutexInv, Section
<1>2. Counted' = Counted
  BY <1>1, CountedSame
<1>3. TypeOK'
  BY <1>1 DEF IInv, TypeOK, Places
<1>4. PlaceInv' /\ MutexInv'
  BY <1>1 DEF IInv, TypeOK, PlaceInv, MutexInv, Section
<1>5. CountInv' /\ PermitInv'
  BY <1>1, <1>2 DEF IInv, TypeOK, CountInv, PermitInv, Permit
<1> QED
  BY <1>3, <1>4, <1>5 DEF IInv

\* The last process and every process let through post the turnstile.
LEMMA PostStep ==
  ASSUME NEW p \in Proc, IInv, Signal(p) \/ Notify(p) PROVE IInv'
<1>1. /\ ready /\ ready' /\ pc[p] \in {"signal", "notify"}
      /\ b_barrier' = b_barrier + 1
      /\ pc' = [pc EXCEPT ![p] = IF pc[p] = "signal" THEN "turnstile" ELSE "idle"]
      /\ UNCHANGED <<b_mutex, b_count, b_num, killed, loaded, arrivals, passes>>
  BY InsideIsReady DEF Signal, Notify, Goto
<1>2. Counted' = Counted
  BY <1>1, CountedSame
<1>3. b_barrier = 0 /\ b_barrier' = 1 /\ Counted = Proc
  BY <1>1 DEF IInv, PermitInv, Permit
<1>4. TypeOK'
  BY <1>1, <1>3 DEF IInv, TypeOK, Places
<1>5. PlaceInv' /\ MutexInv'
  BY <1>1 DEF IInv, TypeOK, PlaceInv, MutexInv, Section
<1>6. CountInv'
  BY <1>1, <1>2 DEF IInv, TypeOK, CountInv
<1>7. PermitInv'
  BY <1>1, <1>2, <1>3 DEF IInv, TypeOK, PermitInv, Permit
<1> QED
  BY <1>4, <1>5, <1>6, <1>7 DEF IInv

LEMMA TurnstileStep ==
  ASSUME NEW p \in Proc, IInv, Turnstile(p) PROVE IInv'
<1>1. /\ ready /\ ready' /\ pc[p] = "turnstile" /\ passes[p] = 0
      /\ b_barrier = 1 /\ b_barrier' = 0 /\ Counted = Proc
      /\ passes' = [passes EXCEPT ![p] = 1]
      /\ pc' = [pc EXCEPT ![p] = "notify"]
      /\ UNCHANGED <<b_mutex, b_count, b_num, killed, loaded, arrivals>>
  <2>1. /\ ready /\ ready' /\ pc[p] = "turnstile" /\ b_barrier > 0
        /\ UNCHANGED <<b_mutex, b_count, b_num, killed, loaded, arrivals>>
    BY InsideIsReady DEF Turnstile
  <2>2. passes[p] = 0 /\ b_barrier = 1 /\ Counted = Proc
    BY <2>1 DEF IInv, PlaceInv, PermitInv
  <2> QED
    BY <2>1, <2>2 DEF Turnstile, Goto, IInv, TypeOK
<1>2. Counted' = Counted
  BY <1>1, CountedSame
<1>3. TypeOK'
  BY <1>1 DEF IInv, TypeOK, Places
<1>4. PlaceInv' /\ MutexInv'
  BY <1>1 DEF IInv, TypeOK, PlaceInv, MutexInv, Section
<1>5. CountInv' /\ PermitInv'
  BY <1>1, <1>2 DEF IInv, TypeOK, CountInv, PermitInv, Permit
<1> QED
  BY <1>3, <1>4, <1>5 DEF IInv

\* A death leaves everything but the set of the dead as it is.
LEMMA KillStep ==
  ASSUME NEW p \in Proc, IInv, Kill(p) PROVE IInv'
<1>1. /\ killed' = killed \cup {p}
      /\ UNCHANGED <<ready, b_mutex, b_barrier, b_count, b_num, pc, loaded, arrivals, passes>>
  BY DEF Kill, shmVars
<1>2. Counted' = Counted
  BY <1>1, CountedSame
<1>3. TypeOK' /\ PlaceInv'
  BY <1>1 DEF IInv, TypeOK, PlaceInv
<1>4. MutexInv' /\ CountInv' /\ PermitInv'
  BY <1>1, <1>2 DEF IInv, MutexInv, CountInv, PermitInv
<1> QED
  BY <1>3, <1>4 DEF IInv

LEMMA StepIInv == Rounds = 1 /\ IInv /\ [Next]_vars => IInv'
<1> SUFFICES ASSUME Rounds = 1, IInv, [Next]_vars PROVE IInv'
  OBVIOUS
<1>1. CASE UNCHANGED vars
  BY <1>1 DEF vars, IInv, TypeOK, PlaceInv, MutexInv, CountInv, PermitInv, Counted
<1>2. CASE BarrierInit
  BY <1>2, BarrierInitStep
<1>3. ASSUME NEW p \in Proc, Enter(p) \/ Step(p) \/ Kill(p) PROVE IInv'
  BY <1>3, EnterStep, LockStep, LoadStep, StoreStep, UnlockStep, PostStep, TurnstileStep,
     KillStep
  DEF Step
<1> QED
  BY <1>1, <1>2, <1>3 DEF Next

-----------------------------------------------------------------------------
(* What the invariant says of the properties. *)

\* Who has passed found everybody counted.
LEMMA NobodyEarlyNow == IInv => NobodyEarly
<1> SUFFICES ASSUME IInv, NEW p \in Proc, NEW q \in Proc
             PROVE  passes[p] <= arrivals[q]
  BY DEF NobodyEarly
<1>1. CASE passes[p] = 0
  BY <1>1 DEF IInv, TypeOK
<1>2. CASE passes[p] = 1
  BY <1>2 DEF IInv, PlaceInv, PermitInv, Counted
<1> QED
  BY <1>1, <1>2 DEF IInv, PlaceInv

\* Of the permits held and posted there is one at most.
LEMMA OnePermitNow == IInv => OnePermit
<1> SUFFICES ASSUME IInv, ready
             PROVE  b_barrier + Cardinality(At(Permit)) <= 1
  BY DEF OnePermit, Permit
<1>1. CASE At(Permit) = {}
  BY <1>1, FS_EmptySet DEF IInv, PermitInv
<1>2. CASE At(Permit) # {}
  <2>1. PICK p \in Proc \ killed : pc[p] \in Permit
    BY <1>2 DEF At
  <2>2. At(Permit) = {p}
    BY <2>1 DEF At, IInv, PermitInv
  <2>3. b_barrier = 0
    BY <2>1 DEF IInv, PermitInv
  <2>4. Cardinality({p}) = 1
    BY FS_Singleton
  <2> QED
    BY <2>2, <2>3, <2>4
<1> QED
  BY <1>1, <1>2

\* The store that counts a process is its arrival, the turnstile's sem_wait its
\* passing; every other step stutters.
LEMMA StepRefines == Rounds = 1 /\ IInv /\ [Next]_vars => [AB!Next]_(AB!vars)
<1> SUFFICES ASSUME Rounds = 1, IInv, [Next]_vars PROVE [AB!Next]_(AB!vars)
  OBVIOUS
<1>1. CASE UNCHANGED <<arrivals, passes>>
  BY <1>1 DEF AB!vars
<1>2. ASSUME NEW p \in Proc, Store(p) PROVE AB!Arrive(p)
  <2>1. arrivals[p] = 0 /\ passes[p] = 0
    BY <1>2 DEF Store, IInv, PlaceInv
  <2> QED
    BY <1>2, <2>1 DEF Store, AB!Arrive
<1>3. ASSUME NEW p \in Proc, Turnstile(p) PROVE AB!Pass(p)
  <2>1. ready /\ passes[p] = 0 /\ b_barrier = 1
    BY <1>3, InsideIsReady DEF Turnstile, IInv, PlaceInv, PermitInv
  <2>2. \A q \in Proc : arrivals[q] = 1
    BY <2>1 DEF IInv, PermitInv, Counted
  <2> QED
    BY <1>3, <2>1, <2>2 DEF Turnstile, AB!Pass
<1>4. ASSUME NEW p \in Proc,
             \/ Enter(p) \/ Lock(p) \/ Load(p) \/ Unlock(p) \/ Signal(p) \/ Notify(p)
             \/ Kill(p)
      PROVE  UNCHANGED <<arrivals, passes>>
  BY <1>4 DEF Enter, Kill, Lock, Load, Unlock, Signal, Notify
<1> QED
  BY <1>1, <1>2, <1>3, <1>4 DEF Next, Step, BarrierInit, vars, AB!Next

-----------------------------------------------------------------------------
(* The theorems. *)

\* The inductive invariant holds in every reachable state of one use.
THEOREM Invariance == ASSUME Rounds = 1 PROVE Spec => []IInv
<1>1. Init => IInv
  BY InitIInv
<1>2. IInv /\ [Next]_vars => IInv'
  BY StepIInv
<1> QED
  BY <1>1, <1>2, PTL DEF Spec

\* Every variable of barrier_wait keeps its type; b_mutex stays binary.
THEOREM TypeCorrect == ASSUME Rounds = 1 PROVE Spec => []TypeOK
<1>1. IInv => TypeOK
  BY DEF IInv
<1> QED
  BY <1>1, Invariance, PTL

\* For every number of processes, nobody passes the barrier early.
THEOREM NoEarlyPass == ASSUME Rounds = 1 PROVE Spec => []NobodyEarly
  BY NobodyEarlyNow, Invariance, PTL

\* For every number of processes, the turnstile has at most one permit.
THEOREM SinglePermit == ASSUME Rounds = 1 PROVE Spec => []OnePermit
  BY OnePermitNow, Invariance, PTL

\* One use of the semaphore barrier implements the abstract barrier: the store
\* that counts a process is its arrival, the turnstile's sem_wait its passing.
THEOREM Refinement == ASSUME Rounds = 1 PROVE Spec => Implements
<1>1. Init => AB!Init
  BY DEF Init, AB!Init
<1> QED
  BY <1>1, StepRefines, Invariance, PTL DEF Spec, Implements, AB!Spec
=============================================================================
