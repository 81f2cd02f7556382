------------------------- MODULE SharedBarrierProofs -------------------------
(***************************************************************************)
(* The barrier on the shared memory of two runs that do not overlap, each  *)
(* of any number of processes.  What Barrier takes for its Init, that an   *)
(* earlier run leaves nothing but values of the right types, is what the   *)
(* other run does here, killed where one likes and started again; and once *)
(* the run looked at has passed or died, the other may have the memory     *)
(* again.                                                                  *)
(***************************************************************************)
EXTENDS SharedBarrier, BarrierProofs

-----------------------------------------------------------------------------
(* The inductive invariant. *)

o_num == Cardinality(Other)

OtherCounted == {q \in Other : oArrivals[q] = 1}

\* TypeOK and PlaceInv for the other run.
OtherPlaces ==
  /\ oReady \in BOOLEAN
  /\ oPc \in [Other -> Places]
  /\ oKilled \subseteq Other
  /\ oLoaded \in [Other -> Nat]
  /\ oArrivals \in [Other -> {0, 1}] /\ oPasses \in [Other -> {0, 1}]
  /\ ~oReady => \A q \in Other : oPc[q] = "idle" /\ oArrivals[q] = 0 /\ oPasses[q] = 0
  /\ \A q \in Other :
       /\ oPc[q] \in {"lock", "load", "store"} => oArrivals[q] = 0
       /\ oPc[q] \in {"unlock", "unlockSignal", "signal", "turnstile", "notify"} =>
            oArrivals[q] = 1
       /\ oPc[q] \in {"lock", "load", "store", "unlock", "unlockSignal", "signal", "turnstile"} =>
            oPasses[q] = 0
       /\ oPc[q] = "notify" => oPasses[q] = 1
       /\ oPc[q] = "idle" => oPasses[q] = oArrivals[q]

\* A process that was killed in the section has b_mutex for ever.
OtherMutex ==
  /\ b_mutex \in {0, 1}
  /\ \A q \in Other : oPc[q] \in Section => b_mutex = 0
  /\ \A q, r \in Other : oPc[q] \in Section /\ oPc[r] \in Section => q = r

OtherCount ==
  /\ b_num = o_num /\ b_count \in Nat
  /\ b_count = IF OtherCounted = Other THEN 0 ELSE Cardinality(OtherCounted)
  /\ \A q \in Other : oPc[q] = "store" => oLoaded[q] = b_count

OtherPermit ==
  /\ b_barrier \in {0, 1}
  /\ b_barrier = 1 => OtherCounted = Other
  /\ \A q \in Other :
       /\ oPc[q] \in Permit => b_barrier = 0 /\ OtherCounted = Other
       /\ oPasses[q] = 1 => OtherCounted = Other
  /\ \A q, r \in Other : oPc[q] \in Permit /\ oPc[r] \in Permit => q = r

OtherInv == OtherPlaces /\ OtherMutex /\ OtherCount /\ OtherPermit

\* The memory is in order for the run that is at its barrier, which is one at
\* most; for a run that is not it holds values of the right types.
SharedInv ==
  /\ TypeOK /\ PlaceInv /\ OtherPlaces
  /\ b_barrier \in {0, 1}
  /\ NobodyEarly
  /\ AtBarrier => IInv
  /\ OtherAtBarrier => OtherInv
  /\ ~(AtBarrier /\ OtherAtBarrier)

-----------------------------------------------------------------------------
(* The other run's processes. *)

LEMMA OtherBound ==
  /\ o_num \in Nat /\ o_num > 0
  /\ IsFiniteSet(OtherCounted) /\ Cardinality(OtherCounted) \in Nat
  /\ OtherCounted # Other => Cardinality(OtherCounted) < o_num
<1>1. OtherCounted \subseteq Other
  BY DEF OtherCounted
<1>2. /\ IsFiniteSet(OtherCounted) /\ Cardinality(OtherCounted) <= o_num
      /\ Cardinality(OtherCounted) = o_num => OtherCounted = Other
  BY <1>1, SharedAssumption, FS_Subset DEF o_num
<1>3. o_num \in Nat /\ Cardinality(OtherCounted) \in Nat
  BY <1>2, SharedAssumption, FS_CardinalityType DEF o_num
<1>4. o_num # 0
  BY SharedAssumption, FS_EmptySet DEF o_num
<1> QED
  BY <1>2, <1>3, <1>4

\* Whoever is in barrier_wait got there after barrier_init.
LEMMA OtherIsReady ==
  ASSUME OtherPlaces, NEW q \in Other, oPc[q] # "idle" PROVE oReady
  BY DEF OtherPlaces

\* A process of the other run that can move is at its barrier.
LEMMA OtherMoves ==
  ASSUME Rounds = 1, OtherPlaces, NEW q \in Other, O!Enter(q) \/ O!Step(q)
  PROVE  OtherAtBarrier
<1>1. CASE O!Enter(q)
  <2>1. oReady /\ q \notin oKilled /\ oPc[q] = "idle" /\ oArrivals[q] = 0
    BY <1>1 DEF O!Enter, OtherPlaces
  <2> QED
    BY <2>1 DEF OtherPlaces, OtherAtBarrier
<1>2. CASE O!Step(q)
  <2>1. q \notin oKilled /\ oPc[q] # "idle"
    BY <1>2 DEF O!Step, O!Lock, O!Load, O!Store, O!Unlock, O!Signal, O!Turnstile, O!Notify
  <2> QED
    BY <2>1, OtherIsReady DEF OtherAtBarrier
<1> QED
  BY <1>1, <1>2

LEMMA OtherInitStep ==
  ASSUME OtherPlaces, O!BarrierInit PROVE OtherInv'
<1>1. /\ b_num' = o_num /\ b_count' = 0 /\ b_mutex' = 1 /\ b_barrier' = 0 /\ oReady' = TRUE
      /\ UNCHANGED <<oPc, oKilled, oLoaded, oArrivals, oPasses>>
      /\ \A q \in Other : oPc[q] = "idle" /\ oArrivals[q] = 0 /\ oPasses[q] = 0
  <2>1. O!Count = o_num
    BY DEF O!Count, o_num, O!Cardinality, Cardinality
  <2> QED
    BY <2>1 DEF O!BarrierInit, OtherPlaces
<1>2. OtherPlaces' /\ OtherMutex' /\ OtherPermit'
  BY <1>1 DEF OtherPlaces, OtherMutex, OtherPermit, Section, Permit
<1>3. OtherCount'
  <2>1. OtherCounted' = {} /\ Other # {}
    BY <1>1, SharedAssumption DEF OtherCounted
  <2>2. Cardinality({}) = 0
    BY FS_EmptySet
  <2> QED
    BY <1>1, <2>1, <2>2 DEF OtherCount
<1> QED
  BY <1>2, <1>3 DEF OtherInv

\* Every step but the store leaves the counted as they were.
LEMMA OtherCountedSame ==
  ASSUME UNCHANGED oArrivals
  PROVE  OtherCounted' = OtherCounted
  BY DEF OtherCounted

LEMMA OtherEnterStep ==
  ASSUME Rounds = 1, NEW q \in Other, OtherInv, O!Enter(q) PROVE OtherInv'
<1>1. /\ oReady = TRUE /\ oPc[q] = "idle" /\ oArrivals[q] = 0 /\ oPasses[q] = 0
      /\ oPc' = [oPc EXCEPT ![q] = "lock"]
      /\ UNCHANGED <<oReady, b_mutex, b_barrier, b_count, b_num, oKilled, oLoaded, oArrivals, oPasses>>
  BY DEF O!Enter, O!Goto, O!shmVars, OtherInv, OtherPlaces
<1>2. OtherCounted' = OtherCounted
  BY <1>1, OtherCountedSame
<1>3. OtherPlaces' /\ OtherMutex'
  BY <1>1 DEF OtherInv, OtherPlaces, OtherMutex, Section, Places
<1>4. OtherCount' /\ OtherPermit'
  BY <1>1, <1>2 DEF OtherInv, OtherPlaces, OtherCount, OtherPermit, Permit
<1> QED
  BY <1>3, <1>4 DEF OtherInv

LEMMA OtherLockStep ==
  ASSUME NEW q \in Other, OtherInv, O!Lock(q) PROVE OtherInv'
<1>1. /\ oReady = TRUE /\ oPc[q] = "lock" /\ b_mutex = 1 /\ b_mutex' = 0
      /\ oPc' = [oPc EXCEPT ![q] = "load"]
      /\ UNCHANGED <<oReady, b_barrier, b_count, b_num, oKilled, oLoaded, oArrivals, oPasses>>
  BY OtherIsReady DEF O!Lock, O!Goto, OtherInv, OtherPlaces, OtherMutex
<1>2. OtherCounted' = OtherCounted
  BY <1>1, OtherCountedSame
<1>3. OtherPlaces' /\ OtherMutex'
  BY <1>1 DEF OtherInv, OtherPlaces, OtherMutex, Section, Places
<1>4. OtherCount' /\ OtherPermit'
  BY <1>1, <1>2 DEF OtherInv, OtherPlaces, OtherCount, OtherPermit, Permit
<1> QED
  BY <1>3, <1>4 DEF OtherInv

LEMMA OtherLoadStep ==
  ASSUME NEW q \in Other, OtherInv, O!Load(q) PROVE OtherInv'
<1>1. /\ oReady = TRUE /\ oPc[q] = "load"
      /\ oLoaded' = [oLoaded EXCEPT ![q] = b_count]
      /\ oPc' = [oPc EXCEPT ![q] = "store"]
      /\ UNCHANGED <<oReady, b_mutex, b_barrier, b_count, b_num, oKilled, oArrivals, oPasses>>
  BY OtherIsReady DEF O!Load, O!Goto, O!shmVars, OtherInv, OtherPlaces
<1>2. OtherCounted' = OtherCounted
  BY <1>1, OtherCountedSame
<1>3. b_count \in Nat
  BY OtherBound DEF OtherInv, OtherCount
<1>4. OtherPlaces' /\ OtherMutex'
  BY <1>1, <1>3 DEF OtherInv, OtherPlaces, OtherMutex, Section, Places
<1>5. OtherCount' /\ OtherPermit'
  BY <1>1, <1>2 DEF OtherInv, OtherPlaces, OtherCount, OtherPermit, Permit
<1> QED
  BY <1>4, <1>5 DEF OtherInv

LEMMA OtherStoreStep ==
  ASSUME NEW q \in Other, OtherInv, O!Store(q) PROVE OtherInv'
<1> DEFINE signal == oLoaded[q] + 1 = o_num
<1>1. /\ oReady = TRUE /\ oPc[q] = "store" /\ oArrivals[q] = 0 /\ oPasses[q] = 0
      /\ oLoaded[q] = b_count
      /\ b_count' = IF signal THEN 0 ELSE b_count + 1
      /\ oArrivals' = [oArrivals EXCEPT ![q] = 1]
      /\ oPc' = [oPc EXCEPT ![q] = IF signal THEN "unlockSignal" ELSE "unlock"]
      /\ UNCHANGED <<oReady, b_mutex, b_barrier, b_num, oKilled, oLoaded, oPasses>>
  <2>1. /\ oPc[q] = "store" /\ UNCHANGED <<oReady, b_mutex, b_barrier, b_num, oKilled, oLoaded, oPasses>>
    BY DEF O!Store
  <2>2. oReady = TRUE /\ oArrivals[q] = 0 /\ oPasses[q] = 0 /\ oLoaded[q] = b_count
    BY <2>1, OtherIsReady DEF OtherInv, OtherPlaces, OtherCount
  <2>3. b_num = o_num
    BY DEF OtherInv, OtherCount
  <2>4. /\ b_count' = IF signal THEN 0 ELSE b_count + 1
        /\ oPc' = [oPc EXCEPT ![q] = IF signal THEN "unlockSignal" ELSE "unlock"]
    BY <2>2, <2>3 DEF O!Store, O!Goto
  <2>5. oArrivals' = [oArrivals EXCEPT ![q] = 1]
    BY <2>2 DEF O!Store
  <2> QED
    BY <2>1, <2>2, <2>4, <2>5
<1>2. q \notin OtherCounted /\ OtherCounted # Other /\ OtherCounted' = OtherCounted \cup {q}
  BY <1>1 DEF OtherCounted, OtherInv, OtherPlaces
<1>3. b_count = Cardinality(OtherCounted) /\ Cardinality(OtherCounted') = b_count + 1
  BY <1>1, <1>2, OtherBound, FS_AddElement DEF OtherInv, OtherCount
<1>4. signal <=> OtherCounted' = Other
  <2>1. OtherCounted' \subseteq Other
    BY DEF OtherCounted
  <2>2. Cardinality(OtherCounted') = o_num => OtherCounted' = Other
    BY <2>1, SharedAssumption, FS_Subset DEF o_num
  <2> QED
    BY <1>1, <1>3, <2>2 DEF o_num
<1> HIDE DEF signal
<1>6. OtherPlaces' /\ OtherMutex'
  BY <1>1 DEF OtherInv, OtherPlaces, OtherMutex, Section, Places
<1>7. OtherCount'
  <2>1. \A r \in Other : oPc'[r] # "store"
    BY <1>1 DEF OtherInv, OtherPlaces, OtherMutex, Section
  <2>2. b_num' = o_num
    BY <1>1 DEF OtherInv, OtherCount
  <2>3. b_count' = IF OtherCounted' = Other THEN 0 ELSE Cardinality(OtherCounted')
    BY <1>1, <1>3, <1>4
  <2>4. b_count' \in Nat
    BY <1>1, <1>3, OtherBound
  <2> QED
    BY <2>1, <2>2, <2>3, <2>4 DEF OtherCount
<1>8. OtherPermit'
  <2>1. b_barrier = 0 /\ \A r \in Other : oPc[r] \notin Permit /\ oPasses[r] = 0
    BY <1>1, <1>2 DEF OtherInv, OtherPlaces, OtherPermit
  <2>2. \A r \in Other : oPc'[r] \in Permit => r = q /\ signal
    BY <1>1, <2>1 DEF OtherInv, OtherPlaces, Permit
  <2> QED
    BY <1>1, <1>4, <2>1, <2>2 DEF OtherPermit
<1> QED
  BY <1>6, <1>7, <1>8 DEF OtherInv

LEMMA OtherUnlockStep ==
  ASSUME NEW q \in Other, OtherInv, O!Unlock(q) PROVE OtherInv'
<1>1. /\ oReady = TRUE /\ oPc[q] \in {"unlock", "unlockSignal"}
      /\ b_mutex = 0 /\ b_mutex' = 1
      /\ oPc' = [oPc EXCEPT ![q] = IF oPc[q] = "unlockSignal" THEN "signal" ELSE "turnstile"]
      /\ UNCHANGED <<oReady, b_barrier, b_count, b_num, oKilled, oLoaded, oArrivals, oPasses>>
  BY OtherIsReady DEF O!Unlock, O!Goto, OtherInv, OtherPlaces, OtherMutex, Section
<1>2. OtherCounted' = OtherCounted
  BY <1>1, OtherCountedSame
<1>3. OtherPlaces' /\ OtherMutex'
  BY <1>1 DEF OtherInv, OtherPlaces, OtherMutex, Section, Places
<1>4. OtherCount' /\ OtherPermit'
  BY <1>1, <1>2 DEF OtherInv, OtherPlaces, OtherCount, OtherPermit, Permit
<1> QED
  BY <1>3, <1>4 DEF OtherInv

LEMMA OtherPostStep ==
  ASSUME NEW q \in Other, OtherInv, O!Signal(q) \/ O!Notify(q) PROVE OtherInv'
<1>1. /\ oReady = TRUE /\ oPc[q] \in {"signal", "notify"}
      /\ b_barrier = 0 /\ b_barrier' = 1 /\ OtherCounted = Other
      /\ oPc' = [oPc EXCEPT ![q] = IF oPc[q] = "signal" THEN "turnstile" ELSE "idle"]
      /\ UNCHANGED <<oReady, b_mutex, b_count, b_num, oKilled, oLoaded, oArrivals, oPasses>>
  BY OtherIsReady DEF O!Signal, O!Notify, O!Goto, OtherInv, OtherPlaces, OtherPermit, Permit
<1>2. OtherCounted' = OtherCounted
  BY <1>1, OtherCountedSame
<1>3. OtherPlaces' /\ OtherMutex'
  BY <1>1 DEF OtherInv, OtherPlaces, OtherMutex, Section, Places
<1>4. OtherCount' /\ OtherPermit'
  BY <1>1, <1>2 DEF OtherInv, OtherPlaces, OtherCount, OtherPermit, Permit
<1> QED
  BY <1>3, <1>4 DEF OtherInv

LEMMA OtherTurnstileStep ==
  ASSUME NEW q \in Other, OtherInv, O!Turnstile(q) PROVE OtherInv'
<1>1. /\ oReady = TRUE /\ oPc[q] = "turnstile"
      /\ b_barrier = 1 /\ b_barrier' = 0 /\ OtherCounted = Other
      /\ oPasses' = [oPasses EXCEPT ![q] = 1]
      /\ oPc' = [oPc EXCEPT ![q] = "notify"]
      /\ UNCHANGED <<oReady, b_mutex, b_count, b_num, oKilled, oLoaded, oArrivals>>
  <2>1. /\ oPc[q] = "turnstile" /\ b_barrier > 0
        /\ UNCHANGED <<oReady, b_mutex, b_count, b_num, oKilled, oLoaded, oArrivals>>
    BY DEF O!Turnstile
  <2>2. oReady = TRUE /\ oPasses[q] = 0 /\ b_barrier = 1 /\ OtherCounted = Other
    BY <2>1, OtherIsReady DEF OtherInv, OtherPlaces, OtherPermit
  <2> QED
    BY <2>1, <2>2 DEF O!Turnstile, O!Goto
<1>2. OtherCounted' = OtherCounted
  BY <1>1, OtherCountedSame
<1>3. OtherPlaces' /\ OtherMutex'
  BY <1>1 DEF OtherInv, OtherPlaces, OtherMutex, Section, Places
<1>4. OtherCount' /\ OtherPermit'
  BY <1>1, <1>2 DEF OtherInv, OtherPlaces, OtherCount, OtherPermit, Permit
<1> QED
  BY <1>3, <1>4 DEF OtherInv

\* A death leaves the memory as it is.
LEMMA OtherKillStep ==
  ASSUME NEW q \in Other, O!Kill(q)
  PROVE  /\ OtherPlaces => OtherPlaces'
         /\ OtherInv => OtherInv'
<1>1. /\ oReady /\ oKilled' = oKilled \cup {q}
      /\ UNCHANGED <<b_mutex, b_barrier, b_count, b_num, oReady, oPc, oLoaded, oArrivals,
                     oPasses>>
  BY DEF O!Kill, O!shmVars
<1>2. OtherCounted' = OtherCounted
  BY <1>1, OtherCountedSame
<1>3. OtherPlaces => OtherPlaces'
  BY <1>1 DEF OtherPlaces
<1>4. OtherMutex => OtherMutex'
  BY <1>1 DEF OtherMutex
<1>5. OtherCount /\ OtherPermit => OtherCount' /\ OtherPermit'
  BY <1>1, <1>2 DEF OtherCount, OtherPermit
<1> QED
  BY <1>3, <1>4, <1>5 DEF OtherInv

LEMMA OtherStepInv ==
  ASSUME Rounds = 1, NEW q \in Other, OtherInv, O!Enter(q) \/ O!Step(q) PROVE OtherInv'
  BY OtherEnterStep, OtherLockStep, OtherLoadStep, OtherStoreStep, OtherUnlockStep,
     OtherPostStep, OtherTurnstileStep DEF O!Step

-----------------------------------------------------------------------------
(* The two runs. *)

\* A process that can move is at its run's barrier.
LEMMA RunMoves ==
  ASSUME Rounds = 1, TypeOK, PlaceInv, NEW p \in Proc, Enter(p) \/ Step(p)
  PROVE  AtBarrier
<1>1. CASE Enter(p)
  <2>1. ready /\ p \notin killed /\ pc[p] = "idle" /\ arrivals[p] = 0 /\ passes[p] = 0
    BY <1>1 DEF Enter, TypeOK, PlaceInv
  <2> QED
    BY <2>1 DEF AtBarrier
<1>2. CASE Step(p)
  <2>1. p \notin killed /\ pc[p] # "idle"
    BY <1>2 DEF Step, Lock, Load, Store, Unlock, Signal, Turnstile, Notify
  <2> QED
    BY <2>1 DEF PlaceInv, AtBarrier
<1> QED
  BY <1>1, <1>2

\* The other run's steps, where this run is not at its barrier, leave it alone.
LEMMA OwnKept ==
  ASSUME TypeOK, PlaceInv, NobodyEarly, UNCHANGED ownVars,
         b_mutex' \in {0, 1}, b_barrier' \in {0, 1}, b_count' \in Nat, b_num' \in Nat
  PROVE  TypeOK' /\ PlaceInv' /\ NobodyEarly' /\ AtBarrier' = AtBarrier
<1>1. UNCHANGED <<ready, pc, killed, loaded, arrivals, passes>>
  BY DEF ownVars
<1>2. TypeOK'
  BY <1>1 DEF TypeOK
<1> QED
  BY <1>1, <1>2 DEF PlaceInv, NobodyEarly, AtBarrier

LEMMA SharedInitInv == SharedInit => SharedInv
<1> SUFFICES ASSUME SharedInit PROVE SharedInv
  OBVIOUS
<1>1. IInv
  BY InitIInv DEF SharedInit
<1>2. OtherPlaces /\ ~oReady
  BY DEF SharedInit, OtherPlaces, Places
<1> QED
  BY <1>1, <1>2, NobodyEarlyNow DEF SharedInit, SharedInv, IInv, AtBarrier, OtherAtBarrier, Init

LEMMA SharedStep == Rounds = 1 /\ ~Overlap /\ SharedInv /\ [SharedNext]_sharedVars => SharedInv'
<1> SUFFICES ASSUME Rounds = 1, ~Overlap, SharedInv, [SharedNext]_sharedVars PROVE SharedInv'
  OBVIOUS
<1>a. /\ TypeOK /\ PlaceInv /\ OtherPlaces /\ b_barrier \in {0, 1} /\ NobodyEarly
      /\ AtBarrier => IInv
      /\ OtherAtBarrier => OtherInv
      /\ ~(AtBarrier /\ OtherAtBarrier)
  BY DEF SharedInv
<1>b. ASSUME UNCHANGED oVars PROVE OtherPlaces' /\ OtherAtBarrier' = OtherAtBarrier
  BY <1>a, <1>b DEF oVars, OtherPlaces, OtherAtBarrier
<1>c. ASSUME IInv', UNCHANGED oVars, ~OtherAtBarrier, ready' PROVE SharedInv'
  <2>1. b_barrier' \in {0, 1}
    BY <1>c DEF IInv, PermitInv
  <2>2. NobodyEarly'
    BY <1>c, NobodyEarlyNow, PTL
  <2> QED
    BY <1>b, <1>c, <2>1, <2>2 DEF SharedInv, IInv
<1>1. CASE RunInit
  <2>1. BarrierInit /\ UNCHANGED oVars /\ ~OtherAtBarrier
    BY <1>1 DEF RunInit
  <2>2. IInv
    BY <1>a, <2>1 DEF BarrierInit, IInv, MutexInv, CountInv, PermitInv
  <2>3. IInv' /\ ready'
    BY <2>1, <2>2, BarrierInitStep DEF BarrierInit
  <2> QED
    BY <1>c, <2>1, <2>3
<1>2. ASSUME NEW p \in Proc, Enter(p) \/ Step(p), UNCHANGED oVars PROVE SharedInv'
  <2>1. AtBarrier /\ ~OtherAtBarrier /\ IInv
    BY <1>a, <1>2, RunMoves
  <2>2. IInv'
    BY <1>2, <2>1, StepIInv DEF Next
  <2>3. ready'
    BY <1>2, <2>1 DEF AtBarrier, Enter, Step, Lock, Load, Store, Unlock, Signal, Turnstile, Notify
  <2> QED
    BY <1>2, <1>c, <2>1, <2>2, <2>3
<1>3. ASSUME OtherInv', UNCHANGED ownVars, ~AtBarrier PROVE SharedInv'
  <2>1. b_mutex' \in {0, 1} /\ b_barrier' \in {0, 1}
    BY <1>3 DEF OtherInv, OtherMutex, OtherPermit
  <2>2. b_num' \in Nat /\ b_count' \in Nat
    BY <1>3, OtherBound DEF OtherInv, OtherCount
  <2>3. TypeOK' /\ PlaceInv' /\ NobodyEarly' /\ AtBarrier' = AtBarrier
    BY <1>a, <1>3, <2>1, <2>2, OwnKept
  <2> QED
    BY <1>3, <2>3 DEF SharedInv, OtherInv, OtherPermit
<1>4. CASE OtherInit
  BY <1>a, <1>3, <1>4, OtherInitStep DEF OtherInit
<1>5. ASSUME NEW q \in Other, O!Enter(q) \/ O!Step(q), UNCHANGED ownVars PROVE SharedInv'
  <2>1. OtherAtBarrier /\ OtherInv /\ ~AtBarrier
    BY <1>a, <1>5, OtherMoves
  <2>2. OtherInv'
    BY <1>5, <2>1, OtherStepInv
  <2> QED
    BY <1>3, <1>5, <2>1, <2>2
<1>d. ASSUME UNCHANGED vars
      PROVE  /\ TypeOK' /\ PlaceInv' /\ b_barrier' \in {0, 1} /\ NobodyEarly'
             /\ AtBarrier' = AtBarrier /\ (IInv => IInv')
  <2>1. UNCHANGED <<ready, b_mutex, b_barrier, b_count, b_num, pc, killed, loaded, arrivals,
                    passes>>
    BY <1>d DEF vars
  <2> QED
    BY <1>a, <1>d, <2>1, StepIInv DEF TypeOK, PlaceInv, NobodyEarly, AtBarrier
<1>6. ASSUME NEW q \in Other, O!Kill(q), UNCHANGED ownVars PROVE SharedInv'
  <2>1. UNCHANGED vars /\ oKilled' = oKilled \cup {q} /\ UNCHANGED <<oReady, oPc, oPasses>>
    BY <1>6 DEF O!Kill, O!shmVars, ownVars, vars
  <2>2. OtherAtBarrier' => OtherAtBarrier
    BY <2>1 DEF OtherAtBarrier
  <2>3. OtherPlaces' /\ (OtherInv => OtherInv')
    BY <1>a, <1>6, OtherKillStep
  <2> QED
    BY <1>a, <1>d, <2>1, <2>2, <2>3 DEF SharedInv
<1>7. CASE OtherRunAgain
  <2>1. /\ UNCHANGED vars /\ oReady' = FALSE /\ oKilled' = {}
        /\ oPc' = [q \in Other |-> "idle"] /\ oLoaded' = [q \in Other |-> 0]
        /\ oArrivals' = oLoaded' /\ oPasses' = oLoaded'
    BY <1>7 DEF OtherRunAgain
  <2>2. OtherPlaces' /\ ~OtherAtBarrier'
    BY <2>1 DEF OtherPlaces, OtherAtBarrier, Places
  <2> QED
    BY <1>a, <1>d, <2>1, <2>2 DEF SharedInv
<1>8. ASSUME NEW p \in Proc, Kill(p), UNCHANGED oVars PROVE SharedInv'
  <2>1. /\ killed' = killed \cup {p}
        /\ UNCHANGED <<ready, b_mutex, b_barrier, b_count, b_num, pc, loaded, arrivals, passes>>
    BY <1>8 DEF Kill, shmVars
  <2>2. TypeOK' /\ PlaceInv' /\ NobodyEarly'
    BY <1>a, <2>1 DEF TypeOK, PlaceInv, NobodyEarly
  <2>3. AtBarrier' => AtBarrier
    BY <2>1 DEF AtBarrier
  <2>4. IInv => IInv'
    BY <1>8, KillStep
  <2>5. OtherInv => OtherInv'
    BY <1>8, <2>1 DEF oVars, OtherInv, OtherPlaces, OtherMutex, OtherCount, OtherPermit,
         OtherCounted
  <2> QED
    BY <1>a, <1>b, <1>8, <2>1, <2>2, <2>3, <2>4, <2>5 DEF SharedInv
<1>9. CASE UNCHANGED sharedVars
  <2>1. UNCHANGED vars /\ UNCHANGED oVars
    BY <1>9 DEF sharedVars
  <2>2. OtherInv => OtherInv'
    BY <2>1 DEF vars, oVars, OtherInv, OtherPlaces, OtherMutex, OtherCount, OtherPermit,
         OtherCounted
  <2> QED
    BY <1>a, <1>b, <1>d, <2>1, <2>2 DEF SharedInv
<1> QED
  BY <1>1, <1>2, <1>4, <1>5, <1>6, <1>7, <1>8, <1>9 DEF SharedNext, RunStep, OtherStep

LEMMA SharedInvariance ==
  ASSUME Rounds = 1, ~Overlap PROVE SharedSpec => []SharedInv
<1>1. SharedInit => SharedInv
  BY SharedInitInv
<1>2. SharedInv /\ [SharedNext]_sharedVars => SharedInv'
  BY SharedStep
<1> QED
  BY <1>1, <1>2, PTL DEF SharedSpec

-----------------------------------------------------------------------------
(* The theorems. *)

\* The semaphores and the counter keep their types and b_mutex stays binary, however
\* many processes either run has, whoever works on them and is killed there
\* (barrier_init, barrier_wait).
THEOREM SharedTypeCorrect ==
  ASSUME Rounds = 1, ~Overlap PROVE SharedSpec => []TypeOK
<1>1. SharedInv => TypeOK
  BY DEF SharedInv
<1> QED
  BY <1>1, SharedInvariance, PTL

\* Whatever runs of more or fewer processes do before and after, nobody passes
\* this run's barrier early (barrier_init, barrier_wait).
THEOREM SharedNoEarlyPass ==
  ASSUME Rounds = 1, ~Overlap PROVE SharedSpec => []NobodyEarly
<1>1. SharedInv => NobodyEarly
  BY DEF SharedInv
<1> QED
  BY <1>1, SharedInvariance, PTL

\* There is one permit at most, also when another run has the turnstile
\* (barrier_wait).
THEOREM SharedSinglePermit ==
  ASSUME Rounds = 1, ~Overlap PROVE SharedSpec => []OnePermit
<1>1. SharedInv => OnePermit
  <2> SUFFICES ASSUME SharedInv, ready PROVE OnePermit
    BY DEF OnePermit
  <2>1. CASE AtBarrier
    BY <2>1, OnePermitNow DEF SharedInv
  <2>2. CASE ~AtBarrier
    <3>1. At({"unlockSignal", "signal", "notify"}) = {}
      BY <2>2 DEF AtBarrier, At
    <3> QED
      BY <3>1, FS_EmptySet DEF SharedInv, OnePermit
  <2> QED
    BY <2>1, <2>2
<1> QED
  BY <1>1, SharedInvariance, PTL

\* The barrier of a run that has the memory to itself while it is there
\* implements the abstract barrier; what other runs do to the memory before and
\* after is no step of it (barrier_init, barrier_wait).
THEOREM SharedRefinement ==
  ASSUME Rounds = 1, ~Overlap PROVE SharedSpec => Implements
<1>1. SharedInit => AB!Init
  BY DEF SharedInit, Init, AB!Init
<1>2. SharedInv /\ [SharedNext]_sharedVars => [AB!Next]_(AB!vars)
  <2> SUFFICES ASSUME SharedInv, [SharedNext]_sharedVars PROVE [AB!Next]_(AB!vars)
    OBVIOUS
  <2>1. ASSUME NEW p \in Proc, Enter(p) \/ Step(p) PROVE [AB!Next]_(AB!vars)
    <3>1. IInv
      BY <2>1, RunMoves DEF SharedInv
    <3> QED
      BY <2>1, <3>1, StepRefines DEF Next
  <2>2. CASE UNCHANGED <<arrivals, passes>>
    BY <2>2 DEF AB!vars
  <2>3. RunInit => UNCHANGED <<arrivals, passes>>
    BY DEF RunInit, BarrierInit
  <2>4. /\ UNCHANGED ownVars => UNCHANGED <<arrivals, passes>>
        /\ UNCHANGED vars => UNCHANGED <<arrivals, passes>>
        /\ UNCHANGED sharedVars => UNCHANGED <<arrivals, passes>>
    BY DEF ownVars, vars, sharedVars
  <2>5. /\ OtherInit \/ (\E q \in Other : OtherStep(q)) => UNCHANGED ownVars
        /\ OtherRunAgain => UNCHANGED vars
        /\ (\E p \in Proc : Kill(p)) => UNCHANGED <<arrivals, passes>>
    BY DEF OtherInit, OtherStep, OtherRunAgain, Kill
  <2> QED
    BY <2>1, <2>2, <2>3, <2>4, <2>5 DEF SharedNext, RunStep
<1> QED
  BY <1>1, <1>2, SharedInvariance, PTL DEF SharedSpec, Implements, AB!Spec
=============================================================================
