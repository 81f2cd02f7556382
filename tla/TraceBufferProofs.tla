-------------------------- MODULE TraceBufferProofs --------------------------
(***************************************************************************)
(* TraceBuffer's safety properties hold for every ring size, block size,   *)
(* number of accesses and number of trace_flush calls.                     *)
(***************************************************************************)
EXTENDS TraceBuffer, TLAPS

-----------------------------------------------------------------------------
(* The inductive invariant. *)

Ended == {"join", "done", "crashed"}

\* The records the file will hold when the flush in progress is over.
Planned == Len(file) + nflush + wrapped

\* The ring holds the last NENT records, but for the one being filled.
RingInv ==
  /\ nextent = traced % NENT
  /\ \A k \in 0 .. traced - 1 :
       traced - k <= NENT /\ ~(main = "fill" /\ k = traced - 1) =>
         ring[k % NENT] = k

\* What holds of the two threads whatever the worker's lead.
ControlInv ==
  /\ requested <= traced
  /\ main \in {"fill", "request"} => requested < traced
  /\ main = "init" => sync = "none" /\ traced = 0
  /\ main \notin Ended => req # "EXIT" /\ job # "EXIT"
  /\ main \in Ended => requested = traced
  /\ sync \in {"none", "check", "wait"} => nflush = 0 /\ wrapped = 0
  /\ sync = "none" => file = <<>>
  /\ sync = "exited" => job = "EXIT" /\ nflush = 0 /\ wrapped = 0
  /\ sync = "copy" => tbp + nflush <= NENT
  /\ ~overrun => traced - Len(file) < NENT

\* The exit request found nothing outstanding and has the ring rewritten.
Redundant ==
  /\ job = "EXIT"
  /\ sync \in {"copy", "exited", "failed"}
  /\ Len(file) >= traced

\* The indices are the counts modulo NENT.
OnTrack ==
  /\ ModInc(lastflush) = (Len(file) + nflush) % NENT
  /\ ModInc(nextflush) = requested % NENT
  /\ Planned <= requested
  /\ req = "FLUSH" => Planned < requested
  /\ sync \in {"copy", "exited"} /\ job = "EXIT" => Planned = traced
  /\ sync = "copy" /\ nflush > 0 => tbp = Len(file) % NENT
  /\ sync = "copy" /\ wrapped > 0 => (Len(file) + nflush) % NENT = 0

KeptInv == Kept /\ sync # "none" => Redundant \/ OnTrack

IInv == TypeOK /\ RingInv /\ ControlInv /\ KeptInv /\ RecordsInOrder

-----------------------------------------------------------------------------
(* Arithmetic modulo NENT. *)

\* Division with remainder.
LEMMA ModDivision ==
  \A a \in Nat : /\ a \div NENT \in Nat
                 /\ a % NENT \in Slots
                 /\ a = (NENT * (a \div NENT)) + (a % NENT)
  BY TraceAssumption DEF Slots

\* The remainder is unique.
LEMMA ModUnique ==
  \A a, q, r \in Int : 0 <= r /\ r < NENT /\ a = (NENT * q) + r => a % NENT = r
  BY TraceAssumption, SMTT(30)

\* A sum of two indices wraps at most once.
LEMMA ModSmall ==
  \A x \in Nat : x < 2 * NENT => x % NENT = IF x < NENT THEN x ELSE x - NENT
  BY TraceAssumption

\* Moving on by less than a ring.
LEMMA ModShift ==
  \A a \in Nat, d \in Slots :
    (a + d) % NENT = IF (a % NENT) + d < NENT THEN (a % NENT) + d
                                              ELSE ((a % NENT) + d) - NENT
<1> TAKE a \in Nat, d \in Slots
<1> DEFINE q == a \div NENT
           r == a % NENT
<1>1. q \in Nat /\ r \in Slots /\ a = (NENT * q) + r
  BY ModDivision
<1> HIDE DEF q, r
<1>2. CASE r + d < NENT
  <2>1. a + d = (NENT * q) + (r + d)
    BY <1>1, TraceAssumption DEF Slots
  <2>2. (a + d) % NENT = r + d
    BY <1>1, <1>2, <2>1, ModUnique, TraceAssumption DEF Slots
  <2> QED
    BY <1>2, <2>2 DEF r
<1>3. CASE ~(r + d < NENT)
  <2> DEFINE p == q + 1
             s == (r + d) - NENT
  <2>1. p \in Int /\ s \in Int /\ 0 <= s /\ s < NENT
    BY <1>1, <1>3, TraceAssumption DEF Slots
  <2>2. a + d = (NENT * p) + s
    BY <1>1, TraceAssumption DEF Slots
  <2> HIDE DEF p, s
  <2>3. (a + d) % NENT = s
    BY <2>1, <2>2, ModUnique, TraceAssumption DEF Slots
  <2> QED
    BY <1>3, <2>3 DEF r, s
<1> QED
  BY <1>2, <1>3

\* Two records less than a ring apart have different slots.
LEMMA SlotsDiffer ==
  \A a, b \in Nat : a < b /\ b - a < NENT => a % NENT # b % NENT
<1> TAKE a, b \in Nat
<1> HAVE a < b /\ b - a < NENT
<1>1. b - a \in Slots /\ b = a + (b - a) /\ b - a > 0
  BY TraceAssumption DEF Slots
<1>2. a % NENT \in Slots
  BY ModDivision
<1>3. b % NENT = IF (a % NENT) + (b - a) < NENT THEN (a % NENT) + (b - a)
                                              ELSE ((a % NENT) + (b - a)) - NENT
  BY <1>1, ModShift
<1> QED
  BY <1>1, <1>2, <1>3, TraceAssumption DEF Slots

\* An index whose successor is t modulo NENT is that of record t-1.
LEMMA Predecessor ==
  ASSUME NEW t \in Nat, NEW x \in Slots, ModInc(x) = t % NENT
  PROVE  x = IF t % NENT = 0 THEN NENT - 1 ELSE (t % NENT) - 1
<1>1. x + 1 \in Nat /\ x + 1 < 2 * NENT
  BY TraceAssumption DEF Slots
<1>2. (x + 1) % NENT = IF x + 1 < NENT THEN x + 1 ELSE (x + 1) - NENT
  BY <1>1, ModSmall
<1> QED
  BY <1>2, TraceAssumption DEF Slots, ModInc, ModAdd

\* U16(nextent - 1) is the index before nextent.
LEMMA SlotBefore ==
  ASSUME NEW x \in Slots
  PROVE  /\ U16(x - 1) \in Slots
         /\ ModInc(U16(x - 1)) = x
         /\ \A t \in Nat : t > 0 /\ x = t % NENT => U16(x - 1) = (t - 1) % NENT
<1>1. U16(x - 1) = IF x = 0 THEN NENT - 1 ELSE x - 1
  BY TraceAssumption DEF U16, Slots
<1>2. \A y \in 0 .. NENT : y % NENT = IF y < NENT THEN y ELSE y - NENT
  BY ModSmall, TraceAssumption
<1>3. ModInc(U16(x - 1)) = x
  BY <1>1, <1>2, TraceAssumption DEF Slots, ModInc, ModAdd
<1>4. ASSUME NEW t \in Nat, t > 0, x = t % NENT
      PROVE  U16(x - 1) = (t - 1) % NENT
  <2>1. t - 1 \in Nat /\ 1 \in Slots /\ t = (t - 1) + 1
    BY <1>4, TraceAssumption DEF Slots
  <2>2. (t - 1) % NENT \in Slots
    BY <2>1, ModDivision
  <2>3. t % NENT = IF ((t - 1) % NENT) + 1 < NENT THEN ((t - 1) % NENT) + 1
                                                  ELSE (((t - 1) % NENT) + 1) - NENT
    BY <2>1, ModShift
  <2> QED
    BY <1>1, <1>4, <2>2, <2>3, TraceAssumption DEF Slots
<1> QED
  BY <1>1, <1>3, <1>4, TraceAssumption DEF Slots

\* The range SyncTake works out covers exactly what was requested and not yet
\* written, when that is less than a ring and not nothing.
LEMMA FlushRange ==
  ASSUME NEW len \in Nat, NEW r \in Nat, len < r, r - len < NENT,
         NEW last \in Slots, ModInc(last) = len % NENT,
         NEW next \in Slots, ModInc(next) = r % NENT,
         NEW this \in Slots, this = len % NENT
  PROVE  /\ ~(this > next) => (next - this) + 1 = r - len
         /\ this > next => /\ (NENT - this) + (next + 1) = r - len
                           /\ (len + (NENT - this)) % NENT = 0
<1> DEFINE d == r - len
<1>1. d \in Slots /\ d > 0 /\ r = len + d
  BY TraceAssumption DEF Slots
<1>2. r % NENT = IF this + d < NENT THEN this + d ELSE (this + d) - NENT
  BY <1>1, ModShift
<1>3. next = IF r % NENT = 0 THEN NENT - 1 ELSE (r % NENT) - 1
  BY Predecessor
<1>4. ~(this > next) => (next - this) + 1 = r - len
  BY <1>1, <1>2, <1>3, TraceAssumption DEF Slots
<1>5. ASSUME this > next
      PROVE  /\ (NENT - this) + (next + 1) = r - len
             /\ (len + (NENT - this)) % NENT = 0
  <2>1. this > 0 /\ NENT - this \in Slots
    BY <1>5, TraceAssumption DEF Slots
  <2>2. (len + (NENT - this)) % NENT =
          IF this + (NENT - this) < NENT THEN this + (NENT - this)
                                         ELSE (this + (NENT - this)) - NENT
    BY <2>1, ModShift
  <2> QED
    BY <1>1, <1>2, <1>3, <1>5, <2>1, <2>2, TraceAssumption DEF Slots
<1> QED
  BY <1>4, <1>5

\* Advancing lastflush by n records advances the slot after it by n.
LEMMA Advance ==
  ASSUME NEW last \in Slots, NEW len \in Nat, NEW n \in Slots,
         ModInc(last) = len % NENT
  PROVE  ModInc(ModAdd(last, n)) = (len + n) % NENT
<1>1. len % NENT \in Slots
  BY ModDivision
<1>2. last = IF len % NENT = 0 THEN NENT - 1 ELSE (len % NENT) - 1
  BY Predecessor
<1>3. (len + n) % NENT = IF (len % NENT) + n < NENT THEN (len % NENT) + n
                                                  ELSE ((len % NENT) + n) - NENT
  BY ModShift
<1>4. ModAdd(last, n) = IF last + n < NENT THEN last + n ELSE (last + n) - NENT
  BY ModSmall, TraceAssumption DEF Slots, ModAdd
<1>5. ModAdd(last, n) \in Slots
  BY <1>4, TraceAssumption DEF Slots
<1>6. \A y \in Slots : ModInc(y) = IF y + 1 < NENT THEN y + 1 ELSE 0
  BY ModSmall, TraceAssumption DEF Slots, ModInc, ModAdd
<1> QED
  BY <1>1, <1>2, <1>3, <1>4, <1>5, <1>6, TraceAssumption DEF Slots

-----------------------------------------------------------------------------
(* The initial states and the types. *)

LEMMA InitIInv == Init => IInv
<1> SUFFICES ASSUME Init PROVE IInv
  OBVIOUS
<1>1. 0 \in Slots /\ 0 % NENT = 0
  BY ModSmall, TraceAssumption DEF Slots
<1>2. TypeOK
  <2>1. <<>> \in Seq(Records) /\ Blank \in Records /\ 0 \in 0 .. NENT
    BY TraceAssumption DEF Records
  <2> QED
    BY <1>1, <2>1 DEF Init, TypeOK, Requests
<1>3. RingInv /\ ControlInv /\ KeptInv
  BY <1>1, TraceAssumption DEF Init, RingInv, ControlInv, KeptInv, Ended
<1>4. RecordsInOrder
  BY DEF Init, RecordsInOrder
<1> QED
  BY <1>2, <1>3, <1>4 DEF IInv

\* Results of the index arithmetic are indices.
LEMMA IndexTypes ==
  /\ \A x, y \in Nat : ModAdd(x, y) \in Slots
  /\ \A x \in Int : U16(x) \in Slots
  /\ \A x \in Slots : x \in Nat /\ x + 1 \in Nat
  BY TraceAssumption DEF ModAdd, U16, Slots

LEMMA TypeStep == TypeOK /\ ControlInv /\ [Next]_vars => TypeOK'
<1> SUFFICES ASSUME TypeOK, ControlInv, [Next]_vars PROVE TypeOK'
  OBVIOUS
<1> USE IndexTypes DEF TypeOK
<1>0. /\ 0 \in Slots /\ U16(NENT - 1) \in Slots
      /\ Te \in Slots /\ U16(nextent - 1) \in Slots
      /\ ModInc(nextent) \in Slots /\ ModInc(lastflush) \in Slots
      /\ Signalled \in {"none", "check", "wait", "copy", "exited", "failed"}
  <2>1. NENT - 1 \in Int /\ nextent - 1 \in Int /\ 0 \in Slots
    BY TraceAssumption DEF Slots
  <2>2. Signalled \in {"none", "check", "wait", "copy", "exited", "failed"}
    BY Zenon DEF Signalled
  <2> QED
    BY <2>1, <2>2 DEF Te, ModInc
<1>1. CASE TraceInit
  BY <1>0, <1>1 DEF TraceInit, Requests
<1>2. CASE TraceInitNoFile
  BY <1>2 DEF TraceInitNoFile, jobVars
<1>3. CASE TraceClaim
  <2>1. overrun' \in BOOLEAN
    BY <1>3, Zenon DEF TraceClaim
  <2>2. Torn \in Records
    BY DEF Records
  <2> QED
    BY <1>0, <1>3, <2>1, <2>2 DEF TraceClaim, requestVars, jobVars
<1>4. CASE TraceFill
  <2>1. traced - 1 \in Records
    BY <1>4 DEF TraceFill, ControlInv, Records
  <2> QED
    BY <1>4, <2>1 DEF TraceFill, requestVars, jobVars
<1>5. CASE TraceRequest
  BY <1>0, <1>5 DEF TraceRequest, jobVars, Requests
<1>6. CASE TraceFlush
  BY <1>0, <1>6 DEF TraceFlush, workerVars, jobVars, Requests
<1>7. CASE TraceFini
  BY <1>0, <1>7 DEF TraceFini, jobVars, Requests
<1>8. CASE TraceJoin \/ TraceJoinUnset
  BY <1>8 DEF TraceJoin, TraceJoinUnset, requestVars, jobVars
<1>9. CASE SyncSleep \/ SyncSpuriousWake
  BY <1>9 DEF SyncSleep, SyncSpuriousWake, workerVars, requestVars, jobVars
<1>10. CASE SyncTake
  <2> DEFINE this == ModInc(lastflush)
             wraps == this > nextflush
  <2>1. /\ NENT - this \in Int /\ (nextflush - this) + 1 \in Int
        /\ nextflush + 1 \in Int
        /\ this \in 0 .. NENT
    <3> HIDE DEF TypeOK
    <3>1. this \in Slots /\ nextflush \in Slots
      BY <1>0 DEF TypeOK
    <3> HIDE DEF this
    <3> QED
      BY <3>1, TraceAssumption DEF Slots
  <2>2. nflush' = U16(IF wraps THEN NENT - this ELSE (nextflush - this) + 1)
    BY <1>10 DEF SyncTake
  <2>3. wrapped' = IF wraps THEN U16(nextflush + 1) ELSE 0
    BY <1>10 DEF SyncTake
  <2>4. nflush' \in Slots /\ wrapped' \in Slots
    BY <1>0, <2>1, <2>2, <2>3
  <2>5. lastflush' \in Slots
    BY <1>10, <2>4 DEF SyncTake
  <2> QED
    BY <1>10, <2>1, <2>4, <2>5 DEF SyncTake, workerVars, Requests
<1>11. CASE SyncCopy
  <2>1. tbp \in Slots /\ tbp + 1 \in 0 .. NENT /\ nflush - 1 \in Slots
    BY <1>11, TraceAssumption DEF SyncCopy, ControlInv, Slots
  <2>2. ring[tbp] \in Records
    BY <2>1
  <2> QED
    BY <1>11, <2>1, <2>2 DEF SyncCopy, workerVars, requestVars
<1>12. CASE SyncWrap
  BY <1>12, TraceAssumption DEF SyncWrap, workerVars, requestVars, Slots
<1>13. CASE SyncFinish \/ SyncFail
  BY <1>13 DEF SyncFinish, SyncFail, workerVars, requestVars, jobVars
<1>14. CASE UNCHANGED vars
  BY <1>14 DEF vars
<1> QED
  BY <1>1, <1>2, <1>3, <1>4, <1>5, <1>6, <1>7, <1>8, <1>9, <1>10, <1>11, <1>12,
     <1>13, <1>14 DEF Next, WorkerStep, SyncStep

-----------------------------------------------------------------------------
(* The ring holds what was recorded. *)

LEMMA RingStep == TypeOK /\ ControlInv /\ RingInv /\ [Next]_vars => RingInv'
<1> SUFFICES ASSUME TypeOK, ControlInv, RingInv, [Next]_vars PROVE RingInv'
  OBVIOUS
<1>1. CASE TraceInit \/ TraceInitNoFile
  <2>1. traced = 0 /\ traced' = 0
    BY <1>1 DEF TraceInit, TraceInitNoFile, ControlInv
  <2>2. nextent' = 0
    BY <1>1, <2>1, ModSmall, TraceAssumption DEF TraceInit, TraceInitNoFile, RingInv
  <2>3. 0 % NENT = 0
    BY ModSmall, TraceAssumption
  <2> QED
    BY <2>1, <2>2, <2>3 DEF RingInv
<1>2. CASE TraceClaim
  <2>1. traced \in Nat /\ traced' = traced + 1 /\ main # "fill" /\ nextent \in Slots
    BY <1>2 DEF TraceClaim, TypeOK
  <2>2. nextent' = traced' % NENT
    <3>1. 1 \in Slots /\ nextent = traced % NENT
      BY TraceAssumption DEF Slots, RingInv
    <3>2. traced' % NENT = IF nextent + 1 < NENT THEN nextent + 1
                                                 ELSE (nextent + 1) - NENT
      BY <2>1, <3>1, ModShift
    <3>3. (nextent + 1) % NENT = IF nextent + 1 < NENT THEN nextent + 1
                                                       ELSE (nextent + 1) - NENT
      BY <2>1, ModSmall, TraceAssumption DEF Slots
    <3> QED
      BY <1>2, <3>2, <3>3 DEF TraceClaim, ModInc, ModAdd
  <2>3. ASSUME NEW k \in 0 .. traced' - 1, traced' - k <= NENT, k # traced' - 1
        PROVE  ring'[k % NENT] = k
    <3>1. k \in Nat /\ k < traced /\ traced - k < NENT /\ k \in 0 .. traced - 1
      BY <2>1, <2>3, TraceAssumption
    <3>2. k % NENT # nextent
      BY <2>1, <3>1, SlotsDiffer DEF RingInv
    <3>3. ring[k % NENT] = k
      BY <2>1, <3>1, TraceAssumption DEF RingInv
    <3>4. k % NENT \in Slots
      BY <3>1, ModDivision
    <3> QED
      BY <1>2, <3>2, <3>3, <3>4 DEF TraceClaim, TypeOK
  <2>4. main' = "fill"
    BY <1>2 DEF TraceClaim
  <2> QED
    BY <2>2, <2>3, <2>4 DEF RingInv
<1>3. CASE TraceFill
  <2>1. traced \in Nat /\ traced > 0 /\ nextent \in Slots /\ nextent = traced % NENT
    BY <1>3 DEF TraceFill, TypeOK, ControlInv, RingInv
  <2>2. Te = (traced - 1) % NENT /\ Te \in Slots
    BY <2>1, SlotBefore DEF Te
  <2>3. /\ traced' = traced /\ nextent' = nextent
        /\ ring' = [ring EXCEPT ![Te] = traced - 1]
    BY <1>3 DEF TraceFill
  <2>4. ASSUME NEW k \in 0 .. traced - 1, traced - k <= NENT
        PROVE  ring'[k % NENT] = k
    <3>1. k \in Nat /\ k % NENT \in Slots
      BY <2>1, ModDivision
    <3>2. CASE k = traced - 1
      BY <2>2, <2>3, <3>1, <3>2 DEF TypeOK
    <3>3. CASE k # traced - 1
      <4>1. traced - 1 \in Nat /\ k < traced - 1 /\ (traced - 1) - k < NENT
        BY <2>1, <2>4, <3>1, <3>3, TraceAssumption
      <4>2. k % NENT # Te
        BY <2>2, <3>1, <4>1, SlotsDiffer
      <4>3. ring[k % NENT] = k
        BY <2>4, <3>3 DEF RingInv
      <4> QED
        BY <2>3, <3>1, <4>2, <4>3 DEF TypeOK
    <3> QED
      BY <3>2, <3>3
  <2> QED
    BY <2>1, <2>3, <2>4 DEF RingInv
<1>4. CASE /\ UNCHANGED <<ring, nextent, traced>>
           /\ main = "fill" => main' = "fill"
  BY <1>4 DEF RingInv
<1>5. CASE TraceRequest \/ TraceFini \/ TraceJoin \/ TraceJoinUnset
  BY <1>4, <1>5 DEF TraceRequest, TraceFini, TraceJoin, TraceJoinUnset
<1>6. CASE TraceFlush \/ SyncStep \/ SyncSpuriousWake \/ SyncFail
  BY <1>4, <1>6
  DEF TraceFlush, SyncStep, SyncSleep, SyncTake, SyncCopy, SyncWrap, SyncFinish,
      SyncSpuriousWake, SyncFail, workerVars
<1>7. CASE UNCHANGED vars
  BY <1>4, <1>7 DEF vars
<1> QED
  BY <1>1, <1>2, <1>3, <1>5, <1>6, <1>7 DEF Next, WorkerStep

-----------------------------------------------------------------------------
(* The order of the two threads' steps. *)

LEMMA ControlStep == TypeOK /\ ControlInv /\ [Next]_vars => ControlInv'
<1> SUFFICES ASSUME TypeOK, ControlInv, [Next]_vars PROVE ControlInv'
  OBVIOUS
<1>0. /\ Len(file) \in Nat /\ traced \in Nat /\ requested \in Nat
      /\ nflush \in Nat /\ wrapped \in Nat /\ tbp \in Nat
  BY TraceAssumption DEF TypeOK, Slots
<1>a. /\ Signalled \in {"none", "check", "wait", "copy", "exited", "failed"}
      /\ Signalled # sync => sync = "wait" /\ Signalled = "check"
  BY Zenon DEF TypeOK, Signalled
<1>1. CASE TraceInit
  BY <1>1 DEF TraceInit, ControlInv, Ended
<1>2. CASE TraceInitNoFile
  BY <1>2 DEF TraceInitNoFile, jobVars, ControlInv, Ended
<1>3. CASE TraceClaim
  <2>1. ~overrun' => traced' - Len(file') < NENT
    <3>1. ~overrun' => ~(traced + 1 - Len(file) >= NENT)
      BY <1>3, Zenon DEF TraceClaim
    <3>2. traced' = traced + 1 /\ file' = file
      BY <1>3 DEF TraceClaim
    <3> QED
      BY <1>0, <3>1, <3>2, TraceAssumption
  <2> QED
    BY <1>0, <1>3, <2>1 DEF TraceClaim, requestVars, jobVars, ControlInv, Ended
<1>4. CASE TraceFill
  BY <1>0, <1>4 DEF TraceFill, requestVars, jobVars, ControlInv, Ended
<1>5. CASE TraceRequest
  BY <1>0, <1>a, <1>5 DEF TraceRequest, jobVars, ControlInv, Ended
<1>6. CASE TraceFlush
  BY <1>0, <1>a, <1>6 DEF TraceFlush, workerVars, jobVars, ControlInv, Ended
<1>7. CASE TraceFini
  BY <1>0, <1>a, <1>7 DEF TraceFini, jobVars, ControlInv, Ended
<1>8. CASE TraceJoin \/ TraceJoinUnset
  BY <1>8 DEF TraceJoin, TraceJoinUnset, requestVars, jobVars, ControlInv, Ended
<1>9. CASE SyncSleep \/ SyncSpuriousWake
  BY <1>9 DEF SyncSleep, SyncSpuriousWake, workerVars, requestVars, jobVars,
              ControlInv, Ended
<1>10. CASE SyncTake
  <2>1. tbp' + nflush' <= NENT
    <3> DEFINE this == ModInc(lastflush)
               n == IF this > nextflush THEN NENT - this ELSE (nextflush - this) + 1
    <3>1. /\ this \in Slots /\ nextflush \in Slots
          /\ tbp' = this /\ nflush' = U16(n)
      BY <1>10, IndexTypes DEF SyncTake, TypeOK, ModInc
    <3> HIDE DEF this
    <3>2. n \in Nat /\ n < 2 * NENT /\ this + n <= NENT
      BY <3>1, TraceAssumption DEF Slots
    <3> HIDE DEF n
    <3>3. U16(n) <= n
      BY <3>2, ModSmall, TraceAssumption DEF U16
    <3>4. U16(n) \in Nat /\ this \in Nat
      BY <3>1, <3>2, IndexTypes
    <3> QED
      BY <3>1, <3>2, <3>3, <3>4, TraceAssumption
  <2> QED
    BY <1>0, <1>10, <2>1 DEF SyncTake, workerVars, TypeOK, Requests, ControlInv, Ended
<1>11. CASE SyncCopy
  <2>1. Len(file') = Len(file) + 1
    BY <1>11 DEF SyncCopy, TypeOK
  <2> QED
    BY <1>0, <1>11, <2>1, TraceAssumption
    DEF SyncCopy, workerVars, requestVars, ControlInv, Ended
<1>12. CASE SyncWrap
  BY <1>0, <1>12, TraceAssumption
  DEF SyncWrap, workerVars, requestVars, ControlInv, Ended, TypeOK, Slots
<1>13. CASE SyncFinish \/ SyncFail
  BY <1>13 DEF SyncFinish, SyncFail, workerVars, requestVars, jobVars, ControlInv, Ended
<1>14. CASE UNCHANGED vars
  BY <1>14 DEF vars, ControlInv
<1> QED
  BY <1>1, <1>2, <1>3, <1>4, <1>5, <1>6, <1>7, <1>8, <1>9, <1>10, <1>11, <1>12,
     <1>13, <1>14 DEF Next, WorkerStep, SyncStep

-----------------------------------------------------------------------------
(* The indices keep track of the counts. *)

LEMMA TrackInit == TypeOK /\ ControlInv /\ TraceInit => KeptInv'
<1> SUFFICES ASSUME TypeOK, ControlInv, TraceInit PROVE OnTrack'
  BY DEF KeptInv
<1>1. /\ traced = 0 /\ requested = 0 /\ file = <<>> /\ nflush = 0 /\ wrapped = 0
      /\ Len(file) = 0
  BY DEF TypeOK, ControlInv, TraceInit
<1>2. U16(NENT - 1) = NENT - 1
  BY ModSmall, TraceAssumption DEF U16
<1>3. ModInc(NENT - 1) = 0 /\ 0 % NENT = 0
  BY ModSmall, TraceAssumption DEF ModInc, ModAdd
<1>4. /\ lastflush' = NENT - 1 /\ nextflush' = NENT - 1 /\ req' = "NONE"
      /\ sync' \in {"check", "none"}
      /\ UNCHANGED <<requested, file, nflush, wrapped, traced>>
  BY <1>2 DEF TraceInit
<1>5. Len(file') = 0 /\ nflush' = 0 /\ wrapped' = 0 /\ requested' = 0
  BY <1>1, <1>4
<1>6. ModInc(lastflush') = 0 /\ ModInc(nextflush') = 0
  BY <1>3, <1>4
<1> QED
  BY <1>3, <1>4, <1>5, <1>6 DEF OnTrack, Planned

\* SyncTake: the request covers what it should, or it is an exit request with
\* nothing outstanding.
LEMMA TrackTake ==
  TypeOK /\ ControlInv /\ KeptInv /\ SyncTake => KeptInv'
<1> SUFFICES ASSUME TypeOK, ControlInv, KeptInv, SyncTake, Kept
             PROVE  (Redundant \/ OnTrack)'
  BY DEF KeptInv, Kept, SyncTake, workerVars
<1> DEFINE this == ModInc(lastflush)
           wraps == this > nextflush
           n == IF wraps THEN NENT - this ELSE (nextflush - this) + 1
<1>1. /\ Len(file) \in Nat /\ requested \in Nat /\ traced \in Nat /\ 0 \in Slots
      /\ lastflush \in Slots /\ nextflush \in Slots /\ this \in Slots
  <2>1. 0 \in Slots /\ 1 \in Nat
    BY TraceAssumption DEF Slots
  <2>2. Len(file) \in Nat /\ lastflush \in Slots /\ nextflush \in Slots
    BY DEF TypeOK
  <2>3. this \in Slots
    BY <2>1, <2>2, IndexTypes DEF ModInc
  <2> QED
    BY <2>1, <2>2, <2>3 DEF TypeOK
<1>2. sync = "check" /\ nflush = 0 /\ wrapped = 0
  BY DEF SyncTake, ControlInv
<1>3. /\ this = Len(file) % NENT /\ ModInc(nextflush) = requested % NENT
      /\ Len(file) <= requested
      /\ req = "FLUSH" => Len(file) < requested
  BY <1>1, <1>2 DEF KeptInv, OnTrack, Redundant, Planned
<1>4. /\ requested <= traced /\ traced - Len(file) < NENT
      /\ req = "EXIT" => requested = traced
  BY Zenon DEF ControlInv, Kept
<1>5. /\ sync' = "copy" /\ job' = req /\ tbp' = this /\ req' = "NONE"
      /\ nflush' = U16(n)
      /\ wrapped' = IF wraps THEN U16(nextflush + 1) ELSE 0
      /\ lastflush' = ModAdd(lastflush, nflush')
      /\ UNCHANGED <<file, nextflush, requested, traced>>
  BY DEF SyncTake, workerVars
<1>6. req \in {"FLUSH", "EXIT"}
  BY DEF SyncTake, TypeOK, Requests
<1>7. CASE Len(file) = requested
  <2>1. req = "EXIT" /\ traced = Len(file)
    BY <1>1, <1>3, <1>4, <1>6, <1>7
  <2> QED
    BY <1>1, <1>5, <2>1 DEF Redundant
<1>8. CASE Len(file) < requested
  <2>1. requested - Len(file) < NENT /\ requested - Len(file) > 0
    BY <1>1, <1>4, <1>8, TraceAssumption
  <2>2. /\ ~wraps => (nextflush - this) + 1 = requested - Len(file)
        /\ wraps => /\ (NENT - this) + (nextflush + 1) = requested - Len(file)
                    /\ (Len(file) + (NENT - this)) % NENT = 0
    <3>1. ModInc(lastflush) = Len(file) % NENT
      BY <1>3
    <3> HIDE DEF this, wraps
    <3>2. /\ ~(this > nextflush) => (nextflush - this) + 1 = requested - Len(file)
          /\ this > nextflush =>
               /\ (NENT - this) + (nextflush + 1) = requested - Len(file)
               /\ (Len(file) + (NENT - this)) % NENT = 0
      BY <1>1, <1>3, <1>8, <2>1, <3>1, FlushRange
    <3> QED
      BY <3>2 DEF wraps
  <2> HIDE DEF this
  <2>3. n \in Slots /\ n + (IF wraps THEN nextflush + 1 ELSE 0) = requested - Len(file)
    BY <1>1, <2>1, <2>2, TraceAssumption DEF Slots
  <2>4. nflush' = n
    <3> HIDE DEF n
    <3>1. n \in Nat /\ n < NENT
      BY <2>3, TraceAssumption DEF Slots
    <3>2. U16(n) = n
      BY <3>1, ModSmall, TraceAssumption DEF U16
    <3>3. nflush' = U16(n)
      BY <1>5
    <3> QED
      BY <3>2, <3>3
  <2>5. wrapped' = IF wraps THEN nextflush + 1 ELSE 0
    BY <1>1, <1>5, <2>1, <2>2, ModSmall, TraceAssumption DEF U16, Slots
  <2>6. ModInc(lastflush') = (Len(file) + nflush') % NENT
    <3>1. ModInc(lastflush) = Len(file) % NENT
      BY <1>3 DEF this
    <3> QED
      BY <1>1, <1>5, <2>3, <2>4, <3>1, Advance
  <2>7. Len(file') = Len(file) /\ (Len(file) + nflush') + wrapped' = requested
    <3>1. Len(file') = Len(file)
      BY <1>5
    <3>2. n + wrapped' = requested - Len(file)
      BY <2>3, <2>5
    <3>3. n \in Nat
      BY <2>3, TraceAssumption DEF Slots
    <3> HIDE DEF n, wraps
    <3>4. wrapped' \in Int
      BY <1>1, <2>5, TraceAssumption DEF Slots
    <3>5. nflush' \in Nat /\ nflush' + wrapped' = requested - Len(file)
      BY <2>4, <3>2, <3>3
    <3>6. Len(file) \in Nat /\ requested \in Nat
      BY <1>1
    <3>7. (Len(file) + nflush') + wrapped' = requested
      BY <3>4, <3>5, <3>6
    <3> QED
      BY <3>1, <3>7
  <2>8. wrapped' > 0 => (Len(file) + nflush') % NENT = 0
    BY <2>2, <2>4, <2>5
  <2> HIDE DEF n, wraps
  <2>9. OnTrack'
    BY <1>1, <1>3, <1>4, <1>5, <2>6, <2>7, <2>8 DEF OnTrack, Planned
  <2> QED
    BY <2>9
<1> QED
  BY <1>1, <1>3, <1>7, <1>8

LEMMA TrackCopy == TypeOK /\ ControlInv /\ KeptInv /\ SyncCopy => KeptInv'
<1> SUFFICES ASSUME TypeOK, ControlInv, SyncCopy, Kept, Redundant \/ OnTrack
             PROVE  (Redundant \/ OnTrack)'
  BY DEF KeptInv, Kept, SyncCopy, workerVars, requestVars
<1>1. /\ Len(file) \in Nat /\ tbp \in Nat /\ nflush \in Nat /\ wrapped \in Nat
      /\ Len(file') = Len(file) + 1
      /\ sync = "copy" /\ nflush > 0 /\ tbp + nflush <= NENT
  BY TraceAssumption DEF SyncCopy, TypeOK, ControlInv, Slots
<1>2. /\ nflush' = nflush - 1 /\ tbp' = tbp + 1
      /\ UNCHANGED <<sync, req, nextflush, requested, traced, job, wrapped, lastflush>>
  BY DEF SyncCopy, workerVars, requestVars
<1>3. CASE Redundant
  BY <1>1, <1>2, <1>3 DEF Redundant, TypeOK
<1>4. CASE OnTrack
  <2>1. Len(file') + nflush' = Len(file) + nflush
    BY <1>1, <1>2
  <2>2. nflush' > 0 => tbp' = Len(file') % NENT
    <3>1. tbp = Len(file) % NENT /\ 1 \in Slots
      BY <1>1, <1>4, TraceAssumption DEF OnTrack, Slots
    <3>2. Len(file') % NENT = IF tbp + 1 < NENT THEN tbp + 1 ELSE (tbp + 1) - NENT
      BY <1>1, <3>1, ModShift
    <3> QED
      BY <1>1, <1>2, <3>2, TraceAssumption
  <2>3. OnTrack'
    BY <1>1, <1>2, <1>4, <2>1, <2>2 DEF OnTrack, Planned
  <2> QED
    BY <2>3
<1> QED
  BY <1>3, <1>4

LEMMA TrackWrap == TypeOK /\ ControlInv /\ KeptInv /\ SyncWrap => KeptInv'
<1> SUFFICES ASSUME TypeOK, ControlInv, SyncWrap, Kept, Redundant \/ OnTrack
             PROVE  (Redundant \/ OnTrack)'
  BY DEF KeptInv, Kept, SyncWrap, workerVars, requestVars
<1>1. /\ Len(file) \in Nat /\ wrapped \in Nat /\ wrapped \in Slots /\ lastflush \in Slots
      /\ sync = "copy" /\ nflush = 0 /\ wrapped > 0
  BY TraceAssumption DEF SyncWrap, TypeOK, Slots
<1>2. /\ nflush' = wrapped /\ tbp' = 0 /\ wrapped' = 0
      /\ lastflush' = ModAdd(lastflush, wrapped)
      /\ UNCHANGED <<sync, file, req, nextflush, requested, traced, job>>
  BY DEF SyncWrap, workerVars, requestVars
<1>3. CASE Redundant
  BY <1>1, <1>2, <1>3 DEF Redundant
<1>4. CASE OnTrack
  <2>1. ModInc(lastflush) = Len(file) % NENT /\ Len(file) % NENT = 0
    BY <1>1, <1>4 DEF OnTrack
  <2>2. ModInc(lastflush') = (Len(file) + wrapped) % NENT
    BY <1>1, <1>2, <2>1, Advance
  <2>3. OnTrack'
    BY <1>1, <1>2, <1>4, <2>1, <2>2 DEF OnTrack, Planned
  <2> QED
    BY <2>3
<1> QED
  BY <1>3, <1>4

LEMMA TrackStep ==
  TypeOK /\ ControlInv /\ RingInv /\ KeptInv /\ [Next]_vars => KeptInv'
<1> SUFFICES ASSUME TypeOK, ControlInv, RingInv, KeptInv, [Next]_vars
             PROVE  KeptInv'
  OBVIOUS
<1>0. /\ Len(file) \in Nat /\ traced \in Nat /\ requested \in Nat
      /\ nflush \in Nat /\ wrapped \in Nat
  BY TraceAssumption DEF TypeOK, Slots
<1>a. /\ Signalled = "none" <=> sync = "none"
      /\ Signalled \in {"copy", "exited", "failed"} => Signalled = sync
  BY Zenon DEF TypeOK, Signalled
<1>b. main \notin Ended => ~Redundant
  BY DEF ControlInv, Redundant
<1>1. CASE TraceInit
  BY <1>1, TrackInit
<1>2. CASE TraceInitNoFile
  BY <1>2 DEF TraceInitNoFile, KeptInv, ControlInv
<1>3. CASE TraceClaim
  <2> SUFFICES ASSUME Kept', sync' # "none" PROVE OnTrack'
    BY DEF KeptInv
  <2>1. Kept
    BY <1>3, Zenon DEF TraceClaim, Kept, requestVars
  <2>2. OnTrack /\ job # "EXIT"
    BY <1>3, <1>b, <2>1 DEF TraceClaim, KeptInv, ControlInv, Ended
  <2> QED
    BY <1>3, <2>2 DEF TraceClaim, requestVars, jobVars, OnTrack, Planned
<1>4. CASE TraceFill
  BY <1>4 DEF TraceFill, requestVars, jobVars, KeptInv, Kept, OnTrack, Redundant, Planned
<1>5. CASE TraceRequest
  <2> SUFFICES ASSUME Kept', sync' # "none" PROVE OnTrack'
    BY DEF KeptInv
  <2>1. OnTrack /\ requested < traced /\ job # "EXIT"
    <3>1. Kept /\ sync # "none"
      BY <1>5, <1>a DEF TraceRequest, Kept
    <3> QED
      BY <1>5, <1>b, <3>1 DEF TraceRequest, KeptInv, ControlInv, Ended
  <2>2. ModInc(nextflush') = traced % NENT
    BY <1>5, SlotBefore DEF TraceRequest, TypeOK, RingInv, Te
  <2> QED
    BY <1>0, <1>5, <1>a, <2>1, <2>2 DEF TraceRequest, jobVars, OnTrack, Planned
<1>6. CASE TraceFlush
  BY <1>6 DEF TraceFlush, KeptInv, Kept, TypeOK
<1>7. CASE TraceFini
  <2> SUFFICES ASSUME Kept', sync' # "none" PROVE OnTrack'
    BY DEF KeptInv
  <2>1. OnTrack /\ requested <= traced /\ job # "EXIT"
    <3>1. Kept /\ sync # "none"
      BY <1>7, <1>a DEF TraceFini, Kept
    <3> QED
      BY <1>7, <1>b, <3>1 DEF TraceFini, KeptInv, ControlInv, Ended
  <2>2. ModInc(nextflush') = traced % NENT
    BY <1>7, SlotBefore DEF TraceFini, TypeOK, RingInv
  <2> QED
    BY <1>0, <1>7, <1>a, <2>1, <2>2 DEF TraceFini, jobVars, OnTrack, Planned
<1>8. CASE TraceJoin \/ TraceJoinUnset
  BY <1>8 DEF TraceJoin, TraceJoinUnset, requestVars, jobVars,
              KeptInv, Kept, OnTrack, Redundant, Planned
<1>9. CASE SyncSleep \/ SyncSpuriousWake
  BY <1>9 DEF SyncSleep, SyncSpuriousWake, workerVars, requestVars, jobVars,
              KeptInv, Kept, OnTrack, Redundant, Planned
<1>10. CASE SyncTake
  BY <1>10, TrackTake
<1>11. CASE SyncCopy
  BY <1>11, TrackCopy
<1>12. CASE SyncWrap
  BY <1>12, TrackWrap
<1>13. CASE SyncFinish \/ SyncFail
  BY <1>0, <1>13 DEF SyncFinish, SyncFail, workerVars, requestVars, jobVars,
               KeptInv, Kept, OnTrack, Redundant, Planned
<1>14. CASE UNCHANGED vars
  BY <1>14 DEF vars, KeptInv, Kept, OnTrack, Redundant, Planned
<1> QED
  BY <1>1, <1>2, <1>3, <1>4, <1>5, <1>6, <1>7, <1>8, <1>9, <1>10, <1>11, <1>12,
     <1>13, <1>14 DEF Next, WorkerStep, SyncStep

-----------------------------------------------------------------------------
(* The records in the file. *)

\* While the flush thread writes a record that was made, it is not the one
\* being filled, and the ring holds it.
LEMMA NextRecord ==
  ASSUME IInv, Kept, OnTrack, sync = "copy", nflush > 0
  PROVE  /\ Len(file) < traced
         /\ main = "fill" => Len(file) < traced - 1
         /\ tbp = Len(file) % NENT
         /\ ring[tbp] = Len(file)
<1>1. /\ Len(file) \in Nat /\ traced \in Nat /\ requested \in Nat
      /\ nflush \in Nat /\ wrapped \in Nat
  BY TraceAssumption DEF IInv, TypeOK, Slots
<1>2. /\ Len(file) < requested /\ requested <= traced
      /\ main = "fill" => requested < traced
  BY <1>1 DEF IInv, ControlInv, OnTrack, Planned
<1>3. tbp = Len(file) % NENT
  BY DEF OnTrack
<1>4. traced - Len(file) < NENT
  BY Zenon DEF IInv, ControlInv, Kept
<1>5. /\ Len(file) < traced
      /\ main = "fill" => Len(file) < traced - 1
  BY <1>1, <1>2
<1>6. ring[Len(file) % NENT] = Len(file)
  BY <1>1, <1>4, <1>5, TraceAssumption DEF IInv, RingInv
<1> QED
  BY <1>3, <1>5, <1>6

LEMMA OrderStep == IInv /\ [Next]_vars => RecordsInOrder'
<1> SUFFICES ASSUME IInv, [Next]_vars, Kept',
                    NEW i \in 1 .. Len(file'), i <= traced'
             PROVE  file'[i] = i - 1
  BY DEF RecordsInOrder
<1>0. /\ Len(file) \in Nat /\ traced \in Nat /\ requested \in Nat
      /\ nflush \in Nat /\ wrapped \in Nat /\ file \in Seq(Records)
  BY TraceAssumption DEF IInv, TypeOK, Slots
<1>1. CASE UNCHANGED <<file, traced, overrun, flushes>>
  BY <1>1 DEF IInv, RecordsInOrder, Kept
<1>2. CASE TraceClaim
  <2>1. Kept
    BY <1>2, Zenon DEF TraceClaim, Kept, requestVars
  <2>2. Len(file) <= traced
    <3>1. CASE sync = "none"
      BY <1>0, <3>1 DEF IInv, ControlInv
    <3>2. CASE sync # "none"
      BY <1>0, <1>2, <2>1, <3>2
      DEF IInv, KeptInv, ControlInv, TraceClaim, Ended, Redundant, OnTrack, Planned
    <3> QED
      BY <3>1, <3>2
  <2>3. file' = file
    BY <1>2 DEF TraceClaim
  <2> QED
    BY <1>0, <2>1, <2>2, <2>3 DEF IInv, RecordsInOrder
<1>3. CASE SyncCopy
  <2>1. /\ Kept /\ traced' = traced /\ sync = "copy" /\ nflush > 0
        /\ file' = Append(file, ring[tbp])
    BY <1>3 DEF SyncCopy, workerVars, requestVars, Kept
  <2>2. CASE i <= Len(file)
    BY <1>0, <2>1, <2>2 DEF IInv, RecordsInOrder
  <2>3. CASE i = Len(file) + 1
    <3>1. OnTrack
      BY <1>0, <2>1, <2>3 DEF IInv, KeptInv, Redundant
    <3>2. ring[tbp] = Len(file)
      BY <2>1, <3>1, NextRecord
    <3> QED
      BY <1>0, <2>1, <2>3, <3>2
  <2>4. Len(file') = Len(file) + 1
    BY <1>0, <2>1
  <2> QED
    BY <1>0, <2>2, <2>3, <2>4
<1>4. CASE TraceFlush
  BY <1>4 DEF TraceFlush, Kept, IInv, TypeOK
<1>5. CASE UNCHANGED vars
  BY <1>1, <1>5 DEF vars
<1>6. CASE \/ TraceInit \/ TraceInitNoFile \/ TraceFill \/ TraceRequest \/ TraceFini
           \/ TraceJoin \/ TraceJoinUnset
  BY <1>1, <1>6 DEF TraceInit, TraceInitNoFile, TraceFill, TraceRequest, TraceFini,
                    TraceJoin, TraceJoinUnset, requestVars
<1>7. CASE SyncSleep \/ SyncSpuriousWake \/ SyncTake \/ SyncWrap \/ SyncFinish \/ SyncFail
  BY <1>1, <1>7 DEF SyncSleep, SyncSpuriousWake, SyncTake, SyncWrap, SyncFinish,
                    SyncFail, workerVars, requestVars
<1> QED
  BY <1>2, <1>3, <1>4, <1>5, <1>6, <1>7 DEF Next, WorkerStep, SyncStep

-----------------------------------------------------------------------------
(* What the inductive invariant implies. *)

LEMMA ImpliesOnlyOutstanding == IInv => OnlyOutstanding
<1> SUFFICES ASSUME IInv, Kept, main \in {"run", "fill", "request"}
             PROVE  Planned <= traced
  BY DEF OnlyOutstanding, Planned
<1>1. /\ Len(file) \in Nat /\ traced \in Nat /\ requested \in Nat
      /\ nflush \in Nat /\ wrapped \in Nat /\ requested <= traced
  BY TraceAssumption DEF IInv, TypeOK, ControlInv, Slots
<1>2. CASE sync = "none"
  BY <1>1, <1>2 DEF IInv, ControlInv, Planned
<1>3. CASE sync # "none"
  <2>1. Planned <= requested
    BY <1>3 DEF IInv, KeptInv, ControlInv, Redundant, Ended, OnTrack
  <2> QED
    BY <1>1, <2>1 DEF Planned
<1> QED
  BY <1>2, <1>3

LEMMA ImpliesExitComplete == IInv => ExitComplete
<1> SUFFICES ASSUME IInv, Kept, sync = "exited" PROVE Len(file) >= traced
  BY DEF ExitComplete
<1>1. Len(file) \in Nat /\ traced \in Nat
  BY DEF IInv, TypeOK
<1>2. job = "EXIT" /\ nflush = 0 /\ wrapped = 0
  BY DEF IInv, ControlInv
<1>3. Redundant \/ OnTrack
  BY DEF IInv, KeptInv
<1> QED
  BY <1>1, <1>2, <1>3 DEF Redundant, OnTrack, Planned

LEMMA ImpliesNoDataRace == IInv => NoDataRace
<1> SUFFICES ASSUME IInv, Kept, main = "fill", sync = "copy", nflush > 0
             PROVE  tbp # Te
  BY DEF NoDataRace
<1>1. OnTrack
  BY DEF IInv, KeptInv, ControlInv, Ended, Redundant
<1>2. tbp = Len(file) % NENT /\ Len(file) < traced - 1
  BY <1>1, NextRecord
<1>3. /\ Len(file) \in Nat /\ traced \in Nat /\ nextent \in Slots
      /\ nextent = traced % NENT
  BY DEF IInv, TypeOK, RingInv
<1>4. Te = (traced - 1) % NENT
  BY <1>2, <1>3, SlotBefore DEF Te
<1>5. traced - Len(file) < NENT
  BY Zenon DEF IInv, ControlInv, Kept
<1>6. traced - 1 \in Nat /\ (traced - 1) - Len(file) < NENT
  BY <1>2, <1>3, <1>5, TraceAssumption
<1> QED
  BY <1>2, <1>3, <1>4, <1>6, SlotsDiffer

-----------------------------------------------------------------------------
(* The theorems. *)

\* The inductive invariant holds in every reachable state of the recorder.
THEOREM Invariance == Spec => []IInv
<1>1. Init => IInv
  BY InitIInv
<1>2. IInv /\ [Next]_vars => IInv'
  BY TypeStep, RingStep, ControlStep, TrackStep, OrderStep DEF IInv
<1> QED
  BY <1>1, <1>2, PTL DEF Spec

\* Every variable keeps its type: ti_nextent, ti_lastflush, ti_nextflush and
\* the copy's cursor stay within ti_tracebuf.
THEOREM TypeCorrect == Spec => []TypeOK
<1>1. IInv => TypeOK
  BY DEF IInv
<1> QED
  BY <1>1, Invariance, PTL

\* While the worker stays less than a ring ahead, trace_sync writes the records
\* in the order trace made them, however the two threads interleave.
THEOREM InOrder == Spec => []RecordsInOrder
<1>1. IInv => RecordsInOrder
  BY DEF IInv
<1> QED
  BY <1>1, Invariance, PTL

\* Until trace_fini, trace_sync plans to write only records that were made.
THEOREM NothingInvented == Spec => []OnlyOutstanding
  BY ImpliesOnlyOutstanding, Invariance, PTL

\* A trace file that trace_sync has closed holds every record.
THEOREM NothingLost == Spec => []ExitComplete
  BY ImpliesExitComplete, Invariance, PTL

\* trace_sync never reads the slot that trace is filling.
THEOREM RaceFree == Spec => []NoDataRace
  BY ImpliesNoDataRace, Invariance, PTL
=============================================================================
