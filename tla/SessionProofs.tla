---------------------------- MODULE SessionProofs ----------------------------
(***************************************************************************)
(* Session's properties hold for every list of options, every number of    *)
(* objects and of descriptors, every clock and any number of faults.  The  *)
(* inductive invariant is a part for the types and one for each property.  *)
(***************************************************************************)
EXTENDS Session, PowerProofs, SequenceTheorems

-----------------------------------------------------------------------------
(* time_delta is subtraction, for every length of a second. *)

\* The loop that carries seconds over is worked out with \div in Timespec, so
\* most of this is about division with a remainder.

\* All that is needed of NSEC.
LEMMA NsecPositive == NSEC \in Nat /\ NSEC > 0
  BY TimespecAssumption

\* A sum of two products: what the solver does not find in a difference of
\* seconds times NSEC.
LEMMA Distribute ==
  ASSUME NEW a \in Int, NEW b \in Int, NEW c \in Int
  PROVE  (a - b - c) * NSEC = (a * NSEC) - (b * NSEC) - (c * NSEC)
  BY NsecPositive

LEMMA Product ==
  ASSUME NEW a \in Nat, NEW b \in Nat
  PROVE  a * b >= 0
  OBVIOUS

\* The difference of two proper nanosecond counts is carried over once at most.
LEMMA CarriesOnce ==
  ASSUME NEW n \in Int, -NSEC < n, n < NSEC
  PROVE  Carries(n) = IF n < 0 THEN 1 ELSE 0
<1>1. CASE n < 0
  <2> DEFINE a == NSEC - 1 - n
  <2>1. a \in NSEC .. (2 * NSEC) - 1
    BY <1>1, NsecPositive
  <2>2. /\ a \div NSEC \in Int
        /\ a = (NSEC * (a \div NSEC)) + (a % NSEC)
        /\ a % NSEC \in 0 .. NSEC - 1
    BY <2>1, NsecPositive
  <2> HIDE DEF a
  <2> DEFINE q == a \div NSEC
  <2>3. CASE q <= 0
    <3>1. NSEC * q <= 0
      BY <2>2, <2>3, NsecPositive
    <3> QED
      BY <2>1, <2>2, <3>1, NsecPositive
  <2>4. CASE q >= 2
    <3>1. q - 2 \in Nat
      BY <2>2, <2>4
    <3>2. NSEC * (q - 2) >= 0
      BY <3>1, NsecPositive, Product
    <3>3. NSEC * (q - 2) = (NSEC * q) - (2 * NSEC)
      BY <2>2, NsecPositive
    <3> QED
      BY <2>1, <2>2, <3>2, <3>3, NsecPositive
  <2>5. CASE q = 1
    BY <1>1, <2>5 DEF Carries, a
  <2> QED
    BY <2>2, <2>3, <2>4, <2>5
<1>2. CASE ~(n < 0)
  BY <1>2 DEF Carries
<1> QED
  BY <1>1, <1>2

\* The difference time_delta returns is a proper time, and it is exactly the
\* nanoseconds between the two: the borrow is neither lost nor taken twice.
THEOREM DeltaExact ==
  ASSUME NEW t1 \in Timespec, NEW t2 \in Timespec
  PROVE  /\ TimeDelta(t1, t2) \in Timespec
         /\ Ns(TimeDelta(t1, t2)) = Ns(t2) - Ns(t1)
<1> DEFINE n == t2.nsec - t1.nsec
           c == Carries(n)
<1>1. /\ t1.sec \in Int /\ t2.sec \in Int
      /\ t1.nsec \in 0 .. NSEC - 1 /\ t2.nsec \in 0 .. NSEC - 1
  BY DEF Timespec
<1>2. n \in Int /\ -NSEC < n /\ n < NSEC
  BY <1>1, NsecPositive
<1>3. c = IF n < 0 THEN 1 ELSE 0
  BY <1>2, CarriesOnce
<1>4. c * NSEC = IF n < 0 THEN NSEC ELSE 0
  BY <1>3, NsecPositive
<1>5. TimeDelta(t1, t2) = [sec |-> t2.sec - t1.sec - c, nsec |-> n + (c * NSEC)]
  BY DEF TimeDelta
<1> HIDE DEF c
<1>6. TimeDelta(t1, t2) \in Timespec
  BY <1>1, <1>2, <1>3, <1>4, <1>5, NsecPositive DEF Timespec
<1>7. Ns(TimeDelta(t1, t2)) = ((t2.sec - t1.sec - c) * NSEC) + (n + (c * NSEC))
  BY <1>5 DEF Ns
<1>8. c \in Int
  BY <1>3
<1>9. (t2.sec - t1.sec - c) * NSEC = (t2.sec * NSEC) - (t1.sec * NSEC) - (c * NSEC)
  BY <1>1, <1>8, Distribute
<1>10. /\ t1.sec * NSEC \in Int /\ t2.sec * NSEC \in Int /\ c * NSEC \in Int
  BY <1>1, <1>8, NsecPositive
<1>11. Ns(TimeDelta(t1, t2)) = Ns(t2) - Ns(t1)
  BY <1>1, <1>7, <1>9, <1>10 DEF Ns
<1> QED
  BY <1>6, <1>11

\* What time_now returns stands for the nanoseconds it was taken at.
LEMMA NowExact ==
  ASSUME NEW ns \in Int
  PROVE  TimeNow(ns) \in Timespec /\ Ns(TimeNow(ns)) = ns
<1>1. /\ ns \div NSEC \in Int /\ ns % NSEC \in 0 .. NSEC - 1
      /\ ns = (NSEC * (ns \div NSEC)) + (ns % NSEC)
  BY NsecPositive
<1>2. TimeNow(ns) \in Timespec
  BY <1>1 DEF TimeNow, Timespec
<1>3. Ns(TimeNow(ns)) = ((ns \div NSEC) * NSEC) + (ns % NSEC)
  BY DEF Ns, TimeNow
<1> QED
  BY <1>1, <1>2, <1>3, NsecPositive

\* A duration is never negative when the first time is not the later one: no
\* record has a field that the formatter's unsigned conversion would mangle.
THEOREM DeltaForward ==
  ASSUME NEW t1 \in Timespec, NEW t2 \in Timespec, Ns(t1) <= Ns(t2)
  PROVE  TimeDelta(t1, t2).sec >= 0
<1> DEFINE d == TimeDelta(t1, t2)
<1>1. d \in Timespec /\ Ns(d) >= 0
  <2>1. Ns(t1) \in Int /\ Ns(t2) \in Int
    BY NsecPositive DEF Timespec, Ns
  <2> QED
    BY <2>1, DeltaExact
<1> HIDE DEF d
<1>2. d.sec \in Int /\ d.nsec < NSEC /\ d.nsec \in Int /\ (d.sec * NSEC) + d.nsec >= 0
  BY <1>1, NsecPositive DEF Timespec, Ns
<1>3. d.sec >= 0
  BY <1>2, NsecPositive
<1> QED
  BY <1>3 DEF d

-----------------------------------------------------------------------------
(* What is read from a formatted time. *)

\* A fraction of a second that is not zero becomes one of tenths when its
\* leading zeros are lost: multiplied by the least power of ten that makes it a
\* tenth of a second or more.
LEMMA LeadingZeros ==
  ASSUME NEW n \in 1 .. NSEC - 1
  PROVE  \E d \in 0 .. DIGITS : n * Pow(10, d) < NSEC /\ n * Pow(10, d) * 10 >= NSEC
<1> DEFINE Enough == {d \in Nat : n * Pow(10, d + 1) >= NSEC}
<1>1. /\ DIGITS \in Nat /\ NSEC = Pow(10, DIGITS) /\ Pow(10, 0) = 1
      /\ \A d \in Nat : Pow(10, d) \in Nat /\ Pow(10, d + 1) = 10 * Pow(10, d)
  BY PowIs, TimespecAssumption
<1>2. DIGITS \in Enough
  <2>1. Pow(10, DIGITS + 1) = 10 * NSEC
    BY <1>1
  <2>2. n * (10 * NSEC) >= NSEC
    BY NsecPositive
  <2> QED
    BY <1>1, <2>1, <2>2
<1>3. PICK d \in Enough : \A e \in Enough : d <= e
  BY <1>2, Least
<1>4. d \in 0 .. DIGITS
  BY <1>1, <1>2, <1>3
<1>5. n * Pow(10, d) * 10 >= NSEC
  <2> DEFINE p == Pow(10, d)
  <2>1. p \in Nat /\ Pow(10, d + 1) = 10 * p /\ n * Pow(10, d + 1) >= NSEC
    BY <1>1, <1>3
  <2> HIDE DEF p
  <2>2. n * (10 * p) = n * p * 10
    BY <2>1
  <2> QED
    BY <2>1, <2>2 DEF p
<1>6. n * Pow(10, d) < NSEC
  <2>1. CASE d = 0
    BY <1>1, <2>1, NsecPositive
  <2>2. CASE d # 0
    <3>1. d - 1 \in Nat /\ d - 1 \notin Enough /\ (d - 1) + 1 = d
      BY <1>3, <2>2
    <3>2. ~(n * Pow(10, d) >= NSEC)
      BY <3>1
    <3>3. Pow(10, d) \in Nat
      BY <1>1, <1>3
    <3> QED
      BY <3>2, <3>3, NsecPositive
  <2> QED
    BY <2>1, <2>2
<1> QED
  BY <1>4, <1>5, <1>6

\* What a reader makes of a time in CSV is never less than it was, and is what
\* it was from a tenth of a second on only.
LEMMA CsvReads ==
  ASSUME NEW t \in Timespec
  PROVE  /\ CsvValue(t) >= TextValue(t)
         /\ CsvValue(t) = TextValue(t) <=> (t.nsec = 0 \/ t.nsec * 10 >= NSEC)
<1> DEFINE n == t.nsec
           Scales == {Pow(10, d) : d \in 0 .. DIGITS}
           Right(k) == n = 0 \/ (n * k < NSEC /\ n * k * 10 >= NSEC)
           scale == CHOOSE k \in Scales : Right(k)
<1>1. DIGITS \in Nat /\ n \in 0 .. NSEC - 1 /\ t.sec \in Int
  BY TimespecAssumption DEF Timespec
<1>2. \E k \in Scales : Right(k)
  <2>1. CASE n = 0
    BY <1>1, <2>1
  <2>2. CASE n # 0
    <3>1. n \in 1 .. NSEC - 1
      BY <1>1, <2>2, NsecPositive
    <3> QED
      BY <3>1, LeadingZeros
  <2> QED
    BY <2>1, <2>2
<1>3. scale \in Scales /\ Right(scale)
  <2> HIDE DEF Scales, Right
  <2> QED
    BY <1>2
<1>4. CsvValue(t) = (t.sec * NSEC) + (n * scale) /\ TextValue(t) = (t.sec * NSEC) + n
  BY DEF CsvValue, TextValue, Ns
<1> HIDE DEF scale, n
<1>5. scale = 1 \/ scale >= 10
  <2>1. PICK d \in 0 .. DIGITS : scale = Pow(10, d)
    BY <1>3
  <2>2. CASE d = 0
    BY <2>1, <2>2, PowIs
  <2>3. CASE d # 0
    <3>1. d - 1 \in Nat /\ (d - 1) + 1 = d
      BY <1>1, <2>3
    <3>2. Pow(10, d) = 10 * Pow(10, d - 1) /\ Pow(10, d - 1) \in Nat /\ Pow(10, d - 1) > 0
      <4>1. \A e \in Nat : Pow(10, e + 1) = 10 * Pow(10, e)
        BY PowIs
      <4>2. 10 \in Nat /\ 10 > 0
        OBVIOUS
      <4>3. \A e \in Nat : Pow(10, e) \in Nat /\ Pow(10, e) > 0
        BY <4>2, PowPositive
      <4>4. Pow(10, (d - 1) + 1) = 10 * Pow(10, d - 1)
        BY <3>1, <4>1
      <4> QED
        BY <3>1, <4>3, <4>4
    <3> QED
      BY <2>1, <3>2
  <2> QED
    BY <2>2, <2>3
<1>6. scale \in Nat
  BY <1>1, <1>3, PowIs
<1>7. n * scale >= n /\ (n * scale = n <=> n = 0 \/ scale = 1)
  BY <1>1, <1>5, <1>6, NsecPositive
<1>8. n # 0 => (scale = 1 <=> n * 10 >= NSEC)
  <2>1. ASSUME n # 0, scale = 1 PROVE n * 10 >= NSEC
    BY <1>1, <1>3, <2>1, NsecPositive
  <2>2. ASSUME n # 0, n * 10 >= NSEC, scale >= 10 PROVE FALSE
    <3>1. n * scale >= n * 10
      BY <1>1, <1>6, <2>2, NsecPositive
    <3> QED
      BY <1>1, <1>3, <1>6, <2>2, <3>1, NsecPositive
  <2> QED
    BY <1>5, <2>1, <2>2
<1>9. t.sec * NSEC \in Int /\ n * scale \in Int
  BY <1>1, <1>6, NsecPositive
<1> QED
  BY <1>1, <1>4, <1>7, <1>8, <1>9, NsecPositive DEF n

-----------------------------------------------------------------------------
(* The inductive invariant. *)

Setup == {"options", "rejected", "selected", "create", "ready"}
Access == {"open", "mkdir", "retry", "transfer", "close", "trace"}

\* The counts are unsigned, the loops begin at 0, and an access is one of a
\* round that exists, of an object that exists.
LoopInv ==
  /\ args.c \in 0 .. UINTS - 1 /\ args.n \in 0 .. UINTS - 1
  /\ DOMAIN args = {"S", "r", "s", "v", "p", "c", "n", "R"}
  /\ args.v \in Names.v \cup {NoMatch}
  /\ pc \in Setup => i = 0 /\ phase = "write"
  /\ pc \in Access => MoreRounds /\ (phase = "read" => args.c > 0)
  /\ pc \in {"mkdir", "retry"} => driver = "DIRTREE"
  /\ pc \in {"transfer", "close"} => driver # "RADOS"

\* The clock has not gone back, and the access under way began after the last.
TimeInv ==
  /\ until \in Int /\ until <= now
  /\ pc \in Access \ {"mkdir"} => Ns(iop_start) >= until

\* An access under way has one descriptor more.
DescriptorInv ==
  /\ pc \in {"transfer", "close"} => fds > 0
  /\ fds <= faults + IF pc \in {"transfer", "close"} THEN 1 ELSE 0

\* Where the handle may be in which state.
HandleInv ==
  /\ pc \in Setup \ {"create", "ready"} => handle = "none"
  /\ pc = "create" => handle \in {"none", "created", "configured", "connected"}
  /\ handle = "connected" => pc = "create" /\ driver = "RADOS"
  /\ handle = "open" => driver = "RADOS" /\ pc \notin Setup \ {"ready"} /\ pc # "returned"

\* Every object the task has written so far is in the pool, in place of what was.
PoolInv ==
  driver = "RADOS" /\ faults = 0 =>
    /\ phase = "write" => \A o \in Objs : o < i => pool[o] = "whole"
    /\ phase = "write" /\ pc = "trace" => pool[i] = "whole"
    /\ phase = "read" => \A o \in Objs : o < args.c => pool[o] = "whole"

IInv == TypeOK /\ LoopInv /\ TimeInv /\ DescriptorInv /\ HandleInv /\ PoolInv /\ LeftoversReplaced

-----------------------------------------------------------------------------
\* What the constants have to do with arithmetic.
LEMMA Bounds ==
  /\ MaxTime \in Nat /\ MaxFaults \in Nat /\ FdMax \in Nat /\ FdMax > 0
  /\ UINTS \in Nat /\ UINTS > 0
  /\ Objs = 0 .. UINTS - 1
  /\ Starts \subseteq Nat /\ Steps \subseteq Nat
  BY SessionAssumption, CommandLineAssumption DEF Objs

\* An unsigned is never out of its range, whatever atoi returned.
LEMMA UnsignedRange ==
  ASSUME NEW n \in Int
  PROVE  Unsigned(n) \in 0 .. UINTS - 1
  BY Bounds DEF Unsigned

\* An option that is accepted leaves the counts unsigned.
LEMMA ParseOptTyped ==
  ASSUME LoopInv, NEW o \in Options
  PROVE  LET a == ParseOpt(args, o)
         IN /\ a.c \in 0 .. UINTS - 1 /\ a.n \in 0 .. UINTS - 1
            /\ DOMAIN a = DOMAIN args
            /\ a.v \in Names.v \cup {NoMatch}
<1>1. o[1] \in {"c", "n"} => Unsigned(o[2]) \in 0 .. UINTS - 1
  BY UnsignedRange, SessionAssumption DEF Numbers
<1> QED
  BY <1>1 DEF LoopInv, ParseOpt, FindMatch

\* The object of a round of either loop exists.
LEMMA ObjectExists ==
  ASSUME IInv, pc \in Access
  PROVE  Object \in Objs /\ Object < args.c
<1>1. /\ i \in Nat /\ args.c \in 0 .. UINTS - 1 /\ phase \in {"write", "read"}
      /\ MoreRounds /\ (phase = "read" => args.c > 0)
  BY Bounds DEF IInv, TypeOK, LoopInv
<1>2. CASE phase = "write"
  BY <1>1, <1>2, Bounds DEF Object, MoreRounds
<1>3. CASE phase = "read"
  <2>1. i % args.c \in 0 .. args.c - 1
    BY <1>1, <1>3
  <2> QED
    BY <1>1, <1>3, <2>1, Bounds DEF Object
<1> QED
  BY <1>1, <1>2, <1>3

\* The clock goes forward, and its reading is a proper time that stands for it.
LEMMA ClockForward ==
  ASSUME IInv, Clock
  PROVE  /\ now' \in 0 .. MaxTime /\ now' >= now
         /\ TimeNow(now') \in Timespec /\ Ns(TimeNow(now')) = now'
<1>1. now' \in 0 .. MaxTime /\ now' >= now
  BY Bounds DEF IInv, TypeOK, Clock
<1> QED
  BY <1>1, NowExact, Bounds

LEMMA TimeZero == TimeNow(0) \in Timespec /\ Ns(TimeNow(0)) = 0
  BY NowExact

LEMMA InitIInv == Init => IInv
<1> SUFFICES ASSUME Init PROVE IInv
  OBVIOUS
<1>1. PICK g \in Garbage : args = Defaults(g)
  BY DEF Init
<1>2. {g.c, g.n} \subseteq 0 .. UINTS - 1
  BY SessionAssumption
<1>3. TypeOK
  BY <1>1, <1>2, TimeZero, Bounds, SessionAssumption DEF Init, TypeOK, Names, LogLevel, Defaults, Junk, Objs
<1>4. LoopInv
  BY <1>1, <1>2 DEF Init, LoopInv, Defaults, Names, LogLevel, Setup, Access
<1>5. TimeInv
  BY Bounds DEF Init, TimeInv, Access
<1>6. DescriptorInv
  BY DEF Init, DescriptorInv
<1>7. HandleInv
  BY DEF Init, HandleInv, Setup
<1>8. PoolInv /\ LeftoversReplaced
  BY DEF Init, PoolInv, LeftoversReplaced
<1> QED
  BY <1>3, <1>4, <1>5, <1>6, <1>7, <1>8 DEF IInv

\* The loop counters keep to their counts, and the counts are those of the options.
LEMMA LoopStep == IInv /\ [Next]_vars => LoopInv'
<1> SUFFICES ASSUME IInv, [Next]_vars PROVE LoopInv'
  OBVIOUS
<1> USE DEF IInv, TypeOK, LoopInv, Setup, Access,
           Goto, Fault, NoFault, Return, Proceed, optVars, storeVars, loopVars, timeVars
<1>1. ASSUME NEW o \in Options, Option(o) PROVE LoopInv'
  BY <1>1, Bounds, ParseOptTyped DEF Option
<1>2. CASE SelectDrivers
  BY <1>2, Bounds DEF SelectDrivers, MoreRounds
<1>3. CASE Start
  BY <1>3, Bounds DEF Start, MoreRounds
<1>4. CASE WorkerCreate
  BY <1>4, Bounds DEF WorkerCreate, MoreRounds
<1>5. CASE RadosConnect
  BY <1>5, Bounds DEF RadosConnect, MoreRounds
<1>6. CASE RadosIoctx
  BY <1>6, Bounds DEF RadosIoctx, MoreRounds
<1>7. CASE WorkerDestroy
  BY <1>7, Bounds DEF WorkerDestroy, MoreRounds
<1>8. CASE Benchmark
  BY <1>8, Bounds DEF Benchmark, MoreRounds
<1>9. CASE Begin
  BY <1>9, Bounds DEF Begin, MoreRounds
<1>10. CASE LoopDone
  BY <1>10, Bounds DEF LoopDone, MoreRounds
<1>11. CASE Open
  BY <1>11, Bounds DEF Open, MoreRounds
<1>12. CASE Retry
  BY <1>12, Bounds DEF Retry, MoreRounds
<1>13. CASE Transfer
  BY <1>13, Bounds DEF Transfer, MoreRounds
<1>14. CASE Close
  BY <1>14, Bounds DEF Close, MoreRounds
<1>15. CASE RadosWrite
  BY <1>15, Bounds DEF RadosWrite, MoreRounds
<1>16. CASE RadosRead
  BY <1>16, Bounds DEF RadosRead, MoreRounds
<1>17. CASE Trace
  BY <1>17, Bounds DEF Trace, MoreRounds
<1>18. CASE UNCHANGED vars
  BY <1>18 DEF vars, MoreRounds
<1> QED
  BY <1>1, <1>2, <1>3, <1>4, <1>5, <1>6, <1>7, <1>8, <1>9, <1>10, <1>11, <1>12, <1>13, <1>14, <1>15, <1>16, <1>17, <1>18 DEF Next

\* No action disturbs a type.
LEMMA TypeStep == IInv /\ [Next]_vars => TypeOK'
<1> SUFFICES ASSUME IInv, [Next]_vars PROVE TypeOK'
  OBVIOUS
<1> USE DEF IInv, TypeOK, LoopInv,
           Goto, Fault, NoFault, Return, Proceed, optVars, storeVars, loopVars, timeVars
<1>1. ASSUME NEW o \in Options, Option(o) PROVE TypeOK'
  BY <1>1, Bounds, LoopStep DEF Option, Setup
<1>2. CASE SelectDrivers
  BY <1>2, Bounds DEF SelectDrivers, StorageSelect, PrngSelect, LogSetLevel, Select, Names, LogLevel, NoMatch
<1>3. CASE Start
  BY <1>3, Bounds DEF Start
<1>4. CASE WorkerCreate
  BY <1>4, Bounds DEF WorkerCreate
<1>5. CASE RadosConnect
  BY <1>5, Bounds DEF RadosConnect, HandleInv
<1>6. CASE RadosIoctx
  BY <1>6, Bounds DEF RadosIoctx
<1>7. CASE WorkerDestroy
  BY <1>7, Bounds DEF WorkerDestroy
<1>8. CASE Benchmark
  BY <1>8, Bounds, ClockForward DEF Benchmark, Setup
<1>9. CASE Begin
  BY <1>9, Bounds, ClockForward DEF Begin, Access, MoreRounds, Setup
<1>10. CASE LoopDone
  BY <1>10, Bounds, ClockForward DEF LoopDone, Setup
<1>11. CASE Open
  BY <1>11, Bounds DEF Open, Access, MoreRounds
<1>12. CASE Retry
  BY <1>12, Bounds, ClockForward DEF Retry
<1>13. CASE Transfer
  BY <1>13, Bounds DEF Transfer, Access, MoreRounds
<1>14. CASE Close
  BY <1>14, Bounds DEF Close, Access, MoreRounds, DescriptorInv
<1>15. CASE RadosWrite
  BY <1>15, Bounds DEF RadosWrite, Access, MoreRounds, AfterWrite
<1>16. CASE RadosRead
  BY <1>16, Bounds DEF RadosRead, Access, MoreRounds
<1>17. CASE Trace
  BY <1>17, Bounds, ClockForward, ObjectExists DEF Trace, Access, MoreRounds
<1>18. CASE UNCHANGED vars
  BY <1>18 DEF vars, MoreRounds
<1> QED
  BY <1>1, <1>2, <1>3, <1>4, <1>5, <1>6, <1>7, <1>8, <1>9, <1>10, <1>11, <1>12, <1>13, <1>14, <1>15, <1>16, <1>17, <1>18 DEF Next

\* An access begins after the last one ended.
LEMMA TimeStep == IInv /\ [Next]_vars => TimeInv'
<1> SUFFICES ASSUME IInv, [Next]_vars PROVE TimeInv'
  OBVIOUS
<1> USE DEF IInv, TypeOK, TimeInv, Access,
           Goto, Fault, NoFault, Return, Proceed, optVars, storeVars, loopVars, timeVars
<1>1. ASSUME NEW o \in Options, Option(o) PROVE TimeInv'
  BY <1>1, Bounds DEF Option
<1>2. CASE SelectDrivers
  BY <1>2, Bounds DEF SelectDrivers
<1>3. CASE Start
  BY <1>3, Bounds DEF Start
<1>4. CASE WorkerCreate
  BY <1>4, Bounds DEF WorkerCreate
<1>5. CASE RadosConnect
  BY <1>5, Bounds DEF RadosConnect
<1>6. CASE RadosIoctx
  BY <1>6, Bounds DEF RadosIoctx
<1>7. CASE WorkerDestroy
  BY <1>7, Bounds DEF WorkerDestroy
<1>8. CASE Benchmark
  BY <1>8, Bounds, ClockForward DEF Benchmark
<1>9. CASE Begin
  BY <1>9, Bounds, ClockForward DEF Begin
<1>10. CASE LoopDone
  BY <1>10, Bounds, ClockForward DEF LoopDone
<1>11. CASE Open
  BY <1>11, Bounds DEF Open
<1>12. CASE Retry
  BY <1>12, Bounds, ClockForward DEF Retry
<1>13. CASE Transfer
  BY <1>13, Bounds DEF Transfer
<1>14. CASE Close
  BY <1>14, Bounds DEF Close
<1>15. CASE RadosWrite
  BY <1>15, Bounds DEF RadosWrite
<1>16. CASE RadosRead
  BY <1>16, Bounds DEF RadosRead
<1>17. CASE Trace
  BY <1>17, Bounds, ClockForward DEF Trace
<1>18. CASE UNCHANGED vars
  BY <1>18 DEF vars
<1> QED
  BY <1>1, <1>2, <1>3, <1>4, <1>5, <1>6, <1>7, <1>8, <1>9, <1>10, <1>11, <1>12, <1>13, <1>14, <1>15, <1>16, <1>17, <1>18 DEF Next

\* Each call that fails leaves one descriptor at most.
LEMMA DescriptorStep == IInv /\ [Next]_vars => DescriptorInv'
<1> SUFFICES ASSUME IInv, [Next]_vars PROVE DescriptorInv'
  OBVIOUS
<1> USE DEF IInv, TypeOK, DescriptorInv,
           Goto, Fault, NoFault, Return, Proceed, optVars, storeVars, loopVars, timeVars
<1>1. ASSUME NEW o \in Options, Option(o) PROVE DescriptorInv'
  BY <1>1, Bounds DEF Option
<1>2. CASE SelectDrivers
  BY <1>2, Bounds DEF SelectDrivers
<1>3. CASE Start
  BY <1>3, Bounds DEF Start
<1>4. CASE WorkerCreate
  BY <1>4, Bounds DEF WorkerCreate
<1>5. CASE RadosConnect
  BY <1>5, Bounds DEF RadosConnect
<1>6. CASE RadosIoctx
  BY <1>6, Bounds DEF RadosIoctx
<1>7. CASE WorkerDestroy
  BY <1>7, Bounds DEF WorkerDestroy
<1>8. CASE Benchmark
  BY <1>8, Bounds DEF Benchmark
<1>9. CASE Begin
  BY <1>9, Bounds DEF Begin
<1>10. CASE LoopDone
  BY <1>10, Bounds DEF LoopDone
<1>11. CASE Open
  BY <1>11, Bounds DEF Open
<1>12. CASE Retry
  BY <1>12, Bounds DEF Retry
<1>13. CASE Transfer
  BY <1>13, Bounds DEF Transfer
<1>14. CASE Close
  BY <1>14, Bounds DEF Close
<1>15. CASE RadosWrite
  BY <1>15, Bounds DEF RadosWrite
<1>16. CASE RadosRead
  BY <1>16, Bounds DEF RadosRead
<1>17. CASE Trace
  BY <1>17, Bounds DEF Trace
<1>18. CASE UNCHANGED vars
  BY <1>18 DEF vars
<1> QED
  BY <1>1, <1>2, <1>3, <1>4, <1>5, <1>6, <1>7, <1>8, <1>9, <1>10, <1>11, <1>12, <1>13, <1>14, <1>15, <1>16, <1>17, <1>18 DEF Next

\* The session with the cluster is open where it is used.
LEMMA HandleStep == IInv /\ [Next]_vars => HandleInv'
<1> SUFFICES ASSUME IInv, [Next]_vars PROVE HandleInv'
  OBVIOUS
<1> USE DEF IInv, TypeOK, HandleInv, Setup,
           Goto, Fault, NoFault, Return, Proceed, optVars, storeVars, loopVars, timeVars
<1>1. ASSUME NEW o \in Options, Option(o) PROVE HandleInv'
  BY <1>1 DEF Option
<1>2. CASE SelectDrivers
  BY <1>2 DEF SelectDrivers
<1>3. CASE Start
  BY <1>3 DEF Start
<1>4. CASE WorkerCreate
  BY <1>4 DEF WorkerCreate
<1>5. CASE RadosConnect
  BY <1>5 DEF RadosConnect
<1>6. CASE RadosIoctx
  BY <1>6 DEF RadosIoctx
<1>7. CASE WorkerDestroy
  BY <1>7 DEF WorkerDestroy
<1>8. CASE Benchmark
  BY <1>8 DEF Benchmark
<1>9. CASE Begin
  BY <1>9 DEF Begin
<1>10. CASE LoopDone
  BY <1>10 DEF LoopDone
<1>11. CASE Open
  BY <1>11 DEF Open
<1>12. CASE Retry
  BY <1>12 DEF Retry
<1>13. CASE Transfer
  BY <1>13 DEF Transfer
<1>14. CASE Close
  BY <1>14 DEF Close
<1>15. CASE RadosWrite
  BY <1>15 DEF RadosWrite
<1>16. CASE RadosRead
  BY <1>16 DEF RadosRead
<1>17. CASE Trace
  BY <1>17 DEF Trace
<1>18. CASE UNCHANGED vars
  BY <1>18 DEF vars
<1> QED
  BY <1>1, <1>2, <1>3, <1>4, <1>5, <1>6, <1>7, <1>8, <1>9, <1>10, <1>11, <1>12, <1>13, <1>14, <1>15, <1>16, <1>17, <1>18 DEF Next

\* What is written stays written.
LEMMA PoolStep == IInv /\ [Next]_vars => PoolInv'
<1> SUFFICES ASSUME IInv, [Next]_vars PROVE PoolInv'
  OBVIOUS
<1> USE DEF IInv, TypeOK, LoopInv, PoolInv, Setup, Access,
           Goto, Fault, NoFault, Return, Proceed, optVars, storeVars, loopVars, timeVars
<1>1. ASSUME NEW o \in Options, Option(o) PROVE PoolInv'
  BY <1>1, Bounds DEF Option
<1>2. CASE SelectDrivers
  BY <1>2, Bounds DEF SelectDrivers
<1>3. CASE Start
  BY <1>3, Bounds DEF Start
<1>4. CASE WorkerCreate
  BY <1>4, Bounds DEF WorkerCreate
<1>5. CASE RadosConnect
  BY <1>5, Bounds DEF RadosConnect
<1>6. CASE RadosIoctx
  BY <1>6, Bounds DEF RadosIoctx
<1>7. CASE WorkerDestroy
  BY <1>7, Bounds DEF WorkerDestroy
<1>8. CASE Benchmark
  BY <1>8, Bounds DEF Benchmark
<1>9. CASE Begin
  BY <1>9, Bounds DEF Begin, MoreRounds
<1>10. CASE LoopDone
  BY <1>10, Bounds DEF LoopDone, MoreRounds
<1>11. CASE Open
  BY <1>11, Bounds DEF Open
<1>12. CASE Retry
  BY <1>12, Bounds DEF Retry
<1>13. CASE Transfer
  BY <1>13, Bounds DEF Transfer
<1>14. CASE Close
  BY <1>14, Bounds DEF Close
<1>15. CASE RadosWrite
  BY <1>15, Bounds DEF RadosWrite, MoreRounds, AfterWrite
<1>16. CASE RadosRead
  BY <1>16, Bounds DEF RadosRead
<1>17. CASE Trace
  BY <1>17, Bounds DEF Trace
<1>18. CASE UNCHANGED vars
  BY <1>18 DEF vars, MoreRounds
<1> QED
  BY <1>1, <1>2, <1>3, <1>4, <1>5, <1>6, <1>7, <1>8, <1>9, <1>10, <1>11, <1>12, <1>13, <1>14, <1>15, <1>16, <1>17, <1>18 DEF Next

\* What was written is what is read and accepted.
LEMMA LeftoversStep == IInv /\ [Next]_vars => LeftoversReplaced'
<1> SUFFICES ASSUME IInv, [Next]_vars PROVE LeftoversReplaced'
  OBVIOUS
<1> USE DEF IInv, TypeOK, LoopInv, PoolInv, LeftoversReplaced, Setup, Access,
           Goto, Fault, NoFault, Return, Proceed, optVars, storeVars, loopVars, timeVars
<1>1. ASSUME NEW o \in Options, Option(o) PROVE LeftoversReplaced'
  BY <1>1, Bounds DEF Option
<1>2. CASE SelectDrivers
  BY <1>2, Bounds DEF SelectDrivers
<1>3. CASE Start
  BY <1>3, Bounds DEF Start
<1>4. CASE WorkerCreate
  BY <1>4, Bounds DEF WorkerCreate
<1>5. CASE RadosConnect
  BY <1>5, Bounds DEF RadosConnect
<1>6. CASE RadosIoctx
  BY <1>6, Bounds DEF RadosIoctx
<1>7. CASE WorkerDestroy
  BY <1>7, Bounds DEF WorkerDestroy
<1>8. CASE Benchmark
  BY <1>8, Bounds DEF Benchmark
<1>9. CASE Begin
  BY <1>9, Bounds DEF Begin
<1>10. CASE LoopDone
  BY <1>10, Bounds DEF LoopDone
<1>11. CASE Open
  BY <1>11, Bounds DEF Open
<1>12. CASE Retry
  BY <1>12, Bounds DEF Retry
<1>13. CASE Transfer
  BY <1>13, Bounds DEF Transfer
<1>14. CASE Close
  BY <1>14, Bounds DEF Close
<1>15. CASE RadosWrite
  BY <1>15, Bounds DEF RadosWrite
<1>16. CASE RadosRead
  BY <1>16, Bounds, ObjectExists DEF RadosRead, Judge
<1>17. CASE Trace
  <2> SUFFICES ASSUME driver' = "RADOS", prng' = "DEBUG", faults' = 0, phase' = "read"
               PROVE  verdict'.accepted
    OBVIOUS
  <2>1. driver = "RADOS" /\ prng = "DEBUG" /\ faults = 0 /\ phase = "read"
    BY <1>17 DEF Trace
  <2>2. pool[Object] = "whole"
    BY <1>17, <2>1, ObjectExists DEF Trace
  <2>3. sample' = Object
    BY <1>17, <2>1, <2>2 DEF Trace
  <2>4. verdict' = [held |-> pool[Object], accepted |-> sample' = Object]
    BY <1>17, <2>1 DEF Trace, Judge
  <2>5. verdict'.accepted = (sample' = Object)
    BY <2>4, Zenon
  <2> QED
    BY <2>3, <2>5, Zenon
<1>18. CASE UNCHANGED vars
  BY <1>18 DEF vars
<1> QED
  BY <1>1, <1>2, <1>3, <1>4, <1>5, <1>6, <1>7, <1>8, <1>9, <1>10, <1>11, <1>12, <1>13, <1>14, <1>15, <1>16, <1>17, <1>18 DEF Next

LEMMA StepIInv == IInv /\ [Next]_vars => IInv'
  BY LoopStep, TypeStep, TimeStep, DescriptorStep, HandleStep, PoolStep, LeftoversStep DEF IInv

LEMMA Invariant == Spec => []IInv
  BY InitIInv, StepIInv, PTL DEF Spec

-----------------------------------------------------------------------------
(* The options. *)

Keys == {"c", "n", "p", "R", "S", "r", "v"}

\* The last option of a kind has been accepted, and would change nothing if it
\* were given again; without one, a name is the default.
Heeded(key) ==
  IF Given(key) = {}
    THEN key \in {"S", "r", "v"} => args[key] = "DEBUG"
    ELSE \E k \in Given(key) :
           /\ \A l \in Given(key) : l <= k
           /\ ~Rejected(asked[k])
           /\ args[key] = ParseOpt(args, asked[k])[key]

OptionInv ==
  /\ asked \in Seq(Options)
  /\ pc \in {"options", "selected"} => \A key \in Keys : Heeded(key)
  /\ pc = "selected" => /\ driver = StorageSelect(args.S) /\ prng = PrngSelect(args.r)
                        /\ level = LogSetLevel(args.v)

\* What an option leaves of the arguments: its own is its value, the others are
\* as they were.
LEMMA ParsedArgument ==
  ASSUME LoopInv, NEW o, NEW key \in Keys
  PROVE  /\ o[1] # key => ParseOpt(args, o)[key] = args[key]
         /\ o[1] = key /\ key \in {"c", "n"} => ParseOpt(args, o)[key] = Unsigned(o[2])
         /\ o[1] = key /\ key \in {"p", "R"} => ParseOpt(args, o)[key] = o[2]
         /\ o[1] = key /\ key \in {"S", "r", "v"} =>
              ParseOpt(args, o)[key] = FindMatch(key, o[2])
<1>1. key \in DOMAIN args
  BY DEF LoopInv, Keys
<1> QED
  BY <1>1 DEF ParseOpt, Keys

\* An option given again changes nothing.
LEMMA ParsedAgain ==
  ASSUME LoopInv, LoopInv', NEW o, NEW key \in Keys, o[1] = key
  PROVE  ParseOpt(args', o)[key] = ParseOpt(args, o)[key]
<1>1. key \in DOMAIN args /\ key \in DOMAIN args'
  BY DEF LoopInv, Keys
<1> QED
  BY <1>1 DEF ParseOpt

\* One option more is the last of its kind; the last of another is what it was.
LEMMA GivenMore ==
  ASSUME asked \in Seq(Options), NEW o \in Options, asked' = Append(asked, o), NEW key
  PROVE  /\ asked' \in Seq(Options) /\ Len(asked') = Len(asked) + 1 /\ Len(asked) \in Nat
         /\ Given(key) \subseteq 1 .. Len(asked) /\ \A k \in Given(key) : asked'[k] = asked[k]
         /\ asked'[Len(asked) + 1] = o
         /\ Given(key)' = IF o[1] = key THEN Given(key) \cup {Len(asked) + 1} ELSE Given(key)
<1>1. /\ asked' \in Seq(Options) /\ Len(asked') = Len(asked) + 1 /\ Len(asked) \in Nat
      /\ DOMAIN asked = 1 .. Len(asked) /\ DOMAIN asked' = 1 .. Len(asked) + 1
      /\ asked'[Len(asked) + 1] = o /\ \A k \in 1 .. Len(asked) : asked'[k] = asked[k]
  OBVIOUS
<1>2. \A k : k \in 1 .. Len(asked) + 1 <=> (k \in 1 .. Len(asked) \/ k = Len(asked) + 1)
  BY <1>1
<1>3. \A k : k \in Given(key) <=> (k \in 1 .. Len(asked) /\ asked[k][1] = key)
  BY <1>1 DEF Given
<1>4. \A k : k \in Given(key)' <=> (k \in 1 .. Len(asked) + 1 /\ asked'[k][1] = key)
  BY <1>1 DEF Given
<1>5. Given(key)' = IF o[1] = key THEN Given(key) \cup {Len(asked) + 1} ELSE Given(key)
  <2>1. \A k : k \in Given(key)' <=> (k \in Given(key) \/ (k = Len(asked) + 1 /\ o[1] = key))
    BY <1>1, <1>2, <1>3, <1>4
  <2>2. CASE o[1] = key
    BY <2>1, <2>2
  <2>3. CASE o[1] # key
    BY <2>1, <2>3, Zenon
  <2> QED
    BY <2>2, <2>3
<1> QED
  BY <1>1, <1>3, <1>5

\* An option that is accepted is heeded, and the others still are.
LEMMA OptionHeeded ==
  ASSUME IInv, IInv', OptionInv, NEW o \in Options, Option(o), pc' = "options", NEW key \in Keys
  PROVE  Heeded(key)'
<1>1. /\ pc = "options" /\ ~Rejected(o) /\ args' = ParseOpt(args, o)
      /\ asked' = Append(asked, o) /\ asked \in Seq(Options) /\ Heeded(key)
  BY DEF Option, Goto, OptionInv
<1>2. LoopInv /\ LoopInv'
  BY DEF IInv
<1>3. CASE o[1] = key
  <2> DEFINE n == Len(asked) + 1
  <2>1. /\ n \in Given(key)' /\ \A l \in Given(key)' : l <= n /\ asked'[n] = o
    BY <1>1, <1>3, GivenMore
  <2>2. args'[key] = ParseOpt(args', asked'[n])[key]
    BY <1>1, <1>2, <1>3, <2>1, ParsedAgain
  <2> QED
    BY <1>1, <2>1, <2>2 DEF Heeded
<1>4. CASE o[1] # key
  <2>1. Given(key)' = Given(key) /\ \A k \in Given(key) : asked'[k] = asked[k]
    BY <1>1, <1>4, GivenMore
  <2>2. args'[key] = args[key]
    BY <1>1, <1>2, <1>4, ParsedArgument
  <2>3. ASSUME NEW k \in Given(key), args[key] = ParseOpt(args, asked[k])[key]
        PROVE  args'[key] = ParseOpt(args', asked[k])[key]
    <3>1. asked[k][1] = key
      BY DEF Given
    <3> QED
      BY <1>2, <2>2, <2>3, <3>1, ParsedAgain
  <2> QED
    BY <1>1, <2>1, <2>2, <2>3 DEF Heeded
<1> QED
  BY <1>3, <1>4

LEMMA OptionInit == Init => OptionInv
<1> SUFFICES ASSUME Init PROVE OptionInv
  OBVIOUS
<1>1. PICK g \in Garbage : args = Defaults(g)
  BY DEF Init
<1>2. \A key : Given(key) = {}
  BY DEF Init, Given
<1>3. args.S = "DEBUG" /\ args.r = "DEBUG" /\ args.v = "DEBUG"
  BY <1>1 DEF Defaults
<1> QED
  BY <1>2, <1>3 DEF Init, OptionInv, Heeded

LEMMA OptionStep == IInv /\ IInv' /\ OptionInv /\ [Next]_vars => OptionInv'
<1> SUFFICES ASSUME IInv, IInv', OptionInv, [Next]_vars PROVE OptionInv'
  OBVIOUS
<1>1. ASSUME NEW o \in Options, Option(o) PROVE OptionInv'
  <2>1. asked' \in Seq(Options) /\ pc' \in {"options", "rejected"}
    BY <1>1, GivenMore DEF Option, OptionInv, Goto
  <2> QED
    BY <1>1, <2>1, OptionHeeded DEF OptionInv
<1>2. ASSUME UNCHANGED <<args, asked>>, pc \in {"options", "selected"}
      PROVE  \A key \in Keys : Heeded(key)'
  BY <1>2 DEF OptionInv, Heeded, Given
<1>3. CASE SelectDrivers
  BY <1>2, <1>3 DEF SelectDrivers, Goto, OptionInv
<1>4. CASE UNCHANGED vars
  BY <1>2, <1>4 DEF vars, OptionInv
<1>5. CASE asked' \in {asked, <<>>} /\ pc' \notin {"options", "selected"}
  <2>1. asked' \in Seq(Options)
    BY <1>5, EmptySeq DEF OptionInv
  <2> QED
    BY <1>5, <2>1, Zenon DEF OptionInv
<1>6. Start => asked' = <<>> /\ pc' \notin {"options", "selected"}
  BY DEF Start, Goto
<1>7. \/ WorkerCreate \/ RadosConnect \/ RadosIoctx \/ WorkerDestroy \/ Benchmark \/ Begin \/ LoopDone
      \/ Open \/ Retry \/ Transfer \/ Close \/ RadosWrite \/ RadosRead \/ Trace
      => UNCHANGED asked /\ pc' \notin {"options", "selected"}
  BY DEF WorkerCreate, RadosConnect, RadosIoctx, WorkerDestroy, Benchmark, Begin, LoopDone,
       Open, Retry, Transfer, Close, RadosWrite, RadosRead, Trace, Goto, Return, Proceed, optVars
<1> QED
  BY <1>1, <1>3, <1>4, <1>5, <1>6, <1>7 DEF Next

\* The option that counts is the one whose place CHOOSE gives.
LEMMA LastIs ==
  ASSUME asked \in Seq(Options), NEW key, NEW k \in Given(key), \A l \in Given(key) : l <= k
  PROVE  LastGiven(key) = asked[k][2] /\ asked[k] \in Options /\ asked[k][1] = key
<1>1. Given(key) \subseteq Nat /\ asked[k] \in Options /\ asked[k][1] = key
  BY DEF Given
<1>2. \A j \in Given(key) : (\A l \in Given(key) : l <= j) => j = k
  BY <1>1
<1>3. (CHOOSE j \in Given(key) : \A l \in Given(key) : l <= j) = k
  BY <1>2
<1> QED
  BY <1>1, <1>3 DEF LastGiven

\* What an unsigned makes of an int.
LEMMA UnsignedOf ==
  ASSUME NEW n \in 1 - UINTS .. UINTS - 1
  PROVE  Unsigned(n) = IF n >= 0 THEN n ELSE n + UINTS
  BY Bounds DEF Unsigned

-----------------------------------------------------------------------------
(* The theorems. *)

\* Every variable keeps its type, whatever the options, and no loop passes its
\* count (parse_opt, run_motif).
THEOREM TypeCorrect == Spec => []TypeOK
  BY Invariant, PTL DEF IInv

\* A task does what the last option of each kind said, if it is one that
\* parse_opt's messages allow, whatever was given before it and in whatever
\* order, and without one it does the default (parse_opt, storage_select,
\* prng_select, log_set_level).
THEOREM LastOptionCounts == Spec => []AsAsked
<1>1. IInv /\ OptionInv => AsAsked
  <2> SUFFICES ASSUME IInv, OptionInv, pc = "selected" PROVE AsAsked
    BY DEF AsAsked
  <2>1. asked \in Seq(Options) /\ LoopInv /\ \A key \in Keys : Heeded(key)
    BY DEF OptionInv, IInv
  <2>2. ASSUME NEW key \in Keys, Given(key) # {}
        PROVE  \E o \in Options : /\ ~Rejected(o) /\ o[1] = key /\ o[2] = LastGiven(key)
                                  /\ args[key] = ParseOpt(args, o)[key]
    <3>1. PICK k \in Given(key) :
               /\ \A l \in Given(key) : l <= k
               /\ ~Rejected(asked[k])
               /\ args[key] = ParseOpt(args, asked[k])[key]
      BY <2>1, <2>2 DEF Heeded
    <3> QED
      BY <2>1, <3>1, LastIs
  <2>3. ASSUME NEW key \in Numbers, Given(key) # {}, LastGiven(key) > 0
        PROVE  args[key] = LastGiven(key)
    <3>1. PICK o \in Options : /\ ~Rejected(o) /\ o[1] = key /\ o[2] = LastGiven(key)
                               /\ args[key] = ParseOpt(args, o)[key]
      BY <2>2, <2>3 DEF Keys, Numbers
    <3>2. o[2] \in 1 - UINTS .. UINTS - 1
      BY <2>3, <3>1, SessionAssumption
    <3>3. CASE key \in {"c", "n"}
      <4>1. args[key] = Unsigned(o[2])
        BY <2>1, <3>1, <3>3, ParsedArgument DEF Keys
      <4> QED
        BY <2>3, <3>1, <3>2, <4>1, UnsignedOf, Bounds
    <3>4. CASE key \in {"p", "R"}
      <4>1. args[key] = o[2]
        BY <2>1, <3>1, <3>4, ParsedArgument DEF Keys
      <4> QED
        BY <3>1, <4>1
    <3> QED
      BY <3>3, <3>4 DEF Numbers
  <2>4. ASSUME NEW key \in {"S", "r", "v"}
        PROVE  args[key] = IF Given(key) = {} THEN "DEBUG" ELSE FindMatch(key, LastGiven(key))
    <3>1. CASE Given(key) = {}
      BY <2>1, <3>1 DEF Heeded, Keys
    <3>2. CASE Given(key) # {}
      BY <2>1, <2>2, <3>2, ParsedArgument DEF Keys
    <3> QED
      BY <3>1, <3>2
  <2>5. ASSUME NEW key \in {"S", "r"}
        PROVE  /\ Given(key) = {} => Used(key) = "DEBUG"
               /\ Given(key) # {} /\ LastGiven(key) \in Names[key] => Used(key) = LastGiven(key)
    <3>1. Used(key) = Select(key, args[key])
      BY DEF OptionInv, Used, StorageSelect, PrngSelect
    <3>2. NoMatch \notin Names[key] /\ "DEBUG" \in Names[key]
      BY DEF Names, NoMatch
    <3> QED
      BY <2>4, <3>1, <3>2 DEF Select, FindMatch
  <2> DEFINE least == IF Given("v") = {} THEN "DEBUG" ELSE LastGiven("v")
  <2>6. ASSUME least \in Names.v, NEW severity \in Names.v
        PROVE  Logged(severity, level) <=> LogLevel[severity] >= LogLevel[least]
    <3>1. NoMatch \notin Names.v /\ "DEBUG" \in Names.v
      BY DEF Names, NoMatch, LogLevel
    <3>2. args.v = least
      BY <2>4, <2>6 DEF FindMatch
    <3>3. level = LogLevel[least]
      BY <2>6, <3>1, <3>2 DEF OptionInv, LogSetLevel
    <3> QED
      BY <3>3 DEF Logged
  <2> QED
    BY <2>3, <2>5, <2>6 DEF AsAsked
<1> QED
  BY <1>1, OptionInit, OptionStep, Invariant, PTL DEF Spec

\* The descriptors that are open between accesses were left by calls that
\* failed (storage_debug_write and the others).
THEOREM NoDescriptorLost == Spec => []DescriptorsReturned
<1>1. IInv => DescriptorsReturned
  BY DEF IInv, TypeOK, DescriptorInv, DescriptorsReturned
<1> QED
  BY <1>1, Invariant, PTL

\* A task that has returned has shut its session down, whichever call of the
\* set-up failed (storage_rados_worker_create).
THEOREM NoSessionLost == Spec => []SessionShutDown
<1>1. IInv => SessionShutDown
  BY DEF IInv, HandleInv, SessionShutDown
<1> QED
  BY <1>1, Invariant, PTL

\* Whatever is in the pool when the task starts, with the default generator it
\* reads back and accepts what it wrote (storage_rados_write, storage_rados_read).
THEOREM LeftoversHarmless == Spec => []LeftoversReplaced
  BY Invariant, PTL DEF IInv

\* What the last step of an access records.
LEMMA Recorded ==
  ASSUME IInv, Trace
  PROVE  /\ {rec'.ts, rec'.dur} \subseteq Timespec
         /\ Ns(time_benchmark) + Ns(rec'.ts) >= until
         /\ Ns(time_benchmark) + Ns(rec'.ts) + Ns(rec'.dur) = until'
<1> DEFINE t == TimeNow(now')
<1>1. /\ t \in Timespec /\ Ns(t) = now' /\ now' \in Int
  BY ClockForward, Bounds DEF Trace
<1>2. /\ time_benchmark \in Timespec /\ iop_start \in Timespec
      /\ Ns(iop_start) >= until /\ until \in Int
  BY DEF Trace, IInv, TypeOK, TimeInv, Access
<1>3. Ns(time_benchmark) \in Int /\ Ns(iop_start) \in Int
  BY <1>2, NsecPositive DEF Timespec, Ns
<1>4. /\ rec'.ts = TimeDelta(time_benchmark, iop_start)
      /\ rec'.dur = TimeDelta(iop_start, t)
      /\ until' = now'
  BY DEF Trace
<1> HIDE DEF t
<1>5. /\ rec'.ts \in Timespec /\ Ns(rec'.ts) = Ns(iop_start) - Ns(time_benchmark)
      /\ rec'.dur \in Timespec /\ Ns(rec'.dur) = Ns(t) - Ns(iop_start)
  BY <1>1, <1>2, <1>4, DeltaExact
<1> QED
  BY <1>1, <1>2, <1>3, <1>4, <1>5

\* No other step records anything.
LEMMA OnlyTraced ==
  ASSUME Next, rec' # rec
  PROVE  Trace
  BY DEF Next, Option, SelectDrivers, Start, WorkerCreate, RadosConnect, RadosIoctx,
       WorkerDestroy, Benchmark, Begin, LoopDone, Open, Retry, Transfer, Close, RadosWrite,
       RadosRead, timeVars

\* A record is of the time of its access and of no other's, to the nanosecond,
\* for every clock and every length of a second (storage_*_write, time_delta).
THEOREM RecordsExact == Spec => RecordsApart
<1> DEFINE began == Ns(time_benchmark) + Ns(rec'.ts)
           Apart == /\ {rec'.ts, rec'.dur} \subseteq Timespec
                    /\ began >= until
                    /\ began + Ns(rec'.dur) = until'
<1>1. IInv /\ [Next]_vars => [rec' # rec => Apart]_vars
  BY Recorded, OnlyTraced DEF vars
<1> QED
  BY <1>1, Invariant, PTL DEF Spec, RecordsApart

\* In CSV no time is less than it was, and one that is not a whole number of
\* seconds is right from a tenth of a second on only, whatever was recorded and
\* however many digits a second has (csv_trace).
THEOREM ZerosLost == Spec => []CsvOverstates
<1> DEFINE Proper == {rec.ts, rec.dur} \subseteq Timespec
<1>1. Init => Proper
  BY TimeZero DEF Init, NoRecord
<1>2. IInv /\ Proper /\ [Next]_vars => Proper'
  BY Recorded, OnlyTraced DEF vars
<1>3. Proper => CsvOverstates
  BY CsvReads DEF CsvOverstates
<1> QED
  BY <1>1, <1>2, <1>3, Invariant, PTL DEF Spec
=============================================================================
