------------------------------ MODULE Timespec ------------------------------
(***************************************************************************)
(* Times as the program keeps them, a pair of seconds and nanoseconds: the *)
(* difference of two of them (utils/time.c) and how the trace formatter    *)
(* writes one (utils/tracefmt.c).                                          *)
(***************************************************************************)
EXTENDS Integers, Powers

CONSTANTS
  NSEC,       \* the nanoseconds in a second
  DIGITS      \* the decimal digits of a nanosecond: NSEC is Pow(10, DIGITS)

ASSUME TimespecAssumption ==
  /\ NSEC \in Nat \ {0}
  /\ DIGITS \in Nat /\ NSEC = Pow(10, DIGITS)

\* What clock_gettime returns.
Timespec == [sec : Int, nsec : 0 .. NSEC - 1]

\* A time in nanoseconds, and back: time_now.
Ns(t) == t.sec * NSEC + t.nsec
TimeNow(ns) == [sec |-> ns \div NSEC, nsec |-> ns % NSEC]

\* Mutant: the second carried over is not taken away.
TimeDeltaKeepsSecond(t1, t2) ==
  LET n == t2.nsec - t1.nsec
  IN [sec |-> t2.sec - t1.sec, nsec |-> IF n < 0 THEN n + NSEC ELSE n]

\* The rounds of the loop that carries seconds over to negative nanoseconds.
Carries(n) == IF n < 0 THEN (NSEC - 1 - n) \div NSEC ELSE 0

TimeDelta(t1, t2) ==
  LET n == t2.nsec - t1.nsec
  IN [sec |-> t2.sec - t1.sec - Carries(n), nsec |-> n + (Carries(n) * NSEC)]

-----------------------------------------------------------------------------
(* What a reader of a formatted time takes it for, in nanoseconds. *)

\* print_trace: "%d.%09ld", every digit of the fraction.
TextValue(t) == Ns(t)

\* Mutant: the fraction is padded.
CsvValuePadded(t) == Ns(t)

\* csv_trace: "%d.%d", where the fraction has lost its leading zeros, and its
\* first digit is read as tenths.
CsvValue(t) ==
  LET scale == CHOOSE k \in {Pow(10, d) : d \in 0 .. DIGITS} :
                 t.nsec = 0 \/ (t.nsec * k < NSEC /\ t.nsec * k * 10 >= NSEC)
  IN (t.sec * NSEC) + (t.nsec * scale)
=============================================================================
