-------------------------------- MODULE Prng --------------------------------
(***************************************************************************)
(* The two pseudo-random number generators of prng/, on words of W bits.   *)
(* A generator is a value: what the code keeps in prng_s.                  *)
(***************************************************************************)
EXTENDS Integers, Powers

CONSTANTS
  W,          \* the bits of a word: 32
  PRNG        \* what prng_select chose: "DEBUG" or "XORSHIFT"

ASSUME PrngAssumption ==
  /\ W \in Nat /\ W > 6
  /\ PRNG \in {"DEBUG", "XORSHIFT"}

WordCount == Pow(2, W)
Words == 0 .. WordCount - 1

\* Unsigned arithmetic on a word.
Wrap(x) == x % WordCount
Shl(x, n) == Wrap(x * Pow(2, n))
Shr(x, n) == x \div Pow(2, n)

\* Exclusive or, from the lowest bit up.
Xor(x, y) ==
  LET low[n \in Nat] ==
        IF n = 0 THEN 0
        ELSE low[n - 1] + ((Shr(x, n - 1) + Shr(y, n - 1)) % 2) * Pow(2, n - 1)
  IN low[W]

-----------------------------------------------------------------------------
(* PRNG_DEBUG, the default: a counter. *)

DebugInit(seed) == [seq |-> seed]
DebugNext(P) == P.seq
DebugAdvance(P) == [seq |-> Wrap(P.seq + 1)]
DebugPeek(P) == P.seq

-----------------------------------------------------------------------------
(* PRNG_XORSHIFT: five words of state and the number last drawn. *)

Rotl6(s) == Shl(s, 6) + Shr(s, W - 6)

XorshiftInit(seed) ==
  LET rotated[i \in 0 .. 4] == Rotl6(IF i = 0 THEN seed ELSE rotated[i - 1])
  IN [state |-> rotated, current |-> seed]

\* prng_xorshift_next: the generator after the draw; the number is its current.
XorshiftAdvance(P) ==
  LET s == P.state[0]
      mixed == Xor(P.state[3], Shr(P.state[3], 2))
      t == Xor(Xor(mixed, Shl(mixed, 1)), Xor(s, Shl(s, 4)))
      weyl == Wrap(P.state[4] + 32437)
  IN [state |-> [i \in 0 .. 4 |-> CASE i = 0 -> t
                                    [] i = 1 -> s
                                    [] i = 4 -> weyl
                                    [] OTHER -> P.state[i - 1]],
      current |-> Wrap(t + weyl)]

XorshiftNext(P) == XorshiftAdvance(P).current
XorshiftPeek(P) == P.current

-----------------------------------------------------------------------------
(* prng.c: the calls, passed on to the generator chosen. *)

PrngInit(seed) == IF PRNG = "DEBUG" THEN DebugInit(seed) ELSE XorshiftInit(seed)
PrngNext(P) == IF PRNG = "DEBUG" THEN DebugNext(P) ELSE XorshiftNext(P)
PrngAdvance(P) == IF PRNG = "DEBUG" THEN DebugAdvance(P) ELSE XorshiftAdvance(P)
PrngPeek(P) == IF PRNG = "DEBUG" THEN DebugPeek(P) ELSE XorshiftPeek(P)

\* The words that n draws give, and the generator after them.
Draws(P, n) ==
  LET after[i \in Nat] == IF i = 0 THEN P ELSE PrngAdvance(after[i - 1])
  IN [words |-> [i \in 1 .. n |-> PrngNext(after[i - 1])], gen |-> after[n]]
=============================================================================
