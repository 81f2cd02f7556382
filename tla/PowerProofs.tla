---------------------------- MODULE PowerProofs ----------------------------
(***************************************************************************)
(* Induction over the natural numbers, stated of sets: a recursive         *)
(* function is what its equation says, and powers are what they should be. *)
(***************************************************************************)
EXTENDS Powers, Integers, WellFoundedInduction, TLAPS

\* The library's order of the naturals, written out.
LEMMA LessThan == OpToRel(<, Nat) = {ss \in Nat \X Nat : ss[1] < ss[2]}
  BY DEF OpToRel

\* A set of naturals that is not empty has a least element.
LEMMA Least ==
  ASSUME NEW S \in SUBSET Nat, S # {}
  PROVE  \E x \in S : \A y \in S : x <= y
<1> DEFINE lt == {ss \in Nat \X Nat : ss[1] < ss[2]}
<1>1. IsWellFoundedOn(lt, Nat)
  BY NatLessThanWellFounded, LessThan
<1>2. \E x \in S : \A y \in S : <<y, x>> \notin lt
  <2> HIDE DEF lt
  <2> QED BY <1>1, WFMin
<1>3. PICK x \in S : \A y \in S : <<y, x>> \notin lt
  BY <1>2
<1>4. ASSUME NEW y \in S PROVE x <= y
  <2>1. x \in Nat /\ y \in Nat /\ <<y, x>> \notin lt
    BY <1>3
  <2>2. ~(y < x)
    BY <2>1
  <2> QED
    BY <2>1, <2>2
<1> QED
  BY <1>4

\* A set that has 0, and the next of each natural it has, has all of them.
LEMMA Induction ==
  ASSUME NEW S, 0 \in S, \A n \in Nat : n \in S => n + 1 \in S
  PROVE  Nat \subseteq S
<1>1. CASE Nat \ S # {}
  <2>1. PICK x \in Nat \ S : \A y \in Nat \ S : x <= y
    BY <1>1, Least
  <2>2. x - 1 \in Nat /\ x - 1 \in S
    BY <2>1
  <2> QED
    BY <2>1, <2>2
<1> QED
  BY <1>1

\* What a function of a set to itself gives when it is applied again and again.
Iterates(f, S, a, step) ==
  f \in [Nat -> S] /\ f[0] = a /\ \A i \in Nat : f[i + 1] = step[f[i]]

\* There is such a sequence: it is built from the sequences that are right up to a
\* number.
LEMMA Iteration ==
  ASSUME NEW S, NEW a, NEW step, a \in S, step \in [S -> S]
  PROVE  \E f : Iterates(f, S, a, step)
<1> DEFINE Ok(n, f) == f[0] = a /\ \A i \in 0 .. n - 1 : f[i + 1] = step[f[i]]
           Begun == {n \in Nat : \E f \in [Nat -> S] : Ok(n, f)}
           Same(f, g, n) == {i \in Nat : i <= n => f[i] = g[i]}
<1>1. Nat \subseteq Begun
  <2>1. 0 \in Begun
    <3> [n \in Nat |-> a] \in [Nat -> S] /\ Ok(0, [n \in Nat |-> a])
      OBVIOUS
    <3> QED OBVIOUS
  <2>2. ASSUME NEW n \in Nat, n \in Begun PROVE n + 1 \in Begun
    <3>1. PICK f \in [Nat -> S] : Ok(n, f)
      BY <2>2
    <3> DEFINE g == [f EXCEPT ![n + 1] = step[f[n]]]
    <3>2. g \in [Nat -> S]
      OBVIOUS
    <3>3. g[n + 1] = step[f[n]] /\ \A i \in Nat : i # n + 1 => g[i] = f[i]
      OBVIOUS
    <3> HIDE DEF g
    <3>4. Ok(n + 1, g)
      BY <3>1, <3>3
    <3> QED
      BY <3>2, <3>4
  <2> HIDE DEF Begun
  <2> QED
    BY <2>1, <2>2, Induction
<1>2. ASSUME NEW n \in Nat, NEW m \in Nat, NEW f \in [Nat -> S], NEW g \in [Nat -> S],
             Ok(n, f), Ok(m, g), n <= m
      PROVE  \A i \in 0 .. n : f[i] = g[i]
  <2>1. 0 \in Same(f, g, n)
    BY <1>2
  <2>2. ASSUME NEW i \in Nat, i \in Same(f, g, n) PROVE i + 1 \in Same(f, g, n)
    <3> SUFFICES ASSUME i + 1 <= n PROVE f[i + 1] = g[i + 1]
      OBVIOUS
    <3>1. f[i] = g[i] /\ i \in 0 .. n - 1 /\ i \in 0 .. m - 1
      BY <1>2, <2>2
    <3> QED
      BY <1>2, <3>1
  <2>3. Nat \subseteq Same(f, g, n)
    <3> HIDE DEF Same
    <3> QED BY <2>1, <2>2, Induction
  <2> QED
    BY <2>3
<1> DEFINE h(n) == CHOOSE f \in [Nat -> S] : Ok(n, f)
           f == [n \in Nat |-> h(n)[n]]
<1>3. ASSUME NEW n \in Nat PROVE h(n) \in [Nat -> S] /\ Ok(n, h(n))
  <2>1. \E g \in [Nat -> S] : Ok(n, g)
    BY <1>1
  <2> HIDE DEF Ok
  <2> QED
    BY <2>1
<1> HIDE DEF h
<1>4. f \in [Nat -> S]
  BY <1>3
<1>5. f[0] = a
  BY <1>3
<1>6. ASSUME NEW n \in Nat PROVE f[n + 1] = step[f[n]]
  <2>1. h(n)[n] = h(n + 1)[n]
    <3>1. n + 1 \in Nat /\ n <= n + 1 /\ n \in 0 .. n
      OBVIOUS
    <3> HIDE DEF Ok
    <3> QED BY <1>2, <1>3, <3>1
  <2>2. h(n + 1)[n + 1] = step[h(n + 1)[n]]
    BY <1>3
  <2> QED
    BY <2>1, <2>2
<1> QED
  BY <1>4, <1>5, <1>6 DEF Iterates

\* The same of a function that is told how many times it has been applied.
NumberedIterates(f, S, a, step) ==
  f \in [Nat -> S] /\ f[0] = a /\ \A i \in Nat : f[i + 1] = step[<<i, f[i]>>]

LEMMA NumberedIteration ==
  ASSUME NEW S, NEW a, NEW step, a \in S, step \in [Nat \X S -> S]
  PROVE  \E f : NumberedIterates(f, S, a, step)
<1> DEFINE Pairs == Nat \X S
           first == <<0, a>>
           next == [p \in Pairs |-> <<p[1] + 1, step[p]>>]
<1>1. first \in Pairs /\ next \in [Pairs -> Pairs]
  OBVIOUS
<1>2. PICK g \in [Nat -> Pairs] : g[0] = first /\ \A i \in Nat : g[i + 1] = next[g[i]]
  <2>1. \E g : Iterates(g, Pairs, first, next)
    <3> HIDE DEF Pairs, first, next
    <3> QED
      BY <1>1, Iteration
  <2> QED
    BY <2>1 DEF Iterates
<1>3. \A i \in Nat : g[i] \in Pairs /\ g[i + 1] = <<g[i][1] + 1, step[g[i]]>>
  BY <1>2
<1> DEFINE T == {i \in Nat : g[i][1] = i}
<1>4. 0 \in T /\ \A i \in Nat : i \in T => i + 1 \in T
  BY <1>2, <1>3
<1>5. Nat \subseteq T
  <2> HIDE DEF T
  <2> QED
    BY <1>4, Induction
<1> DEFINE f == [i \in Nat |-> g[i][2]]
<1>6. f \in [Nat -> S] /\ f[0] = a
  BY <1>2, <1>3
<1>7. ASSUME NEW i \in Nat PROVE f[i + 1] = step[<<i, f[i]>>]
  <2>1. g[i] = <<i, f[i]>>
    BY <1>3, <1>5
  <2>2. i + 1 \in Nat /\ f[i + 1] = g[i + 1][2]
    OBVIOUS
  <2>3. g[i + 1] = <<g[i][1] + 1, step[g[i]]>>
    BY <1>3
  <2> HIDE DEF f
  <2> QED
    BY <2>1, <2>2, <2>3
<1> QED
  BY <1>6, <1>7 DEF NumberedIterates

-----------------------------------------------------------------------------
(* Powers. *)

\* Pow satisfies its equation.
LEMMA PowIs ==
  ASSUME NEW b \in Nat
  PROVE  /\ Pow(b, 0) = 1
         /\ \A n \in Nat : Pow(b, n) \in Nat /\ Pow(b, n + 1) = b * Pow(b, n)
<1> DEFINE Rec(f) == f = [i \in Nat |-> IF i = 0 THEN 1 ELSE b * f[i - 1]]
           pow == CHOOSE f : Rec(f)
<1>1. PICK f \in [Nat -> Nat] : Rec(f)
  <2> DEFINE S == Nat
             one == 1
             step == [x \in S |-> b * x]
  <2>1. one \in S /\ step \in [S -> S]
    OBVIOUS
  <2>2. PICK f : Iterates(f, S, one, step)
    <3> HIDE DEF S, one, step
    <3> QED
      BY <2>1, Iteration
  <2>3. f \in [Nat -> S] /\ f[0] = one /\ \A i \in Nat : f[i + 1] = step[f[i]]
    BY <2>2 DEF Iterates
  <2>4. ASSUME NEW i \in Nat, i # 0 PROVE f[i] = b * f[i - 1]
    <3>1. i - 1 \in Nat /\ (i - 1) + 1 = i
      BY <2>4
    <3> QED
      BY <2>3, <3>1
  <2> QED
    BY <2>3, <2>4
<1>2. Rec(pow)
  <2> HIDE DEF Rec
  <2> QED
    BY <1>1
<1>3. \A n : Pow(b, n) = pow[n]
  BY DEF Pow
<1> HIDE DEF pow
<1>4. pow[0] = 1 /\ \A n \in Nat : pow[n + 1] = b * pow[n]
  BY <1>2
<1> DEFINE T == {n \in Nat : pow[n] \in Nat}
<1>5. 0 \in T /\ \A n \in Nat : n \in T => n + 1 \in T
  BY <1>4
<1>6. Nat \subseteq T
  <2> HIDE DEF T
  <2> QED
    BY <1>5, Induction
<1> QED
  BY <1>3, <1>4, <1>6

\* A power of a positive number is positive.
LEMMA PowPositive ==
  ASSUME NEW b \in Nat, b > 0, NEW n \in Nat
  PROVE  Pow(b, n) \in Nat /\ Pow(b, n) > 0
<1> DEFINE T == {i \in Nat : Pow(b, i) > 0}
<1>1. 0 \in T /\ \A i \in Nat : i \in T => i + 1 \in T
  <2>1. 0 \in T
    BY PowIs
  <2>2. ASSUME NEW i \in Nat, Pow(b, i) > 0 PROVE Pow(b, i + 1) > 0
    <3>1. Pow(b, i + 1) = b * Pow(b, i) /\ Pow(b, i) \in Nat
      BY PowIs
    <3> HIDE DEF T
    <3> DEFINE p == Pow(b, i)
    <3>2. p \in Nat /\ p > 0 /\ Pow(b, i + 1) = b * p
      BY <2>2, <3>1
    <3> HIDE DEF p
    <3>3. b * p > 0
      BY <3>2
    <3> QED
      BY <3>2, <3>3
  <2> QED
    BY <2>1, <2>2
<1>2. Nat \subseteq T
  <2> HIDE DEF T
  <2> QED
    BY <1>1, Induction
<1> QED
  BY <1>2, PowIs

\* Exponents are added and multiplied.
LEMMA PowSum ==
  ASSUME NEW b \in Nat, NEW m \in Nat, NEW n \in Nat
  PROVE  Pow(b, m + n) = Pow(b, m) * Pow(b, n)
<1> DEFINE T == {i \in Nat : Pow(b, m + i) = Pow(b, m) * Pow(b, i)}
           p == Pow(b, m)
<1>1. p \in Nat /\ Pow(b, 0) = 1
      /\ \A i \in Nat : Pow(b, i) \in Nat /\ Pow(b, i + 1) = b * Pow(b, i)
  BY PowIs
<1>2. 0 \in T
  <2>1. m + 0 = m /\ p * 1 = p
    BY <1>1
  <2> QED
    BY <1>1, <2>1
<1>3. ASSUME NEW i \in Nat, i \in T PROVE i + 1 \in T
  <2> DEFINE q == Pow(b, i)
             r == Pow(b, m + i)
  <2>1. q \in Nat /\ Pow(b, i + 1) = b * q /\ r = p * q
    BY <1>1, <1>3
  <2>2. m + (i + 1) = (m + i) + 1 /\ m + i \in Nat
    OBVIOUS
  <2>3. Pow(b, m + (i + 1)) = b * r
    BY <1>1, <2>2
  <2> HIDE DEF p, q, r
  <2>4. b * (p * q) = p * (b * q)
    BY <1>1, <2>1
  <2>5. Pow(b, m + (i + 1)) = p * Pow(b, i + 1)
    BY <2>1, <2>3, <2>4
  <2> QED
    BY <2>5 DEF p
<1>4. Nat \subseteq T
  <2> HIDE DEF T
  <2> QED
    BY <1>2, <1>3, Induction
<1> QED
  BY <1>4

LEMMA PowProduct ==
  ASSUME NEW b \in Nat, NEW m \in Nat, NEW n \in Nat
  PROVE  Pow(b, m * n) = Pow(Pow(b, m), n)
<1> DEFINE T == {i \in Nat : Pow(b, m * i) = Pow(Pow(b, m), i)}
           p == Pow(b, m)
<1>1. p \in Nat /\ Pow(b, 0) = 1
  BY PowIs
<1>2. Pow(p, 0) = 1 /\ \A i \in Nat : Pow(p, i) \in Nat /\ Pow(p, i + 1) = p * Pow(p, i)
  <2> HIDE DEF p
  <2> QED
    BY <1>1, PowIs
<1>3. 0 \in T
  <2>1. m * 0 = 0
    OBVIOUS
  <2> QED
    BY <1>1, <1>2, <2>1
<1>4. ASSUME NEW i \in Nat, i \in T PROVE i + 1 \in T
  <2> DEFINE j == m * i
             q == Pow(p, i)
  <2>1. j \in Nat /\ m * (i + 1) = j + m
    OBVIOUS
  <2>2. Pow(b, j) = q /\ q \in Nat /\ Pow(p, i + 1) = p * q
    BY <1>2, <1>4
  <2> HIDE DEF j
  <2>3. Pow(b, j + m) = Pow(b, j) * Pow(b, m)
    BY <2>1, PowSum
  <2> HIDE DEF q
  <2>4. q * p = p * q
    BY <1>1, <2>2
  <2>5. Pow(b, m * (i + 1)) = Pow(p, i + 1)
    BY <2>1, <2>2, <2>3, <2>4
  <2> QED
    BY <2>5
<1>5. Nat \subseteq T
  <2> HIDE DEF T
  <2> QED
    BY <1>3, <1>4, Induction
<1> QED
  BY <1>5
=============================================================================
