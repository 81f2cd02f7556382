---------------------------- MODULE ObjectsProofs ----------------------------
(***************************************************************************)
(* Objects' properties for words and samples of any size, any seed and any *)
(* number of objects, reads and changes of files: types and validation to  *)
(* the byte with either generator, and what is promised of the default     *)
(* one, the counter.                                                       *)
(***************************************************************************)
EXTENDS Objects, PowerProofs, SequenceTheorems

-----------------------------------------------------------------------------
(* Words, bytes and lengths. *)

LEMMA Sizes ==
  /\ WORD \in Nat /\ WORD > 1 /\ WriteCount \in Nat /\ WriteCount > 0
  /\ ReadCount \in Nat /\ Alterations \in Nat
  /\ LEN_MAX \in Nat /\ W \in Nat /\ W > 6
  /\ WordCount \in Nat /\ WordCount > 0 /\ BYTE \in Nat /\ BYTE > 0
<1>1. /\ WORD \in Nat /\ WORD > 1 /\ WriteCount \in Nat /\ WriteCount > 0
      /\ ReadCount \in Nat /\ Alterations \in Nat
      /\ LEN_MAX \in Nat /\ W \in Nat /\ W > 6
  BY ObjectsAssumption, PrngAssumption
<1>2. W \div WORD \in Nat
  BY <1>1
<1>3. \A n \in Nat : Pow(2, n) \in Nat /\ Pow(2, n) > 0
  <2>1. 2 \in Nat /\ 2 > 0
    OBVIOUS
  <2> QED
    BY <2>1, PowPositive
<1> QED
  BY <1>1, <1>2, <1>3 DEF WordCount, BYTE

\* A power of two is something to divide by.
LEMMA Shift ==
  ASSUME NEW n \in Nat
  PROVE  Pow(2, n) \in Nat /\ Pow(2, n) > 0
<1>1. 2 \in Nat /\ 2 > 0
  OBVIOUS
<1> QED
  BY <1>1, PowPositive

LEMMA WrapTyped ==
  ASSUME NEW x \in Int
  PROVE  Wrap(x) \in Words
  BY Sizes DEF Wrap, Words

LEMMA ByteTyped ==
  ASSUME NEW w \in Words, NEW k \in Nat
  PROVE  ByteOf(w, k) \in Bytes
<1>1. Pow(BYTE, k) \in Nat /\ Pow(BYTE, k) > 0 /\ w \in Nat
  BY Sizes, PowPositive DEF Words
<1>2. w \div Pow(BYTE, k) \in Int
  BY <1>1
<1> QED
  BY <1>2, Sizes DEF ByteOf, Bytes

\* Half of the longest sample is whole words too.
LEMMA Halves ==
  /\ LEN_MIN \in Nat /\ LEN_MIN > 0 /\ LEN_MIN % WORD = 0
  /\ LEN_MAX = 2 * LEN_MIN
<1> DEFINE q == LEN_MAX \div (2 * WORD)
<1>1. q \in Nat /\ LEN_MAX = (2 * WORD) * q
  BY ObjectsAssumption
<1> HIDE DEF q
<1>2. WORD * q \in Nat /\ LEN_MAX = 2 * (WORD * q)
  BY <1>1, Sizes
<1>3. LEN_MIN = WORD * q
  BY <1>2 DEF LEN_MIN
<1>4. (WORD * q) % WORD = 0
  BY <1>1, Sizes
<1> QED
  BY <1>2, <1>3, <1>4, ObjectsAssumption

LEMMA LenTyped ==
  ASSUME NEW w \in Words
  PROVE  LenCalc(w) \in Nat /\ LenCalc(w) >= LEN_MIN /\ LenCalc(w) < LEN_MAX
<1>1. w \in Nat
  BY Sizes DEF Words
<1>2. w % (LEN_MAX - LEN_MIN) \in 0 .. LEN_MIN - 1
  BY <1>1, Halves
<1> QED
  BY <1>2, Halves DEF LenCalc

\* Division with a remainder.
LEMMA Division ==
  ASSUME NEW x \in Int, NEW n \in Nat, n > 0
  PROVE  /\ x \div n \in Int /\ x % n \in 0 .. n - 1
         /\ x = n * (x \div n) + (x % n)
         /\ x >= 0 => x \div n >= 0
<1>1. x \div n \in Int /\ x % n \in 0 .. n - 1
  OBVIOUS
<1>2. x = n * (x \div n) + (x % n)
  OBVIOUS
<1>3. x >= 0 => x \div n >= 0
  OBVIOUS
<1> QED
  BY <1>1, <1>2, <1>3

\* A quotient and a remainder are what they are of.
LEMMA Divided ==
  ASSUME NEW n \in Nat, n > 0, NEW q \in Int, NEW r \in 0 .. n - 1
  PROVE  (q * n + r) \div n = q /\ (q * n + r) % n = r
<1>1. q * n \in Int
  OBVIOUS
<1> DEFINE x == q * n + r
           d == x \div n
<1>2. x \in Int /\ d \in Int /\ x = d * n + (x % n) /\ x % n \in 0 .. n - 1
  <2>1. x \in Int
    BY <1>1
  <2> HIDE DEF x
  <2> QED
    BY <2>1, Division
<1>3. d * n \in Int
  BY <1>2
<1>4. q * n < d * n + n /\ d * n < q * n + n
  BY <1>1, <1>2, <1>3
<1>5. x = q * n + r
  OBVIOUS
<1> HIDE DEF d, x
<1>6. d = q
  <2>1. CASE d < q
    <3>1. q - d - 1 \in Nat /\ (q - d - 1) * n >= 0
      BY <1>2, <2>1
    <3>2. (q - d - 1) * n = q * n - d * n - n
      BY <1>2
    <3> QED
      BY <1>1, <1>3, <1>4, <3>1, <3>2
  <2>2. CASE q < d
    <3>1. d - q - 1 \in Nat /\ (d - q - 1) * n >= 0
      BY <1>2, <2>2
    <3>2. (d - q - 1) * n = d * n - q * n - n
      BY <1>2
    <3> QED
      BY <1>1, <1>3, <1>4, <3>1, <3>2
  <2> QED
    BY <1>2, <2>1, <2>2
<1>7. x % n = r
  <2>1. x = q * n + (x % n)
    BY <1>2, <1>6
  <2> QED
    BY <1>1, <1>2, <1>5, <2>1
<1> QED
  BY <1>6, <1>7 DEF d, x

\* What is added before and after a word is wrapped is the same.
LEMMA WrapPlus ==
  ASSUME NEW x \in Int, NEW y \in Int
  PROVE  Wrap(Wrap(x) + y) = Wrap(x + y)
<1> DEFINE n == WordCount
           q == x \div n
           u == x % n
           z == u + y
           p == z \div n
           v == z % n
<1>1. n \in Nat /\ n > 0
  BY Sizes
<1> HIDE DEF n
<1>2. q \in Int /\ u \in Int /\ x = n * q + u
  BY <1>1, Division
<1>3. z \in Int /\ z = u + y
  BY <1>2
<1>4. Wrap(x) = u /\ Wrap(Wrap(x) + y) = v /\ Wrap(x + y) = (x + y) % n
  BY DEF Wrap, n
<1> HIDE DEF z, u
<1>5. p \in Int /\ v \in 0 .. n - 1 /\ z = n * p + v
  BY <1>1, <1>3, Division
<1> HIDE DEF p, q, v
<1>6. x + y = (q + p) * n + v
  <2>1. n * q \in Int /\ n * p \in Int /\ (q + p) * n = n * q + n * p
    BY <1>1, <1>2, <1>5
  <2>2. v \in Int
    BY <1>1, <1>5
  <2> QED
    BY <1>2, <1>3, <1>5, <2>1, <2>2
<1>7. ((q + p) * n + v) % n = v
  <2>1. q + p \in Int
    BY <1>2, <1>5
  <2> QED
    BY <1>1, <1>5, <2>1, Divided
<1> QED
  BY <1>4, <1>6, <1>7

\* A word is different from each of the words that follow it, until it comes
\* round again.
LEMMA WrapDiffers ==
  ASSUME NEW w \in Words, NEW d \in Int, d > 0, d < WordCount
  PROVE  Wrap(w + d) # w
<1> DEFINE n == WordCount
<1>1. n \in Nat /\ n > 0 /\ w \in 0 .. n - 1 /\ d < n
  BY Sizes DEF Words
<1> HIDE DEF n
<1>2. CASE w + d < n
  <2>1. (w + d) % n = w + d
    BY <1>1, <1>2
  <2> QED
    BY <1>1, <2>1 DEF Wrap, n
<1>3. CASE w + d >= n
  <2>1. w + d - n \in 0 .. n - 1 /\ 1 \in Int /\ 1 * n + (w + d - n) = w + d
    BY <1>1, <1>3
  <2>2. (1 * n + (w + d - n)) % n = w + d - n
    BY <1>1, <2>1, Divided
  <2>3. (w + d) % n = w + d - n
    BY <2>1, <2>2
  <2> QED
    BY <1>1, <2>3 DEF Wrap, n
<1> QED
  BY <1>1, <1>2, <1>3

\* The data of a sample fit its buffer, the bytes of a last word included.
LEMMA WordsFit ==
  ASSUME NEW len \in Nat, len <= LEN_MAX
  PROVE  /\ DataWords(len) \in Nat
         /\ DataWords(len) * WORD <= LEN_MAX
         /\ DataWords(len) <= LEN_MAX \div WORD
<1> DEFINE q == len \div WORD
           r == len % WORD
           m == LEN_MAX \div WORD
<1>1. q \in Nat /\ r \in 0 .. WORD - 1 /\ len = WORD * q + r
  BY Sizes
<1>2. m \in Nat /\ LEN_MAX = WORD * m
  <2>1. LEN_MAX % WORD = 0
    <3> DEFINE h == LEN_MIN \div WORD
    <3>1. h \in Nat /\ LEN_MIN = WORD * h
      BY Halves, Sizes
    <3> HIDE DEF h
    <3>2. LEN_MAX = (2 * h) * WORD + 0 /\ 2 * h \in Int /\ 0 \in 0 .. WORD - 1
      BY <3>1, Halves, Sizes
    <3> QED
      BY <3>2, Divided, Sizes
  <2> QED
    BY <2>1, Sizes
<1>3. DataWords(len) = q + (IF r = 0 THEN 0 ELSE 1)
  BY DEF DataWords
<1> HIDE DEF q, r, m
<1>4. q + (IF r = 0 THEN 0 ELSE 1) <= m
  <2>1. CASE q < m
    BY <1>1, <1>2, <2>1
  <2>2. CASE q >= m
    <3>1. (q - m) * WORD >= 0 /\ (q - m) * WORD = WORD * q - WORD * m
      BY <1>1, <1>2, <2>2, Sizes
    <3>2. r = 0 /\ (q - m) * WORD = 0
      BY <1>1, <1>2, <3>1, Sizes
    <3>3. q - m = 0
      BY <1>1, <1>2, <2>2, <3>2, Sizes
    <3> QED
      BY <1>1, <1>2, <3>2, <3>3
  <2> QED
    BY <1>1, <1>2, <2>1, <2>2
<1> DEFINE d == DataWords(len)
<1>5. d \in Nat /\ d <= m
  BY <1>1, <1>3, <1>4
<1> HIDE DEF d
<1>6. (m - d) * WORD >= 0 /\ (m - d) * WORD = WORD * m - d * WORD /\ d * WORD \in Nat
  BY <1>2, <1>5, Sizes
<1> QED
  BY <1>2, <1>5, <1>6, Sizes DEF d, m

-----------------------------------------------------------------------------
(* The generators. *)

Gens == IF PRNG = "DEBUG" THEN [seq : Words]
        ELSE [state : [0 .. 4 -> Int], current : Words]

LEMMA ShiftsTyped ==
  ASSUME NEW x \in Int, NEW n \in Nat
  PROVE  Shl(x, n) \in Int /\ Shr(x, n) \in Int
<1>1. x * Pow(2, n) \in Int
  BY Shift
<1> QED
  BY <1>1, Shift, Sizes DEF Shl, Shr, Wrap

LEMMA XorTyped ==
  ASSUME NEW x \in Int, NEW y \in Int
  PROVE  Xor(x, y) \in Int
<1> DEFINE bit(n) == ((Shr(x, n) + Shr(y, n)) % 2) * Pow(2, n)
           Rec(f) == f = [n \in Nat |-> IF n = 0 THEN 0 ELSE f[n - 1] + bit(n - 1)]
           low == CHOOSE f : Rec(f)
<1>1. \A n \in Nat : bit(n) \in Int
  BY Shift, ShiftsTyped
<1>2. Xor(x, y) = low[W]
  BY DEF Xor
<1> HIDE DEF bit
<1>3. PICK f \in [Nat -> Int] : Rec(f)
  <2> DEFINE N == Int
             zero == 0
             step == [p \in Nat \X N |-> p[2] + bit(p[1])]
  <2>1. zero \in N /\ step \in [Nat \X N -> N]
    BY <1>1
  <2>2. PICK f : NumberedIterates(f, N, zero, step)
    <3> HIDE DEF N, zero, step
    <3> QED
      BY <2>1, NumberedIteration
  <2>3. f \in [Nat -> N] /\ f[0] = zero /\ \A i \in Nat : f[i + 1] = step[<<i, f[i]>>]
    BY <2>2 DEF NumberedIterates
  <2>4. ASSUME NEW n \in Nat, n # 0 PROVE f[n] = f[n - 1] + bit(n - 1)
    <3>1. n - 1 \in Nat /\ (n - 1) + 1 = n
      BY <2>4
    <3> QED
      BY <2>3, <3>1
  <2> QED
    BY <2>4, <2>3
<1>4. Rec(low)
  <2> HIDE DEF Rec
  <2> QED
    BY <1>3
<1> HIDE DEF low
<1> DEFINE T == {n \in Nat : low[n] \in Int}
<1>5. 0 \in T /\ \A n \in Nat : n \in T => n + 1 \in T
  BY <1>1, <1>4
<1>6. Nat \subseteq T
  <2> HIDE DEF T
  <2> QED
    BY <1>5, Induction
<1> QED
  BY <1>2, <1>6, Sizes

LEMMA SeedTyped ==
  ASSUME NEW w \in Words
  PROVE  PrngInit(w) \in Gens
<1>1. CASE PRNG = "DEBUG"
  BY <1>1 DEF PrngInit, DebugInit, Gens
<1>2. CASE PRNG # "DEBUG"
  <2> DEFINE Rec(f) == f = [i \in 0 .. 4 |-> Rotl6(IF i = 0 THEN w ELSE f[i - 1])]
             rotated == CHOOSE f : Rec(f)
  <2>1. \A x \in Int : Rotl6(x) \in Int
    BY ShiftsTyped, Sizes DEF Rotl6
  <2>2. w \in Int
    BY Sizes DEF Words
  <2>3. \E f : Rec(f)
    <3> DEFINE N == Int
               step == [x \in N |-> Rotl6(x)]
    <3>1. step \in [N -> N] /\ w \in N
      BY <2>1, <2>2
    <3>2. PICK f : Iterates(f, N, w, step)
      <4> HIDE DEF N, step
      <4> QED
        BY <3>1, Iteration
    <3>3. f \in [Nat -> N] /\ f[0] = w /\ \A i \in Nat : f[i + 1] = step[f[i]]
      BY <3>2 DEF Iterates
    <3> DEFINE r == [i \in 0 .. 4 |-> f[i + 1]]
    <3>4. ASSUME NEW i \in 0 .. 4
          PROVE  r[i] = Rotl6(IF i = 0 THEN w ELSE r[i - 1])
      <4>1. i \in Nat /\ f[i] \in N /\ f[i + 1] = Rotl6(f[i])
        <5>1. i \in Nat /\ f[i] \in N
          BY <3>3
        <5> QED
          BY <3>3, <5>1
      <4>2. i # 0 => i - 1 \in 0 .. 4 /\ (i - 1) + 1 = i
        OBVIOUS
      <4> QED
        BY <3>3, <4>1, <4>2
    <3>5. Rec(r)
      <4>1. r = [i \in 0 .. 4 |-> r[i]]
        OBVIOUS
      <4> HIDE DEF r
      <4> QED
        BY <3>4, <4>1
    <3> QED
      BY <3>5
  <2>4. Rec(rotated)
    <3> HIDE DEF Rec
    <3> QED
      BY <2>3
  <2>5. PrngInit(w) = [state |-> rotated, current |-> w]
    BY <1>2 DEF PrngInit, XorshiftInit
  <2> HIDE DEF rotated
  <2>6. \A i \in 0 .. 4 : rotated[i] \in Int
    <3>1. rotated[0] \in Int /\ \A i \in 1 .. 4 : rotated[i - 1] \in Int => rotated[i] \in Int
      BY <2>1, <2>2, <2>4
    <3>2. rotated[1] \in Int /\ rotated[2] \in Int /\ rotated[3] \in Int /\ rotated[4] \in Int
      BY <3>1
    <3> QED
      BY <3>1, <3>2
  <2>7. rotated \in [0 .. 4 -> Int]
    BY <2>4, <2>6
  <2> QED
    BY <1>2, <2>5, <2>7 DEF Gens
<1> QED
  BY <1>1, <1>2

LEMMA AdvanceTyped ==
  ASSUME NEW P0 \in Gens
  PROVE  PrngAdvance(P0) \in Gens /\ PrngNext(P0) \in Words /\ PrngPeek(P0) \in Words
<1>1. CASE PRNG = "DEBUG"
  <2>1. P0 \in [seq : Words] /\ P0.seq \in Words /\ P0.seq + 1 \in Int
    BY <1>1, Sizes DEF Gens, Words
  <2> QED
    BY <1>1, <2>1, WrapTyped
       DEF PrngAdvance, PrngNext, PrngPeek, DebugAdvance, DebugNext, DebugPeek, Gens
<1>2. CASE PRNG # "DEBUG"
  <2> DEFINE s == P0.state[0]
             mixed == Xor(P0.state[3], Shr(P0.state[3], 2))
             t == Xor(Xor(mixed, Shl(mixed, 1)), Xor(s, Shl(s, 4)))
             weyl == Wrap(P0.state[4] + 32437)
             state == [i \in 0 .. 4 |-> CASE i = 0 -> t
                                          [] i = 1 -> s
                                          [] i = 4 -> weyl
                                          [] OTHER -> P0.state[i - 1]]
  <2>1. P0.current \in Words /\ \A i \in 0 .. 4 : P0.state[i] \in Int
    BY <1>2 DEF Gens
  <2>2. s \in Int /\ P0.state[3] \in Int /\ P0.state[4] + 32437 \in Int
    BY <2>1
  <2>3. XorshiftAdvance(P0) = [state |-> state, current |-> Wrap(t + weyl)]
    BY DEF XorshiftAdvance
  <2> HIDE DEF s
  <2>4. mixed \in Int
    <3> DEFINE v == P0.state[3]
    <3>1. v \in Int /\ 2 \in Nat
      BY <2>2
    <3> HIDE DEF v
    <3>2. Shr(v, 2) \in Int
      BY <3>1, ShiftsTyped
    <3>3. Xor(v, Shr(v, 2)) \in Int
      BY <3>1, <3>2, XorTyped
    <3> QED
      BY <3>3 DEF v
  <2>5. t \in Int
    <3> HIDE DEF mixed
    <3>1. 1 \in Nat /\ 4 \in Nat
      OBVIOUS
    <3>2. Shl(mixed, 1) \in Int /\ Shl(s, 4) \in Int
      BY <2>2, <2>4, <3>1, ShiftsTyped
    <3>3. Xor(mixed, Shl(mixed, 1)) \in Int /\ Xor(s, Shl(s, 4)) \in Int
      BY <2>2, <2>4, <3>2, XorTyped
    <3> QED
      BY <3>3, XorTyped
  <2>6. weyl \in Words /\ weyl \in Int
    BY <2>2, WrapTyped, Sizes DEF Words
  <2> HIDE DEF mixed, t, weyl
  <2>7. state \in [0 .. 4 -> Int]
    BY <2>1, <2>2, <2>5, <2>6
  <2>8. Wrap(t + weyl) \in Words
    BY <2>5, <2>6, WrapTyped
  <2> HIDE DEF state
  <2> QED
    BY <1>2, <2>1, <2>7, <2>8, <2>3
       DEF PrngAdvance, PrngNext, PrngPeek, XorshiftNext, XorshiftPeek, Gens
<1> QED
  BY <1>1, <1>2

\* Draws are the words of the generators that follow one another.
LEMMA DrawsAre ==
  ASSUME NEW P0 \in Gens
  PROVE  \E after \in [Nat -> Gens] :
           /\ after[0] = P0
           /\ \A i \in Nat : after[i + 1] = PrngAdvance(after[i])
           /\ \A n \in Nat :
                Draws(P0, n) = [words |-> [i \in 1 .. n |-> PrngNext(after[i - 1])],
                                gen |-> after[n]]
<1> DEFINE Rec(f) == f = [i \in Nat |-> IF i = 0 THEN P0 ELSE PrngAdvance(f[i - 1])]
           after == CHOOSE f : Rec(f)
           step == [g \in Gens |-> PrngAdvance(g)]
<1>1. step \in [Gens -> Gens]
  BY AdvanceTyped
<1>2. PICK f \in [Nat -> Gens] : f[0] = P0 /\ \A i \in Nat : f[i + 1] = step[f[i]]
  <2>1. \E f : Iterates(f, Gens, P0, step)
    <3> HIDE DEF step
    <3> QED
      BY <1>1, Iteration
  <2> QED
    BY <2>1 DEF Iterates
<1>3. Rec(f)
  <2>1. ASSUME NEW i \in Nat, i # 0 PROVE f[i] = PrngAdvance(f[i - 1])
    <3>1. i - 1 \in Nat /\ (i - 1) + 1 = i
      BY <2>1
    <3> QED
      BY <1>2, <3>1
  <2> QED
    BY <1>2, <2>1
<1>4. Rec(after)
  <2> HIDE DEF Rec
  <2> QED
    BY <1>3
<1>5. \A n : Draws(P0, n) = [words |-> [i \in 1 .. n |-> PrngNext(after[i - 1])],
                             gen |-> after[n]]
  BY DEF Draws
<1> HIDE DEF after
<1>6. after[0] = P0 /\ \A i \in Nat : after[i + 1] = PrngAdvance(after[i])
  BY <1>4
<1> DEFINE T == {i \in Nat : after[i] \in Gens}
<1>7. 0 \in T /\ \A i \in Nat : i \in T => i + 1 \in T
  BY <1>6, AdvanceTyped
<1>8. Nat \subseteq T
  <2> HIDE DEF T
  <2> QED
    BY <1>7, Induction
<1>9. after \in [Nat -> Gens]
  BY <1>4, <1>8
<1> QED
  BY <1>5, <1>6, <1>9

LEMMA DrawsTyped ==
  ASSUME NEW P0 \in Gens, NEW n \in Nat
  PROVE  /\ Draws(P0, n).words \in Seq(Words) /\ Len(Draws(P0, n).words) = n
         /\ Draws(P0, n).gen \in Gens
<1>1. PICK after \in [Nat -> Gens] :
        Draws(P0, n) = [words |-> [i \in 1 .. n |-> PrngNext(after[i - 1])], gen |-> after[n]]
  BY DrawsAre
<1> DEFINE words == [i \in 1 .. n |-> PrngNext(after[i - 1])]
<1>2. words \in [1 .. n -> Words]
  BY AdvanceTyped
<1>3. words \in Seq(Words) /\ Len(words) = n
  <2> HIDE DEF words
  <2> QED
    BY <1>2
<1> QED
  BY <1>1, <1>3

-----------------------------------------------------------------------------
(* Samples. *)

\* A byte of a sample is one of a whole word, or of the last one's remainder.
LEMMA Place ==
  ASSUME NEW len \in Nat, NEW b \in 1 .. len
  PROVE  LET i == (b - 1) \div WORD
             k == (b - 1) % WORD
         IN /\ i \in Nat /\ k \in 0 .. WORD - 1 /\ b = i * WORD + k + 1
            /\ i + 1 \in 1 .. DataWords(len)
            /\ \/ i + 1 \in 1 .. len \div WORD
               \/ i + 1 = DataWords(len) /\ len % WORD # 0 /\ k \in 0 .. (len % WORD) - 1
<1> DEFINE i == (b - 1) \div WORD
           k == (b - 1) % WORD
           q == len \div WORD
           r == len % WORD
<1>1. q \in Nat /\ r \in 0 .. WORD - 1 /\ len = WORD * q + r
  BY Division, Sizes
<1>2. i \in Nat /\ k \in 0 .. WORD - 1 /\ b - 1 = WORD * i + k
  <2>1. b - 1 \in Nat
    OBVIOUS
  <2> QED
    BY <2>1, Division, Sizes
<1>3. DataWords(len) = q + (IF r = 0 THEN 0 ELSE 1)
  BY DEF DataWords
<1> HIDE DEF i, k, q, r
<1>4. WORD * i \in Nat /\ WORD * q \in Nat /\ i * WORD = WORD * i
  BY <1>1, <1>2, Sizes
<1>5. ~(i > q)
  <2> SUFFICES ASSUME i > q PROVE FALSE
    OBVIOUS
  <2>1. i - q - 1 \in Nat /\ (i - q - 1) * WORD >= 0
    BY <1>1, <1>2, Sizes
  <2>2. (i - q - 1) * WORD = WORD * i - WORD * q - WORD
    BY <1>1, <1>2, Sizes
  <2> QED
    BY <1>1, <1>2, <1>4, <2>1, <2>2, Sizes
<1>6. i = q => k < r
  BY <1>1, <1>2, <1>4, Sizes
<1>7. b = i * WORD + k + 1
  BY <1>2, <1>4, Sizes
<1>8. CASE i = q
  BY <1>1, <1>2, <1>3, <1>6, <1>7, <1>8, Sizes DEF q, r
<1>9. CASE i < q
  BY <1>1, <1>2, <1>3, <1>7, <1>9, Sizes DEF q, r
<1> QED
  BY <1>1, <1>2, <1>5, <1>8, <1>9 DEF i, k

\* And the other way about.
LEMMA PlaceOf ==
  ASSUME NEW len \in Nat, NEW i \in Nat, NEW k \in 0 .. WORD - 1,
         i < len \div WORD \/ (i = len \div WORD /\ k < len % WORD)
  PROVE  /\ i * WORD + k + 1 \in 1 .. len
         /\ ((i * WORD + k + 1) - 1) \div WORD = i
         /\ ((i * WORD + k + 1) - 1) % WORD = k
<1> DEFINE q == len \div WORD
           r == len % WORD
<1>1. q \in Nat /\ r \in 0 .. WORD - 1 /\ len = WORD * q + r
  BY Division, Sizes
<1>2. i < q \/ (i = q /\ k < r)
  OBVIOUS
<1> HIDE DEF q, r
<1>3. WORD * q \in Nat /\ i * WORD \in Nat
  BY <1>1, Sizes
<1>4. i * WORD + k + 1 <= len
  <2>1. CASE i < q
    <3>1. q - i - 1 \in Nat /\ (q - i - 1) * WORD >= 0
      BY <1>1, <2>1, Sizes
    <3>2. (q - i - 1) * WORD = WORD * q - i * WORD - WORD
      BY <1>1, Sizes
    <3> QED
      BY <1>1, <1>3, <3>1, <3>2, Sizes
  <2>2. CASE i = q /\ k < r
    <3>1. i * WORD = WORD * q
      BY <1>1, <2>2, Sizes
    <3> QED
      BY <1>1, <1>3, <2>2, <3>1, Sizes
  <2> QED
    BY <1>2, <2>1, <2>2
<1>5. (i * WORD + k + 1) - 1 = i * WORD + k
  BY <1>3, Sizes
<1>6. (i * WORD + k) \div WORD = i /\ (i * WORD + k) % WORD = k
  BY Divided, Sizes
<1> QED
  BY <1>3, <1>4, <1>5, <1>6, Sizes

\* The length and the words of what is generated from a generator.
SampleLen(gen) == LenCalc(PrngNext(gen))
SampleWords(gen) == Draws(PrngAdvance(gen), DataWords(SampleLen(gen))).words

LEMMA SampleIs ==
  ASSUME NEW gen \in Gens
  PROVE  /\ SampleLen(gen) \in Nat /\ SampleLen(gen) <= LEN_MAX
         /\ SampleWords(gen) \in Seq(Words)
         /\ Len(SampleWords(gen)) = DataWords(SampleLen(gen))
         /\ SampleInit(gen).sample =
              [b \in 1 .. SampleLen(gen) |->
                 ByteOf(SampleWords(gen)[(b - 1) \div WORD + 1], (b - 1) % WORD)]
         /\ SampleInit(gen).gen =
              Draws(PrngAdvance(gen), DataWords(SampleLen(gen))).gen
         /\ SampleInit(gen).gen \in Gens
<1>1. SampleLen(gen) \in Nat /\ SampleLen(gen) <= LEN_MAX
  BY AdvanceTyped, LenTyped, Halves DEF SampleLen
<1>2. DataWords(SampleLen(gen)) \in Nat /\ PrngAdvance(gen) \in Gens
  BY <1>1, WordsFit, AdvanceTyped
<1>3. /\ SampleWords(gen) \in Seq(Words)
      /\ Len(SampleWords(gen)) = DataWords(SampleLen(gen))
      /\ Draws(PrngAdvance(gen), DataWords(SampleLen(gen))).gen \in Gens
  BY <1>2, DrawsTyped DEF SampleWords
<1>4. SampleInit(gen) =
        [sample |-> [b \in 1 .. SampleLen(gen) |->
                       ByteOf(SampleWords(gen)[(b - 1) \div WORD + 1], (b - 1) % WORD)],
         gen |-> Draws(PrngAdvance(gen), DataWords(SampleLen(gen))).gen]
  BY DEF SampleInit, SampleLen, SampleWords
<1> QED
  BY <1>1, <1>3, <1>4

LEMMA SampleTyped ==
  ASSUME NEW gen \in Gens
  PROVE  /\ SampleInit(gen).sample \in Seq(Bytes)
         /\ Len(SampleInit(gen).sample) = SampleLen(gen)
<1> DEFINE len == SampleLen(gen)
           words == SampleWords(gen)
           made == [b \in 1 .. len |-> ByteOf(words[(b - 1) \div WORD + 1], (b - 1) % WORD)]
<1>1. len \in Nat /\ words \in Seq(Words) /\ Len(words) = DataWords(len)
      /\ SampleInit(gen).sample = made
  BY SampleIs
<1> HIDE DEF len, words
<1>2. ASSUME NEW b \in 1 .. len
      PROVE  ByteOf(words[(b - 1) \div WORD + 1], (b - 1) % WORD) \in Bytes
  <2> DEFINE i == (b - 1) \div WORD
             k == (b - 1) % WORD
  <2>1. i + 1 \in 1 .. DataWords(len) /\ k \in 0 .. WORD - 1
    BY <1>1, Place
  <2> HIDE DEF i, k
  <2>2. words[i + 1] \in Words
    BY <1>1, <2>1
  <2>3. ByteOf(words[i + 1], k) \in Bytes
    BY <2>1, <2>2, ByteTyped, Sizes
  <2> QED
    BY <2>3 DEF i, k
<1>3. made \in [1 .. len -> Bytes]
  BY <1>2
<1> HIDE DEF made
<1>4. made \in Seq(Bytes) /\ Len(made) = len
  BY <1>1, <1>3
<1> QED
  BY <1>1, <1>4 DEF len

\* sample_valid accepts, to the last byte, what sample_init generates from the same
\* generator and nothing else: a file that was cut, grown or changed anywhere, or
\* that holds another object, is refused, and one that was not is not.
THEOREM ValidExactly ==
  ASSUME NEW sample \in Seq(Bytes), NEW gen \in Gens
  PROVE  SampleValid(sample, gen) <=> sample = SampleInit(gen).sample
<1> DEFINE len == SampleLen(gen)
           words == SampleWords(gen)
           made == SampleInit(gen).sample
           Byte(b) == ByteOf(words[(b - 1) \div WORD + 1], (b - 1) % WORD)
<1>1. len \in Nat /\ words \in Seq(Words) /\ Len(words) = DataWords(len)
      /\ made = [b \in 1 .. len |-> Byte(b)]
  BY SampleIs
<1>2. SampleValid(sample, gen) <=>
        /\ Len(sample) = len
        /\ \A i \in 1 .. len \div WORD : WordMatches(sample, i, words[i], WORD)
        /\ RemainMatches(sample, words)
  BY DEF SampleValid, SampleLen, SampleWords
<1>3. made \in Seq(Bytes) /\ Len(made) = len
  BY SampleTyped
<1> HIDE DEF len, words, made
<1>4. len \div WORD \in Nat /\ len % WORD \in 0 .. WORD - 1
  BY <1>1, Division, Sizes
<1>5. ASSUME SampleValid(sample, gen)
      PROVE  sample = made
  <2>1. ASSUME NEW b \in 1 .. len
        PROVE  sample[b] = Byte(b)
    <3> DEFINE i == (b - 1) \div WORD
               k == (b - 1) % WORD
    <3>1. /\ i \in Nat /\ k \in 0 .. WORD - 1 /\ b = i * WORD + k + 1
          /\ \/ i + 1 \in 1 .. len \div WORD
             \/ i + 1 = DataWords(len) /\ len % WORD # 0 /\ k \in 0 .. (len % WORD) - 1
      BY <1>1, Place
    <3>2. Byte(b) = ByteOf(words[i + 1], k)
      OBVIOUS
    <3> HIDE DEF i, k, Byte
    <3>3. (i + 1) - 1 = i
      BY <3>1
    <3>4. CASE i + 1 \in 1 .. len \div WORD
      <4>1. sample[((i + 1) - 1) * WORD + k + 1] = ByteOf(words[i + 1], k)
        BY <1>2, <1>5, <3>1, <3>4 DEF WordMatches
      <4> QED
        BY <3>1, <3>2, <3>3, <4>1
    <3>5. CASE i + 1 = DataWords(len) /\ len % WORD # 0 /\ k \in 0 .. (len % WORD) - 1
      <4>1. Len(sample) = len /\ Len(words) = i + 1
        BY <1>1, <1>2, <1>5, <3>5
      <4>2. WordMatches(sample, i + 1, words[i + 1], len % WORD)
        BY <1>2, <1>5, <3>5, <4>1 DEF RemainMatches
      <4>3. sample[((i + 1) - 1) * WORD + k + 1] = ByteOf(words[i + 1], k)
        BY <3>5, <4>2 DEF WordMatches
      <4> QED
        BY <3>1, <3>2, <3>3, <4>3
    <3> QED
      BY <3>1, <3>4, <3>5
  <2>2. sample = [b \in 1 .. len |-> sample[b]]
    BY <1>2, <1>5
  <2> QED
    BY <1>1, <2>1, <2>2
<1>6. ASSUME NEW i \in Nat, NEW k \in 0 .. WORD - 1,
             i < len \div WORD \/ (i = len \div WORD /\ k < len % WORD)
      PROVE  made[((i + 1) - 1) * WORD + k + 1] = ByteOf(words[i + 1], k)
  <2> DEFINE b == i * WORD + k + 1
  <2>1. b \in 1 .. len /\ (b - 1) \div WORD = i /\ (b - 1) % WORD = k
    BY <1>1, <1>6, PlaceOf
  <2>2. ((i + 1) - 1) * WORD + k + 1 = b
    <3>1. (i + 1) - 1 = i
      OBVIOUS
    <3> QED
      BY <3>1
  <2> HIDE DEF b
  <2>3. made[b] = ByteOf(words[i + 1], k)
    BY <1>1, <2>1
  <2> QED
    BY <2>2, <2>3
<1>7. \A i \in 1 .. len \div WORD : WordMatches(made, i, words[i], WORD)
  <2> SUFFICES ASSUME NEW i \in 1 .. len \div WORD, NEW k \in 0 .. WORD - 1
               PROVE  made[(i - 1) * WORD + k + 1] = ByteOf(words[i], k)
    BY DEF WordMatches
  <2>1. i - 1 \in Nat /\ i - 1 < len \div WORD /\ (i - 1) + 1 = i
    BY <1>4
  <2>2. made[(((i - 1) + 1) - 1) * WORD + k + 1] = ByteOf(words[(i - 1) + 1], k)
    BY <1>6, <2>1
  <2> QED
    BY <2>1, <2>2
<1>8. RemainMatches(made, words)
  <2> SUFFICES ASSUME len % WORD # 0, NEW k \in 0 .. (len % WORD) - 1
               PROVE  made[(Len(words) - 1) * WORD + k + 1] = ByteOf(words[Len(words)], k)
    BY <1>3 DEF RemainMatches, WordMatches
  <2> DEFINE i == len \div WORD
  <2>1. Len(words) = i + 1
    BY <1>1 DEF DataWords
  <2>2. i \in Nat /\ k \in 0 .. WORD - 1 /\ k < len % WORD
    BY <1>4, Sizes
  <2>3. made[((i + 1) - 1) * WORD + k + 1] = ByteOf(words[i + 1], k)
    BY <1>6, <2>2
  <2> QED
    BY <2>1, <2>3
<1>9. SampleValid(made, gen)
  <2>1. SampleValid(made, gen) <=>
          /\ Len(made) = len
          /\ \A i \in 1 .. len \div WORD : WordMatches(made, i, words[i], WORD)
          /\ RemainMatches(made, words)
    BY DEF SampleValid, SampleLen, SampleWords, len, words
  <2> QED
    BY <1>3, <1>7, <1>8, <2>1
<1> QED
  BY <1>5, <1>9 DEF made

-----------------------------------------------------------------------------
(* Types, with either generator. *)

Names(s) == {s[i] : i \in 1 .. Len(s)}

\* What the task has, whole and not only where TypeOK looks.
Typed ==
  /\ seed \in Words
  /\ phase \in {"write", "read"}
  /\ index \in Nat
  /\ P \in Gens
  /\ S \in Seq(Bytes) /\ Len(S) <= LEN_MAX
  /\ obj_id \in Seq(Words)
  /\ store \in [Names(obj_id) -> Seq(Bytes)]
  /\ accepted \in BOOLEAN
  /\ written \in Seq(Seq(Bytes)) /\ Len(written) = Len(obj_id)
  /\ alterations \in Nat

\* The write loop counts the objects it has named, and has named them all when
\* the read loop begins.
Counted ==
  /\ phase = "write" => index = Len(obj_id) /\ index <= WriteCount
  /\ phase = "read" => Len(obj_id) = WriteCount

LEMMA NamesAppended ==
  ASSUME NEW T, NEW s \in Seq(T), NEW e \in T
  PROVE  Names(Append(s, e)) = Names(s) \cup {e}
<1> DEFINE t == Append(s, e)
<1>1. Len(s) \in Nat /\ Len(t) = Len(s) + 1 /\ t[Len(s) + 1] = e
      /\ \A i \in 1 .. Len(s) : t[i] = s[i]
  BY AppendProperties, LenProperties
<1> HIDE DEF t
<1>2. 1 .. Len(t) = (1 .. Len(s)) \cup {Len(s) + 1}
  BY <1>1
<1>3. {t[i] : i \in 1 .. Len(t)} = {s[i] : i \in 1 .. Len(s)} \cup {e}
  BY <1>1, <1>2
<1> QED
  BY <1>3 DEF t, Names

\* What a file can turn into is a file again.
LEMMA AlteredTyped ==
  ASSUME NEW bytes \in Seq(Bytes), written \in Seq(Seq(Bytes))
  PROVE  Altered(bytes) \subseteq Seq(Bytes)
<1>1. BYTE \in Nat /\ BYTE > 0 /\ Bytes = 0 .. BYTE - 1
  BY Sizes DEF Bytes
<1>2. ASSUME NEW b \in DOMAIN bytes
      PROVE  [bytes EXCEPT ![b] = (@ + 1) % BYTE] \in Seq(Bytes)
  <2>1. b \in 1 .. Len(bytes) /\ bytes[b] \in Bytes
    BY LenProperties
  <2>2. bytes[b] + 1 \in Int
    BY <1>1, <2>1
  <2>3. (bytes[b] + 1) % BYTE \in Bytes
    BY <1>1, <2>2
  <2> QED
    BY <2>1, <2>3, ExceptSeq
<1>3. SubSeq(bytes, 1, Len(bytes) - 1) \in Seq(Bytes)
  <2>1. Len(bytes) \in Nat /\ \A i \in 1 .. Len(bytes) : bytes[i] \in Bytes
    BY LenProperties
  <2>2. 1 \in Int /\ Len(bytes) - 1 \in Int
        /\ \A i \in 1 .. Len(bytes) - 1 : bytes[i] \in Bytes
    BY <2>1
  <2> QED
    BY <2>2, SubSeqProperties
<1>4. Append(bytes, 0) \in Seq(Bytes)
  BY <1>1, AppendProperties
<1>5. ToSet(written) \subseteq Seq(Bytes)
  BY LenProperties DEF ToSet
<1> QED
  BY <1>2, <1>3, <1>4, <1>5 DEF Altered

LEMMA ObjIdxTyped ==
  ASSUME NEW i \in Nat
  PROVE  ObjIdx(i) \in 1 .. WriteCount
  BY Sizes DEF ObjIdx

LEMMA InitTyped == Init => Typed /\ Counted
<1> SUFFICES ASSUME Init PROVE Typed /\ Counted
  OBVIOUS
<1>1. PrngInit(seed) \in Gens
  BY SeedTyped DEF Init
<1>2. P \in Gens /\ S \in Seq(Bytes) /\ Len(S) <= LEN_MAX
  BY <1>1, SampleIs, SampleTyped DEF Init
<1>3. obj_id = <<>> /\ written = <<>> /\ store = [id \in {} |-> <<>>]
  BY DEF Init
<1>4. Names(obj_id) = {}
  BY <1>3, EmptySeq DEF Names
<1>5. store \in [Names(obj_id) -> Seq(Bytes)]
  BY <1>3, <1>4
<1>6. obj_id \in Seq(Words) /\ written \in Seq(Seq(Bytes)) /\ Len(obj_id) = 0
      /\ Len(written) = 0
  BY <1>3, EmptySeq
<1> QED
  BY <1>2, <1>5, <1>6, Sizes DEF Init, Typed, Counted

LEMMA NextTyped == Typed /\ Counted /\ [Next]_vars => Typed' /\ Counted'
<1> SUFFICES ASSUME Typed, Counted, [Next]_vars PROVE Typed' /\ Counted'
  OBVIOUS
<1>1. CASE Write
  <2> DEFINE id == PrngPeek(P)
             made == SampleInit(P)
  <2>1. id \in Words /\ made.gen \in Gens /\ made.sample \in Seq(Bytes)
        /\ Len(made.sample) <= LEN_MAX
    BY AdvanceTyped, SampleIs, SampleTyped DEF Typed
  <2>2. /\ phase = "write" /\ index < WriteCount
        /\ obj_id' = Append(obj_id, id) /\ S' = made.sample /\ P' = made.gen
        /\ StorageWrite(id, made.sample)
        /\ written' = Append(written, made.sample)
        /\ index' = index + 1
        /\ UNCHANGED <<seed, phase, accepted, alterations>>
    BY <1>1 DEF Write
  <2> HIDE DEF id, made
  <2>3. /\ obj_id' \in Seq(Words) /\ Len(obj_id') = Len(obj_id) + 1
        /\ written' \in Seq(Seq(Bytes)) /\ Len(written') = Len(written) + 1
    BY <2>1, <2>2, AppendProperties DEF Typed
  <2>4. Names(obj_id') = Names(obj_id) \cup {id}
    BY <2>1, <2>2, NamesAppended DEF Typed
  <2>5. store \in [Names(obj_id) -> Seq(Bytes)]
    BY DEF Typed
  <2> DEFINE names == Names(obj_id)
  <2> HIDE DEF names
  <2>6. store' \in [names \cup {id} -> Seq(Bytes)]
    <3>1. store \in [names -> Seq(Bytes)]
      BY <2>5 DEF names
    <3>2. CASE id \in DOMAIN store
      BY <2>2, <3>2, <3>1 DEF StorageWrite
    <3>3. CASE id \notin DOMAIN store
      <4>1. store' = [n \in names \cup {id} |-> IF n = id THEN made.sample ELSE store[n]]
        BY <2>2, <3>3, <3>1 DEF StorageWrite
      <4>2. \A n \in names : store[n] \in Seq(Bytes)
        BY <3>1
      <4> QED
        BY <2>1, <4>1, <4>2
    <3> QED
      BY <3>2, <3>3
  <2>7. store' \in [Names(obj_id') -> Seq(Bytes)]
    BY <2>4, <2>6 DEF names
  <2>8. index' \in Nat /\ index' = Len(obj_id') /\ index' <= WriteCount
    <3>1. index \in Nat /\ index = Len(obj_id)
      BY <2>2 DEF Typed, Counted
    <3> QED
      BY <2>2, <2>3, <3>1, Sizes
  <2>9. Len(written') = Len(obj_id')
    BY <2>3 DEF Typed
  <2>10. Typed'
    BY <2>1, <2>2, <2>3, <2>7, <2>8, <2>9 DEF Typed
  <2>11. Counted'
    BY <2>2, <2>8 DEF Counted
  <2> QED
    BY <2>10, <2>11
<1>2. CASE WritesDone
  <2>1. PrngInit(seed) \in Gens
    BY SeedTyped DEF Typed
  <2> QED
    BY <1>2, <2>1, Sizes DEF WritesDone, Typed, Counted
<1>3. CASE Read
  <2> DEFINE id == obj_id[ObjIdx(index)]
  <2>1. id \in Words /\ id \in Names(obj_id)
    <3>1. ObjIdx(index) \in 1 .. Len(obj_id)
      BY <1>3, ObjIdxTyped DEF Read, Typed, Counted
    <3> QED
      BY <3>1 DEF Typed, Names
  <2>2. PrngInit(id) \in Gens /\ store[id] \in Seq(Bytes)
    BY <2>1, SeedTyped DEF Typed
  <2>3. accepted' \in BOOLEAN
    BY <1>3 DEF Read, SampleValid
  <2>4. /\ phase = "read" /\ Len(store[id]) <= LEN_MAX
        /\ P' = PrngInit(id) /\ S' = store[id] /\ index' = index + 1
        /\ UNCHANGED <<seed, phase, obj_id, store, written, alterations>>
    BY <1>3 DEF Read
  <2> HIDE DEF id
  <2> QED
    BY <2>2, <2>3, <2>4 DEF Typed, Counted
<1>4. CASE Alter
  <2>1. PICK id \in DOMAIN store : \E bytes \in Altered(store[id]) :
          store' = [store EXCEPT ![id] = bytes]
    BY <1>4 DEF Alter
  <2>2. PICK bytes \in Altered(store[id]) : store' = [store EXCEPT ![id] = bytes]
    BY <2>1
  <2>3. bytes \in Seq(Bytes)
    BY <2>1, <2>2, AlteredTyped DEF Typed
  <2>4. store' \in [Names(obj_id) -> Seq(Bytes)]
    BY <2>1, <2>2, <2>3 DEF Typed
  <2>5. UNCHANGED <<seed, phase, index, P, S, obj_id, accepted, written>>
        /\ alterations' = alterations + 1
    BY <1>4 DEF Alter
  <2> QED
    BY <2>4, <2>5 DEF Typed, Counted
<1>5. CASE UNCHANGED vars
  BY <1>5 DEF vars, Typed, Counted
<1> QED
  BY <1>1, <1>2, <1>3, <1>4, <1>5 DEF Next

LEMMA AlwaysTyped == Spec => [](Typed /\ Counted)
<1>1. Init => Typed /\ Counted
  BY InitTyped
<1>2. Typed /\ Counted /\ [Next]_vars => (Typed /\ Counted)'
  BY NextTyped
<1> QED
  BY <1>1, <1>2, PTL DEF Spec

\* With either generator every variable keeps its type, and what sample_init and
\* sample_read put in the task's sample fits the buffer that was allocated once.
THEOREM TypeCorrect == Spec => []TypeOK
<1>1. Typed => TypeOK
  <2> SUFFICES ASSUME Typed PROVE TypeOK
    OBVIOUS
  <2>1. Len(S) \in Nat /\ \A b \in DOMAIN S : S[b] \in Bytes
    BY LenProperties DEF Typed
  <2>2. DataWords(Len(S)) * WORD <= LEN_MAX
    BY <2>1, WordsFit DEF Typed
  <2>3. \A i \in DOMAIN obj_id : obj_id[i] \in Words
    BY LenProperties DEF Typed
  <2>4. DOMAIN store \subseteq Words
    BY LenProperties DEF Typed, Names
  <2> QED
    BY <2>1, <2>2, <2>3, <2>4 DEF Typed, TypeOK
<1> QED
  BY <1>1, AlwaysTyped, PTL

-----------------------------------------------------------------------------
(* What is promised of the counter. *)

\* Every object written is what the generator seeded with its name generates.
Generated ==
  \A i \in 1 .. Len(obj_id) : written[i] = SampleInit(PrngInit(obj_id[i])).sample

\* The most words an object takes from the generator: its length, and its data.
MostDraws == 1 + LEN_MAX \div WORD

\* The word b comes after a by the draws of k objects.
Apart(a, b, k) == \E d \in k .. k * MostDraws : b = Wrap(a + d)

\* Each object takes at least one word and at most MostDraws, so that names lie
\* apart by the objects between them.
Spaced ==
  \A j \in 1 .. Len(obj_id) : \A i \in 1 .. j - 1 : Apart(obj_id[i], obj_id[j], j - i)

\* And so does the name of the object that is to be written next.
NextSpaced ==
  phase = "write" =>
    \A i \in 1 .. Len(obj_id) : Apart(obj_id[i], P.seq, Len(obj_id) + 1 - i)

\* Until somebody changes a file, each holds the object of its name.
Kept ==
  alterations = 0 => \A i \in 1 .. Len(obj_id) : store[obj_id[i]] = written[i]

\* Draws count up.
LEMMA DrawsCount ==
  ASSUME PRNG = "DEBUG", NEW P0 \in Gens, NEW n \in Nat
  PROVE  Draws(P0, n).gen = [seq |-> Wrap(P0.seq + n)]
<1>1. PICK after \in [Nat -> Gens] :
        /\ after[0] = P0
        /\ \A i \in Nat : after[i + 1] = PrngAdvance(after[i])
        /\ \A k \in Nat :
             Draws(P0, k) = [words |-> [i \in 1 .. k |-> PrngNext(after[i - 1])],
                             gen |-> after[k]]
  BY DrawsAre
<1>2. P0 \in [seq : Words] /\ P0.seq \in Words /\ P0.seq \in Int
  BY Sizes DEF Gens, Words
<1> DEFINE T == {i \in Nat : after[i] = [seq |-> Wrap(P0.seq + i)]}
<1>3. 0 \in T
  <2>1. Wrap(P0.seq + 0) = P0.seq
    BY <1>2, Sizes DEF Wrap, Words
  <2>2. P0 = [seq |-> P0.seq]
    BY <1>2
  <2> QED
    BY <1>1, <2>1, <2>2
<1>4. ASSUME NEW i \in Nat, i \in T PROVE i + 1 \in T
  <2>1. after[i + 1] = [seq |-> Wrap(Wrap(P0.seq + i) + 1)]
    BY <1>1, <1>4 DEF PrngAdvance, DebugAdvance
  <2>2. Wrap(Wrap(P0.seq + i) + 1) = Wrap((P0.seq + i) + 1)
    <3>1. P0.seq + i \in Int /\ 1 \in Int
      BY <1>2
    <3> QED
      BY <3>1, WrapPlus
  <2>3. (P0.seq + i) + 1 = P0.seq + (i + 1)
    BY <1>2
  <2> QED
    BY <2>1, <2>2, <2>3
<1>5. Nat \subseteq T
  <2> HIDE DEF T
  <2> QED
    BY <1>3, <1>4, Induction
<1>6. Draws(P0, n).gen = after[n]
  BY <1>1
<1> QED
  BY <1>5, <1>6

\* An object moves the counter on.
LEMMA SampleCounts ==
  ASSUME PRNG = "DEBUG", NEW P0 \in Gens
  PROVE  /\ MostDraws \in Nat /\ MostDraws > 0
         /\ Apart(P0.seq, SampleInit(P0).gen.seq, 1)
<1> DEFINE n == DataWords(SampleLen(P0))
           m == LEN_MAX \div WORD
<1>1. n \in Nat /\ n <= m
  BY SampleIs, WordsFit
<1>2. m \in Nat
  BY Division, Sizes
<1>3. SampleInit(P0).gen = Draws(PrngAdvance(P0), n).gen
  BY SampleIs
<1> HIDE DEF n
<1>4. PrngAdvance(P0) \in Gens /\ PrngAdvance(P0) = [seq |-> Wrap(P0.seq + 1)]
  BY AdvanceTyped DEF PrngAdvance, DebugAdvance
<1>5. SampleInit(P0).gen.seq = Wrap(Wrap(P0.seq + 1) + n)
  <2> DEFINE g == PrngAdvance(P0)
  <2>1. g \in Gens /\ g.seq = Wrap(P0.seq + 1) /\ SampleInit(P0).gen = Draws(g, n).gen
    BY <1>3, <1>4
  <2> HIDE DEF g
  <2>2. Draws(g, n).gen = [seq |-> Wrap(g.seq + n)]
    BY <1>1, <2>1, DrawsCount
  <2> QED
    BY <2>1, <2>2
<1>6. P0.seq \in Int
  BY Sizes DEF Gens, Words
<1>7. Wrap(Wrap(P0.seq + 1) + n) = Wrap((P0.seq + 1) + n)
  <2>1. P0.seq + 1 \in Int /\ n \in Int
    BY <1>1, <1>6
  <2> QED
    BY <2>1, WrapPlus
<1>8. (P0.seq + 1) + n = P0.seq + (1 + n)
  BY <1>1, <1>6
<1>9. MostDraws = 1 + m
  BY DEF MostDraws
<1> HIDE DEF m
<1>10. MostDraws \in Nat /\ MostDraws > 0 /\ 1 + n \in 1 .. MostDraws
  BY <1>1, <1>2, <1>9
<1>11. 1 + n \in 1 .. 1 * MostDraws
  BY <1>1, <1>10
<1> QED
  BY <1>5, <1>7, <1>8, <1>10, <1>11 DEF Apart

\* The counter is seeded with the number it shows.
LEMMA Reseeded ==
  ASSUME PRNG = "DEBUG", NEW P0 \in Gens
  PROVE  PrngInit(PrngPeek(P0)) = P0 /\ PrngPeek(P0) = P0.seq
  BY DEF PrngInit, DebugInit, PrngPeek, DebugPeek, Gens

LEMMA NextGenerated ==
  ASSUME PRNG = "DEBUG", Typed, Counted, Generated, [Next]_vars
  PROVE  Generated'
<1>1. CASE Write
  <2> DEFINE id == PrngPeek(P)
             made == SampleInit(P).sample
  <2>1. id \in Words /\ made \in Seq(Bytes) /\ made = SampleInit(PrngInit(id)).sample
    BY AdvanceTyped, SampleTyped, Reseeded DEF Typed
  <2>2. obj_id' = Append(obj_id, id) /\ written' = Append(written, made)
    BY <1>1 DEF Write
  <2> HIDE DEF id, made
  <2>3. /\ Len(obj_id) \in Nat /\ Len(obj_id') = Len(obj_id) + 1
        /\ obj_id'[Len(obj_id) + 1] = id /\ written'[Len(obj_id) + 1] = made
        /\ \A i \in 1 .. Len(obj_id) : obj_id'[i] = obj_id[i] /\ written'[i] = written[i]
    BY <2>1, <2>2, AppendProperties, LenProperties DEF Typed
  <2>4. ASSUME NEW i \in 1 .. Len(obj_id')
        PROVE  written'[i] = SampleInit(PrngInit(obj_id'[i])).sample
    <3>1. CASE i = Len(obj_id) + 1
      BY <2>1, <2>3, <3>1
    <3>2. CASE i \in 1 .. Len(obj_id)
      BY <2>3, <3>2 DEF Generated
    <3> QED
      BY <2>3, <3>1, <3>2
  <2> QED
    BY <2>4 DEF Generated
<1>2. CASE WritesDone
  BY <1>2 DEF WritesDone, Generated
<1>3. CASE Read
  BY <1>3 DEF Read, Generated
<1>4. CASE Alter
  BY <1>4 DEF Alter, Generated
<1>5. CASE UNCHANGED vars
  BY <1>5 DEF vars, Generated
<1> QED
  BY <1>1, <1>2, <1>3, <1>4, <1>5 DEF Next

LEMMA NextJudged ==
  ASSUME PRNG = "DEBUG", Typed, Counted, Generated, ReadJudgedRight, [Next]_vars
  PROVE  ReadJudgedRight'
<1>1. CASE Write
  BY <1>1 DEF Write, ReadJudgedRight
<1>2. CASE WritesDone
  BY <1>2 DEF WritesDone, ReadJudgedRight
<1>3. CASE Read
  <2> DEFINE k == ObjIdx(index)
             id == obj_id[k]
             made == SampleInit(PrngInit(id)).sample
  <2>1. k \in 1 .. Len(obj_id) /\ id \in Words
        /\ id \in Names(obj_id)
    <3>1. k \in 1 .. Len(obj_id)
      BY <1>3, ObjIdxTyped DEF Read, Typed, Counted
    <3> QED
      BY <3>1 DEF Typed, Names
  <2>2. PrngInit(id) \in Gens /\ store[id] \in Seq(Bytes)
    BY <2>1, SeedTyped DEF Typed
  <2>3. SampleValid(store[id], PrngInit(id)) <=> store[id] = made
    BY <2>2, ValidExactly
  <2>4. written[k] = made
    BY <2>1 DEF Generated
  <2>5. /\ accepted' = SampleValid(store[id], PrngInit(id)) /\ S' = store[id]
        /\ written' = written /\ index' = index + 1
    BY <1>3 DEF Read
  <2>6. ObjIdx(index' - 1) = k
    BY <2>5 DEF Typed
  <2> HIDE DEF k, id, made
  <2>7. accepted' <=> S' = written'[ObjIdx(index' - 1)]
    BY <2>3, <2>4, <2>5, <2>6
  <2> QED
    BY <2>7 DEF ReadJudgedRight, ObjIdx
<1>4. CASE Alter
  BY <1>4 DEF Alter, ReadJudgedRight, ObjIdx
<1>5. CASE UNCHANGED vars
  BY <1>5 DEF vars, ReadJudgedRight, ObjIdx
<1> QED
  BY <1>1, <1>2, <1>3, <1>4, <1>5 DEF Next

\* What is read back is accepted exactly when it is, to the last byte, the object
\* that was written under that name: for words and samples of any size, any seed,
\* any number of objects, reads and changes of files, and though the counter may
\* have come round and used a name again.
THEOREM JudgedRight ==
  ASSUME PRNG = "DEBUG"
  PROVE  Spec => []ReadJudgedRight
<1> DEFINE Inv == Typed /\ Counted /\ Generated /\ ReadJudgedRight
<1>1. Init => Inv
  <2> SUFFICES ASSUME Init PROVE Inv
    OBVIOUS
  <2>1. Len(obj_id) = 0 /\ phase = "write"
    BY EmptySeq DEF Init
  <2> QED
    BY <2>1, InitTyped DEF Generated, ReadJudgedRight
<1>2. Inv /\ [Next]_vars => Inv'
  BY NextTyped, NextGenerated, NextJudged
<1> QED
  BY <1>1, <1>2, PTL DEF Spec

\* The names of fewer objects than there are words for are different.
FewEnough == (WriteCount - 1) * MostDraws < WordCount

LEMMA ApartDiffers ==
  ASSUME PRNG = "DEBUG", FewEnough, MostDraws \in Nat, MostDraws > 0,
         NEW a \in Words, NEW b, NEW k \in 1 .. WriteCount - 1, Apart(a, b, k)
  PROVE  b # a
<1>1. PICK d \in k .. k * MostDraws : b = Wrap(a + d)
  BY DEF Apart
<1>2. WriteCount - 1 - k \in Nat /\ (WriteCount - 1 - k) * MostDraws >= 0
  BY Sizes
<1>3. (WriteCount - 1 - k) * MostDraws = (WriteCount - 1) * MostDraws - k * MostDraws
  BY Sizes
<1>4. k * MostDraws \in Int /\ (WriteCount - 1) * MostDraws \in Int
  BY Sizes
<1>5. d \in Int /\ d > 0 /\ d < WordCount
  BY <1>1, <1>2, <1>3, <1>4, Sizes DEF FewEnough
<1> QED
  BY <1>1, <1>5, WrapDiffers

LEMMA ApartNext ==
  ASSUME MostDraws \in Nat, NEW a \in Words, NEW b, NEW c, NEW k \in Nat,
         Apart(a, b, k), Apart(b, c, 1)
  PROVE  Apart(a, c, k + 1)
<1>1. PICK d \in k .. k * MostDraws : b = Wrap(a + d)
  BY DEF Apart
<1>2. PICK e \in 1 .. 1 * MostDraws : c = Wrap(b + e)
  BY DEF Apart
<1>3. a \in Int /\ d \in Int /\ e \in Int
  BY <1>1, <1>2, Sizes DEF Words
<1>4. c = Wrap(a + (d + e))
  <2>1. Wrap(Wrap(a + d) + e) = Wrap((a + d) + e)
    <3>1. a + d \in Int
      BY <1>3
    <3> QED
      BY <1>3, <3>1, WrapPlus
  <2>2. (a + d) + e = a + (d + e)
    BY <1>3
  <2> QED
    BY <1>1, <1>2, <2>1, <2>2
<1>5. d + e \in k + 1 .. (k + 1) * MostDraws
  <2>1. (k + 1) * MostDraws = k * MostDraws + MostDraws /\ k * MostDraws \in Int
    OBVIOUS
  <2>2. d >= k /\ d <= k * MostDraws /\ e >= 1 /\ e <= MostDraws
    BY <1>1, <1>2
  <2> QED
    BY <1>3, <2>1, <2>2
<1> QED
  BY <1>4, <1>5 DEF Apart

\* What a round of the write loop does to the names.
LEMMA WriteNames ==
  ASSUME PRNG = "DEBUG", Typed, Counted, Write
  PROVE  /\ Len(obj_id) \in Nat /\ Len(obj_id) < WriteCount
         /\ Len(obj_id') = Len(obj_id) + 1
         /\ P.seq \in Words /\ obj_id'[Len(obj_id) + 1] = P.seq
         /\ written'[Len(obj_id) + 1] = SampleInit(P).sample
         /\ \A i \in 1 .. Len(obj_id) :
              /\ obj_id[i] \in Words /\ obj_id'[i] = obj_id[i]
              /\ written'[i] = written[i]
         /\ Apart(P.seq, P'.seq, 1) /\ MostDraws \in Nat /\ MostDraws > 0
<1> DEFINE made == SampleInit(P).sample
           id == PrngPeek(P)
<1>1. id = P.seq /\ id \in Words /\ made \in Seq(Bytes)
  BY Reseeded, AdvanceTyped, SampleTyped DEF Typed
<1>2. obj_id' = Append(obj_id, id) /\ written' = Append(written, made)
      /\ P' = SampleInit(P).gen
      /\ phase = "write" /\ index < WriteCount
  BY DEF Write
<1>3. Apart(P.seq, P'.seq, 1) /\ MostDraws \in Nat /\ MostDraws > 0
  BY <1>2, SampleCounts DEF Typed
<1> HIDE DEF made, id
<1>4. Len(obj_id) \in Nat /\ Len(obj_id) < WriteCount
  BY <1>2, LenProperties DEF Typed, Counted
<1>5. /\ Len(obj_id') = Len(obj_id) + 1
      /\ obj_id'[Len(obj_id) + 1] = id /\ written'[Len(obj_id) + 1] = made
      /\ \A i \in 1 .. Len(obj_id) :
           /\ obj_id[i] \in Words /\ obj_id'[i] = obj_id[i]
           /\ written'[i] = written[i]
  BY <1>1, <1>2, AppendProperties, LenProperties DEF Typed
<1> QED
  BY <1>1, <1>3, <1>4, <1>5 DEF made

LEMMA NextNames ==
  ASSUME PRNG = "DEBUG", Typed, Counted, Spaced, NextSpaced, [Next]_vars
  PROVE  Spaced' /\ NextSpaced'
<1>1. CASE Write
  <2> DEFINE n == Len(obj_id)
  <2>1. /\ n \in Nat /\ Len(obj_id') = n + 1 /\ obj_id'[n + 1] = P.seq
        /\ \A i \in 1 .. n : obj_id[i] \in Words /\ obj_id'[i] = obj_id[i]
        /\ Apart(P.seq, P'.seq, 1) /\ MostDraws \in Nat
    BY <1>1, WriteNames
  <2>2. \A i \in 1 .. n : Apart(obj_id[i], P.seq, n + 1 - i)
    BY <1>1 DEF Write, NextSpaced
  <2>3. \A j \in 1 .. n : \A i \in 1 .. j - 1 : Apart(obj_id[i], obj_id[j], j - i)
    BY DEF Spaced
  <2> HIDE DEF n
  <2>4. ASSUME NEW j \in 1 .. n + 1, NEW i \in 1 .. j - 1
        PROVE  Apart(obj_id'[i], obj_id'[j], j - i)
    <3>1. CASE j = n + 1
      BY <2>1, <2>2, <3>1
    <3>2. CASE j # n + 1
      <4>1. j \in 1 .. n /\ i \in 1 .. n
        BY <2>1, <3>2
      <4> QED
        BY <2>1, <2>3, <4>1
    <3> QED
      BY <3>1, <3>2
  <2>5. ASSUME NEW i \in 1 .. n + 1
        PROVE  Apart(obj_id'[i], P'.seq, (n + 1) + 1 - i)
    <3>1. CASE i = n + 1
      <4>1. (n + 1) + 1 - i = 1
        BY <2>1, <3>1
      <4> QED
        BY <2>1, <3>1, <4>1
    <3>2. CASE i # n + 1
      <4>1. i \in 1 .. n /\ n + 1 - i \in Nat /\ (n + 1) + 1 - i = (n + 1 - i) + 1
        BY <2>1, <3>2
      <4>2. Apart(obj_id[i], P'.seq, (n + 1 - i) + 1)
        BY <2>1, <2>2, <4>1, ApartNext
      <4> QED
        BY <2>1, <4>1, <4>2
    <3> QED
      BY <3>1, <3>2
  <2>6. Spaced'
    BY <2>1, <2>4 DEF Spaced, Apart
  <2>7. NextSpaced'
    BY <2>1, <2>5 DEF NextSpaced, Apart
  <2> QED
    BY <2>6, <2>7
<1>2. CASE WritesDone
  BY <1>2 DEF WritesDone, Spaced, NextSpaced
<1>3. CASE Read
  BY <1>3 DEF Read, Spaced, NextSpaced
<1>4. CASE Alter
  BY <1>4 DEF Alter, Spaced, NextSpaced
<1>5. CASE UNCHANGED vars
  BY <1>5 DEF vars, Spaced, NextSpaced
<1> QED
  BY <1>1, <1>2, <1>3, <1>4, <1>5 DEF Next

\* A new name has no file, so that the object gets one, and the others keep theirs.
LEMMA NextKept ==
  ASSUME PRNG = "DEBUG", FewEnough, Typed, Counted, NextSpaced, Kept, [Next]_vars
  PROVE  Kept'
<1>1. CASE Write
  <2> DEFINE n == Len(obj_id)
             made == SampleInit(P).sample
  <2>1. /\ n \in Nat /\ n < WriteCount /\ Len(obj_id') = n + 1
        /\ P.seq \in Words /\ obj_id'[n + 1] = P.seq /\ written'[n + 1] = made
        /\ \A i \in 1 .. n : /\ obj_id[i] \in Words /\ obj_id'[i] = obj_id[i]
                            /\ written'[i] = written[i]
        /\ MostDraws \in Nat /\ MostDraws > 0
    BY <1>1, WriteNames
  <2>2. \A i \in 1 .. n : Apart(obj_id[i], P.seq, n + 1 - i)
    BY <1>1 DEF Write, NextSpaced
  <2>3. StorageWrite(P.seq, made) /\ alterations' = alterations
    <3>1. PrngPeek(P) = P.seq
      BY Reseeded DEF Typed
    <3> QED
      BY <1>1, <3>1 DEF Write
  <2>4. \A i \in 1 .. n : P.seq # obj_id[i]
    <3> HIDE DEF n
    <3> TAKE i \in 1 .. n
    <3>1. n + 1 - i \in 1 .. WriteCount - 1
      BY <2>1, Sizes
    <3> QED
      BY <2>1, <2>2, <3>1, ApartDiffers
  <2>5. DOMAIN store = Names(obj_id)
    BY DEF Typed
  <2>6. P.seq \notin DOMAIN store
    BY <2>4, <2>5 DEF Names
  <2>7. store' = [m \in DOMAIN store \cup {P.seq} |-> IF m = P.seq THEN made ELSE store[m]]
    BY <2>3, <2>6 DEF StorageWrite
  <2>8. \A i \in 1 .. n : obj_id[i] \in DOMAIN store
    BY <2>5 DEF Names
  <2>9. alterations = 0 => \A i \in 1 .. n : store[obj_id[i]] = written[i]
    BY DEF Kept
  <2> HIDE DEF n, made
  <2>10. ASSUME alterations' = 0, NEW i \in 1 .. n + 1
         PROVE  store'[obj_id'[i]] = written'[i]
    <3>1. CASE i = n + 1
      BY <2>1, <2>7, <3>1
    <3>2. CASE i # n + 1
      <4>1. i \in 1 .. n
        BY <2>1, <3>2
      <4>2. store'[obj_id[i]] = store[obj_id[i]]
        BY <2>4, <2>7, <2>8, <4>1
      <4> QED
        BY <2>1, <2>3, <2>9, <2>10, <4>1, <4>2
    <3> QED
      BY <3>1, <3>2
  <2> QED
    BY <2>1, <2>10 DEF Kept
<1>2. CASE WritesDone
  BY <1>2 DEF WritesDone, Kept
<1>3. CASE Read
  BY <1>3 DEF Read, Kept
<1>4. CASE Alter
  <2>1. alterations' # 0
    BY <1>4 DEF Alter, Typed
  <2> QED
    BY <2>1 DEF Kept
<1>5. CASE UNCHANGED vars
  BY <1>5 DEF vars, Kept
<1> QED
  BY <1>1, <1>2, <1>3, <1>4, <1>5 DEF Next

\* As long as the counter cannot go through all its words while the objects are
\* written (each takes at most one word for its length and LEN_MAX \div WORD for its
\* data), no two objects have one name, so that O_EXCL refuses none: each is in a
\* file of its own.
THEOREM Stored ==
  ASSUME PRNG = "DEBUG", (WriteCount - 1) * (1 + LEN_MAX \div WORD) < WordCount
  PROVE  Spec => []EveryObjectStored
<1> DEFINE Inv == Typed /\ Counted /\ Spaced /\ NextSpaced /\ Kept
<1>1. FewEnough
  BY DEF FewEnough, MostDraws
<1>2. Init => Inv
  <2> SUFFICES ASSUME Init PROVE Inv
    OBVIOUS
  <2>1. Len(obj_id) = 0
    BY EmptySeq DEF Init
  <2> QED
    BY <2>1, InitTyped DEF Spaced, NextSpaced, Kept
<1>3. Inv /\ [Next]_vars => Inv'
  BY <1>1, NextTyped, NextNames, NextKept
<1>4. Inv => EveryObjectStored
  <2> SUFFICES ASSUME Inv PROVE EveryObjectStored
    OBVIOUS
  <2>1. DOMAIN obj_id = 1 .. Len(obj_id) /\ DOMAIN written = 1 .. Len(obj_id)
        /\ Len(obj_id) \in Nat /\ \A i \in 1 .. Len(obj_id) : obj_id[i] \in Words
    BY LenProperties DEF Typed
  <2>2. Len(obj_id) <= WriteCount
    BY Sizes DEF Typed, Counted
  <2>3. MostDraws \in Nat /\ MostDraws > 0
    BY SampleCounts DEF Typed
  <2>4. ASSUME NEW j \in 1 .. Len(obj_id), NEW i \in 1 .. j - 1
        PROVE  obj_id[j] # obj_id[i]
    <3>1. j - i \in 1 .. WriteCount - 1 /\ i \in 1 .. Len(obj_id)
      BY <2>1, <2>2, Sizes
    <3>2. Apart(obj_id[i], obj_id[j], j - i)
      BY DEF Spaced
    <3> QED
      BY <1>1, <2>1, <2>3, <3>1, <3>2, ApartDiffers
  <2>5. IsInjective(obj_id)
    <3> SUFFICES ASSUME NEW a \in 1 .. Len(obj_id), NEW b \in 1 .. Len(obj_id),
                        obj_id[a] = obj_id[b]
                 PROVE  a = b
      BY <2>1 DEF IsInjective
    <3>1. ~(a < b) /\ ~(b < a)
      BY <2>1, <2>4
    <3> QED
      BY <2>1, <3>1
  <2>6. alterations = 0 => \A i \in DOMAIN written : store[obj_id[i]] = written[i]
    BY <2>1 DEF Kept
  <2> QED
    BY <2>5, <2>6 DEF EveryObjectStored
<1> QED
  BY <1>2, <1>3, <1>4, PTL DEF Spec

-----------------------------------------------------------------------------
(* Objects tell apart. *)

\* A digit of a number, and what is below it.
LEMMA DigitStep ==
  ASSUME NEW x \in Nat, NEW base \in Nat, base > 0, NEW p \in Nat, p > 0
  PROVE  x % (base * p) = p * ((x \div p) % base) + (x % p)
<1> DEFINE q == x \div p
           r == x % p
           u == q \div base
           t == q % base
<1>1. q \in Int /\ r \in 0 .. p - 1 /\ x = p * q + r
  BY Division
<1> HIDE DEF q, r
<1>2. u \in Int /\ t \in 0 .. base - 1 /\ q = base * u + t
  BY <1>1, Division
<1> HIDE DEF u, t
<1>3. x = u * (base * p) + (p * t + r)
  <2>1. p * q = p * (base * u) + p * t
    BY <1>2
  <2>2. p * (base * u) = u * (base * p) /\ u * (base * p) \in Int /\ p * t \in Int
    BY <1>2
  <2> QED
    BY <1>1, <1>2, <2>1, <2>2
<1>4. p * t + r \in 0 .. base * p - 1 /\ base * p \in Nat /\ base * p > 0
  <2>1. base - 1 - t \in Nat /\ (base - 1 - t) * p >= 0
    BY <1>2
  <2>2. (base - 1 - t) * p = base * p - p - p * t
    BY <1>2
  <2>3. base * p \in Int /\ p * t \in Int /\ p * t >= 0
    BY <1>2
  <2> QED
    BY <1>1, <2>1, <2>2, <2>3
<1> DEFINE n == base * p
           d == p * t + r
<1>5. n \in Nat /\ n > 0 /\ d \in 0 .. n - 1 /\ x = u * n + d
  BY <1>3, <1>4
<1> HIDE DEF n, d
<1>6. (u * n + d) % n = d
  BY <1>2, <1>5, Divided
<1>7. x % n = d
  BY <1>5, <1>6
<1> QED
  BY <1>7 DEF n, d, t, q, r

\* Numbers with the same digits are the same.
LEMMA SameDigits ==
  ASSUME NEW base \in Nat, base > 0, NEW n \in Nat, NEW v \in Nat, NEW w \in Nat,
         \A k \in 0 .. n - 1 :
           (v \div Pow(base, k)) % base = (w \div Pow(base, k)) % base
  PROVE  v % Pow(base, n) = w % Pow(base, n)
<1> DEFINE T == {k \in Nat : k <= n => v % Pow(base, k) = w % Pow(base, k)}
<1>1. 0 \in T
  <2>1. Pow(base, 0) = 1 /\ v % 1 = 0 /\ w % 1 = 0
    BY PowIs
  <2> QED
    BY <2>1
<1>2. ASSUME NEW k \in Nat, k \in T PROVE k + 1 \in T
  <2> SUFFICES ASSUME k + 1 <= n
               PROVE  v % Pow(base, k + 1) = w % Pow(base, k + 1)
    OBVIOUS
  <2> DEFINE p == Pow(base, k)
  <2>1. p \in Nat /\ p > 0
    BY PowPositive
  <2>2. Pow(base, k + 1) = base * p
    BY PowIs
  <2>3. v % p = w % p
    BY <1>2
  <2>4. (v \div p) % base = (w \div p) % base
    <3>1. k \in 0 .. n - 1
      OBVIOUS
    <3> QED
      BY <3>1
  <2> HIDE DEF p
  <2>5. /\ v % (base * p) = p * ((v \div p) % base) + (v % p)
        /\ w % (base * p) = p * ((w \div p) % base) + (w % p)
    BY <2>1, DigitStep
  <2> QED
    BY <2>2, <2>3, <2>4, <2>5
<1>3. Nat \subseteq T
  <2> HIDE DEF T
  <2> QED
    BY <1>1, <1>2, Induction
<1> QED
  BY <1>3

\* Words with the same bytes are the same.
LEMMA SameBytes ==
  ASSUME NEW v \in Words, NEW w \in Words,
         \A k \in 0 .. WORD - 1 : ByteOf(v, k) = ByteOf(w, k)
  PROVE  v = w
<1> DEFINE bits == W \div WORD
<1>1. bits \in Nat /\ W = bits * WORD
  <2>1. bits \in Int /\ bits >= 0 /\ W = WORD * bits + (W % WORD)
    BY Division, Sizes
  <2> HIDE DEF bits
  <2>2. WORD * bits = bits * WORD /\ bits * WORD \in Int
    BY <2>1, Sizes
  <2> QED
    BY <2>1, <2>2, ObjectsAssumption
<1>2. BYTE = Pow(2, bits)
  BY DEF BYTE
<1> HIDE DEF bits
<1>3. WordCount = Pow(BYTE, WORD)
  <2>1. 2 \in Nat
    OBVIOUS
  <2> QED
    BY <1>1, <1>2, <2>1, PowProduct, Sizes DEF WordCount
<1>4. \A k \in 0 .. WORD - 1 :
        (v \div Pow(BYTE, k)) % BYTE = (w \div Pow(BYTE, k)) % BYTE
  BY DEF ByteOf
<1>5. v \in Nat /\ w \in Nat
  BY Sizes DEF Words
<1>6. v % Pow(BYTE, WORD) = w % Pow(BYTE, WORD)
  BY <1>4, <1>5, SameDigits, Sizes
<1>7. v % WordCount = v /\ w % WordCount = w
  BY Sizes DEF Words
<1> QED
  BY <1>3, <1>6, <1>7

\* The first word of an object's data is the one after its name.
LEMMA FirstWord ==
  ASSUME PRNG = "DEBUG", NEW a \in Words
  PROVE  \A k \in 0 .. WORD - 1 :
           SampleInit(PrngInit(a)).sample[k + 1] = ByteOf(Wrap(a + 1), k)
<1> DEFINE gen == PrngInit(a)
           len == SampleLen(gen)
<1>1. gen \in Gens /\ PrngAdvance(gen) = [seq |-> Wrap(a + 1)]
  BY SeedTyped DEF PrngInit, DebugInit, PrngAdvance, DebugAdvance
<1> HIDE DEF gen
<1>2. /\ len \in Nat
      /\ SampleInit(gen).sample =
           [b \in 1 .. len |->
              ByteOf(SampleWords(gen)[(b - 1) \div WORD + 1], (b - 1) % WORD)]
  BY <1>1, SampleIs
<1>3. len >= LEN_MIN
  BY <1>1, AdvanceTyped, LenTyped DEF SampleLen
<1>4. len >= WORD /\ DataWords(len) >= 1 /\ DataWords(len) \in Nat
  <2> DEFINE h == LEN_MIN \div WORD
             q == len \div WORD
  <2>1. h \in Int /\ LEN_MIN = WORD * h
    BY Division, Halves, Sizes
  <2> HIDE DEF h
  <2>2. LEN_MIN >= WORD
    <3>1. CASE h <= 0
      <4>1. (0 - h) * WORD >= 0 /\ (0 - h) * WORD = 0 - WORD * h
        BY <2>1, <3>1, Sizes
      <4> QED
        BY <2>1, <4>1, Halves
    <3>2. CASE h >= 1
      <4>1. (h - 1) * WORD >= 0 /\ (h - 1) * WORD = WORD * h - WORD
        BY <2>1, <3>2, Sizes
      <4> QED
        BY <2>1, <4>1, Halves, Sizes
    <3> QED
      BY <2>1, <3>1, <3>2
  <2>3. len >= WORD
    BY <1>2, <1>3, <2>2, Halves, Sizes
  <2> HIDE DEF len
  <2>4. q \in Nat /\ q >= 1
    <3>1. q \in Int /\ len % WORD \in 0 .. WORD - 1 /\ len = WORD * q + (len % WORD)
      BY <1>2, Division, Sizes
    <3> DEFINE r == len % WORD
    <3>2. r \in 0 .. WORD - 1 /\ len = WORD * q + r
      BY <3>1
    <3> HIDE DEF q, r
    <3>3. CASE q <= 0
      <4>1. (0 - q) * WORD >= 0 /\ (0 - q) * WORD = 0 - WORD * q /\ WORD * q \in Int
        BY <3>1, <3>3, Sizes
      <4> QED
        BY <2>3, <3>2, <4>1, <1>2, Sizes
    <3> QED
      BY <3>1, <3>3
  <2> QED
    BY <2>3, <2>4 DEF DataWords
<1>5. SampleWords(gen)[1] = Wrap(a + 1)
  <2> DEFINE g == PrngAdvance(gen)
             m == DataWords(len)
  <2>1. g \in Gens /\ g.seq = Wrap(a + 1)
    BY <1>1, AdvanceTyped
  <2>2. SampleWords(gen) = Draws(g, m).words /\ m \in Nat /\ m >= 1
    BY <1>4 DEF SampleWords
  <2> HIDE DEF g, m
  <2>3. PICK after \in [Nat -> Gens] :
          /\ after[0] = g
          /\ \A n \in Nat :
               Draws(g, n) = [words |-> [i \in 1 .. n |-> PrngNext(after[i - 1])],
                              gen |-> after[n]]
    BY <2>1, DrawsAre
  <2>4. Draws(g, m).words[1] = PrngNext(after[1 - 1])
    BY <2>2, <2>3
  <2>5. after[1 - 1] = g
    BY <2>3
  <2> QED
    BY <2>1, <2>2, <2>4, <2>5 DEF PrngNext, DebugNext
<1> HIDE DEF len
<1>6. ASSUME NEW k \in 0 .. WORD - 1
      PROVE  SampleInit(gen).sample[k + 1] = ByteOf(Wrap(a + 1), k)
  <2>1. k + 1 \in 1 .. len /\ (k + 1) - 1 = k
    BY <1>2, <1>4, Sizes
  <2>2. k \div WORD = 0 /\ k % WORD = k
    <3>1. 0 \in Int /\ 0 * WORD + k = k
      BY Sizes
    <3>2. (0 * WORD + k) \div WORD = 0 /\ (0 * WORD + k) % WORD = k
      BY <3>1, Divided, Sizes
    <3> QED
      BY <3>1, <3>2
  <2>3. SampleInit(gen).sample[k + 1]
          = ByteOf(SampleWords(gen)[((k + 1) - 1) \div WORD + 1], ((k + 1) - 1) % WORD)
    BY <1>2, <2>1
  <2> QED
    BY <1>5, <2>1, <2>2, <2>3
<1> QED
  BY <1>6 DEF gen

\* An object of another name is refused, whatever the names and the sizes: objects
\* differ in their first word already, however long they are.  It is why Motif can
\* take an object for its index, with a file that holds another object for junk.
THEOREM OthersRefused ==
  ASSUME PRNG = "DEBUG", NEW a \in Words, NEW b \in Words, a # b
  PROVE  ~SampleValid(SampleInit(PrngInit(a)).sample, PrngInit(b))
<1> SUFFICES ASSUME SampleValid(SampleInit(PrngInit(a)).sample, PrngInit(b))
             PROVE  a = b
  OBVIOUS
<1>1. SampleInit(PrngInit(a)).sample = SampleInit(PrngInit(b)).sample
  BY SeedTyped, SampleTyped, ValidExactly
<1>2. a \in Int /\ b \in Int /\ a + 1 \in Int /\ b + 1 \in Int
  BY Sizes DEF Words
<1>3. Wrap(a + 1) = Wrap(b + 1)
  <2>1. Wrap(a + 1) \in Words /\ Wrap(b + 1) \in Words
    BY <1>2, WrapTyped
  <2>2. \A k \in 0 .. WORD - 1 : ByteOf(Wrap(a + 1), k) = ByteOf(Wrap(b + 1), k)
    BY <1>1, FirstWord
  <2> QED
    BY <2>1, <2>2, SameBytes
<1>4. ASSUME NEW w \in Words
      PROVE  Wrap(Wrap(w + 1) + (WordCount - 1)) = w
  <2> DEFINE n == WordCount
  <2>1. n \in Nat /\ n > 0 /\ w \in 0 .. n - 1 /\ n - 1 \in Int /\ w + 1 \in Int
    BY Sizes DEF Words
  <2>2. Wrap(Wrap(w + 1) + (n - 1)) = Wrap((w + 1) + (n - 1))
    BY <2>1, WrapPlus
  <2>3. Wrap((w + 1) + (n - 1)) = ((w + 1) + (n - 1)) % n
    BY DEF Wrap
  <2> HIDE DEF n
  <2>4. (w + 1) + (n - 1) = 1 * n + w /\ 1 \in Int
    BY <2>1
  <2>5. (1 * n + w) % n = w
    BY <2>1, <2>4, Divided
  <2>6. Wrap(Wrap(w + 1) + (n - 1)) = w
    BY <2>2, <2>3, <2>4, <2>5
  <2> QED
    BY <2>6 DEF n
<1> QED
  BY <1>3, <1>4
=============================================================================
