------------------------------- MODULE Powers -------------------------------
(***************************************************************************)
(* Powers as a recursive function: how many words, bytes and nanoseconds   *)
(* there are, and what a shift multiplies and divides by.  They are those  *)
(* of the operator ^, which comes without an equation to reason from.      *)
(***************************************************************************)
EXTENDS Naturals

Pow(b, n) ==
  LET pow[i \in Nat] == IF i = 0 THEN 1 ELSE b * pow[i - 1]
  IN pow[n]
=============================================================================
