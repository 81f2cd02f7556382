--------------------------- MODULE AbstractBarrier ---------------------------
(***************************************************************************)
(* What barrier_wait promises the processes of a motif: nobody returns     *)
(* from its k-th call before everybody has made a k-th call.               *)
(***************************************************************************)
EXTENDS Naturals

CONSTANTS
  Proc,       \* the participants
  Rounds      \* how many times each may call barrier_wait

VARIABLES
  arrivals,   \* the calls of each process that the barrier has counted
  passes      \* the calls of each process that the barrier has let through

vars == <<arrivals, passes>>

Init == arrivals = [p \in Proc |-> 0] /\ passes = [p \in Proc |-> 0]

Arrive(p) ==
  /\ arrivals[p] = passes[p]
  /\ arrivals[p] < Rounds
  /\ arrivals' = [arrivals EXCEPT ![p] = @ + 1]
  /\ UNCHANGED passes

Pass(p) ==
  /\ passes[p] < arrivals[p]
  /\ \A q \in Proc : passes[p] < arrivals[q]
  /\ passes' = [passes EXCEPT ![p] = @ + 1]
  /\ UNCHANGED arrivals

Next == \E p \in Proc : Arrive(p) \/ Pass(p)

Spec == Init /\ [][Next]_vars
=============================================================================
