-------------------------- MODULE AbstractWorkspace --------------------------
(***************************************************************************)
(* What the file-based storage drivers promise of a workspace as a whole:  *)
(* an object is put where there was none, by one task, and stays as it is  *)
(* until the workspace is removed; from then on nothing is put in it.      *)
(***************************************************************************)
EXTENDS Integers

CONSTANT Object   \* the objects' names

VARIABLES
  removing,   \* the removal has begun
  held,       \* what is under each name
  open        \* the objects that are being put

vars == <<removing, held, open>>

Init ==
  /\ removing = FALSE
  /\ held \in [Object -> {"absent", "part", "whole", "huge"}]
  /\ open = {}

\* All of an object, a part that will stay one, or one that is filled later.
Put(o) ==
  /\ ~removing
  /\ held[o] = "absent"
  /\ \E c \in {"part", "whole"} : held' = [held EXCEPT ![o] = c]
  /\ open' = open \/ (open' = open \cup {o} /\ held'[o] = "part")
  /\ UNCHANGED removing

\* It is filled, or has to stay as it is.
Finish(o) ==
  /\ ~removing
  /\ o \in open
  /\ open' = open \ {o}
  /\ held' = held \/ held' = [held EXCEPT ![o] = "whole"]
  /\ UNCHANGED removing

Remove ==
  /\ open = {} /\ removing' = TRUE
  /\ \E gone \in SUBSET Object :
       held' = [o \in Object |-> IF o \in gone /\ removing THEN "absent" ELSE held[o]]
  /\ UNCHANGED open

Next == Remove \/ \E o \in Object : Put(o) \/ Finish(o)

Spec == Init /\ [][Next]_vars
=============================================================================
