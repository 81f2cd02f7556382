------------------------------ MODULE MCDirTree ------------------------------
(***************************************************************************)
(* DirTree for TLC: two tasks that share a directory of the first level,   *)
(* as tasks 0 and 65536 do, each with three objects, two of which share a  *)
(* directory of the third level.                                           *)
(***************************************************************************)
EXTENDS DirTree

SharingClients == {<<0, 0>>, <<1, 0>>}
SharingObjIds == << <<0, 0>>, <<0, 1>>, <<1, 0>> >>
=============================================================================
