------------------------------ MODULE MCSession ------------------------------
(* Session with the options, and what the stack holds, as pairs and records. *)
EXTENDS Session

MCOptions ==
  {<<"c", -1>>, <<"c", 0>>, <<"c", 2>>, <<"n", 3>>, <<"p", 0>>, <<"p", 2>>, <<"R", 3>>,
   <<"S", "RADOS">>, <<"S", "DIRTREE">>, <<"S", "NFS">>, <<"r", "XORSHIFT">>, <<"r", "MT">>,
   <<"v", "WARN">>, <<"v", "ALL">>}

MCGarbage == {[c |-> 1, n |-> 1, R |-> 0], [c |-> 0, n |-> 2, R |-> 0]}
=============================================================================
