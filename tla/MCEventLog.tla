----------------------------- MODULE MCEventLog -----------------------------
(* Small instances of EventLog: a run that is invoked and then resumed.     *)
EXTENDS EventLog, TLC

CONSTANTS first, second, w1, w2, w3

(* Two concurrent writers in the first life, one in the second.             *)
TwoThenOne == (w1 :> first) @@ (w2 :> first) @@ (w3 :> second)
=============================================================================
