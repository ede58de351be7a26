---------------------------- MODULE MCDataServer ----------------------------
(* Values for the constants of DataServer.                                 *)
EXTENDS DataServer, TLC

TwoKeys == {0, 1}

(* Killed anywhere, and then anywhere again.                               *)
Anywhere == Phase \ {"down"}
AnywhereTwice == <<Anywhere, Anywhere>>

ServingTwice == <<{"serve"}, {"serve"}>>

Symmetry == Permutations(Thread) \cup Permutations(Value)

=============================================================================
