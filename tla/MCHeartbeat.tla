---------------------------- MODULE MCHeartbeat -----------------------------
(* The configurations give the data server two ports to try, 3 and 4, with *)
(* 5 in the place of 11000, and at most two crashes.                       *)
EXTENDS Heartbeat

=============================================================================
