---------------------------- MODULE MCLabServer -----------------------------
(* Two clients and two keys, both in the second of two buckets; the number *)
(* of one begins with that of the other.                                   *)
EXTENDS LabServer

=============================================================================
