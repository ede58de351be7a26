---------------------------- MODULE MCHashStore ----------------------------
(***************************************************************************)
(* Instances of HashStore for TLC.  With two buckets both keys are in      *)
(* bucket 0.                                                               *)
(***************************************************************************)
EXTENDS HashStore

TwoKeys == {0, 2}
OneKey == {0}

=============================================================================
