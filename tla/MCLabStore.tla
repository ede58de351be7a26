----------------------------- MODULE MCLabStore -----------------------------
(* LabStore.cfg: two clients, and two keys that share a bucket.      *)
EXTENDS LabStore

=============================================================================
