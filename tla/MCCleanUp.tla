------------------------------ MODULE MCCleanUp -----------------------------
(* Three items, the last of them in the log only.                          *)
EXTENDS CleanUp

MCInLog == {3}

=============================================================================
