----------------------------- MODULE MCDispatch -----------------------------
(* Three connections and two descriptors, so that one is used again.       *)
EXTENDS Dispatch

CONSTANTS c1, c2, c3

MCConns == {c1, c2, c3}
MCFds == {4, 5}

=============================================================================
