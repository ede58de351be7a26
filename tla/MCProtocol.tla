----------------------------- MODULE MCProtocol -----------------------------
(* A value of three bytes and one of a single byte, read by a caller who   *)
(* has room for two.                                                       *)
EXTENDS Protocol

MCValues == {<<"a", "b", "c">>, <<"d">>}

=============================================================================
