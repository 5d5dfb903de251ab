----------------------------- MODULE MCMessages ------------------------------
(* Messages on a small instance: payloads of one and of two characters, as  *)
(* long as the sockets hold when they have been framed, and longer.         *)
EXTENDS Messages

MCMessageSet == {<<"a">>, <<"b", "c">>}

=============================================================================
