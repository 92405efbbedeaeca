----------------------------- MODULE MCRequests -----------------------------
(* Two values of each kind tell a default, an endpoint's own and a given   *)
(* one apart as far as the properties do; three arguments are two of one   *)
(* keyword around or beside one of another.                                *)
EXTENDS Requests

TwoTokens == {"t1", "t2"}
TwoDcs    == {"d1", "d2"}
=============================================================================
