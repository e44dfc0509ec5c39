------------------------------ MODULE MCSession ------------------------------
(* Instances of Session.                                                   *)
EXTENDS Session

CONSTANTS a, b, c1, c2, c3
=============================================================================
