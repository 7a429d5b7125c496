------------------------------ MODULE MCClient ------------------------------
(* Instances of Client: two connections, two possible sets of parameters. *)
EXTENDS Client

CONSTANTS p1, p2

MCParams == {p1, p2}
==============================================================================
