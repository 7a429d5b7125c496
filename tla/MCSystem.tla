------------------------------ MODULE MCSystem ------------------------------
(* Instances of System: three connections at one time are the current one,   *)
(* one that is about to register late, and one that is leaving.              *)
EXTENDS System

CONSTANTS k1, k2, k3

MCConn == {k1, k2, k3}
=============================================================================
