------------------------------ MODULE MCServer ------------------------------
(* Instances of Server: two sessions, for one address or for two. *)
EXTENDS Server, TLC

CONSTANTS s1, s2, a1, a2, MaxPackets, MaxLen

MCSession == {s1, s2}
MCAddr == {a1, a2}
SameAddr == (s1 :> a1) @@ (s2 :> a1)
TwoAddrs == (s1 :> a1) @@ (s2 :> a2)
MCPacket == [id : 1..MaxPackets, dst : MCAddr, len : 1..MaxLen]
MCFrame == [src : MCAddr, len : 1..MaxLen]

MCSymmetry == Permutations(MCSession)
==============================================================================
