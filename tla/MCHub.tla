-------------------------------- MODULE MCHub --------------------------------
(* Instances of Hub: three sessions, two of them for the same address. *)
EXTENDS Hub, TLC

CONSTANTS s1, s2, s3, a1, a2, MaxPackets

MCSession == {s1, s2, s3}
MCAddr == {a1, a2}
MCAddrOf == (s1 :> a1) @@ (s2 :> a1) @@ (s3 :> a2)
MCPacket == [id : 1..MaxPackets, dst : MCAddr]

(* The two sessions of a1 are interchangeable. *)
MCSymmetry == Permutations({s1, s2})
==============================================================================
