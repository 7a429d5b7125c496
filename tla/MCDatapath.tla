----------------------------- MODULE MCDatapath -----------------------------
(* Instances of Datapath with the sizes of the code.  Packets are made from  *)
(* the fields the checks look at: sizes around every limit, header and total *)
(* lengths that fit and do not, own and other addresses.                     *)
EXTENDS Datapath

Own   == <<10, 77, 0, 2>>
Other == <<10, 77, 2, 0>>

(* A packet of n >= 20 bytes. *)
IPv4(version, words, total, src, dst, n) ==
  <<16 * version + words, 0>> \o <<total \div 256, total % 256>>
    \o <<0, 0, 0, 0, 64, 17, 0, 0>> \o src \o dst \o [i \in 1..(n - 20) |-> 7]

Sizes == {20, 21, 24, 60, 276, 576, 577, 1280, 1281, 1500, 1501}

MCPackets ==
  {<<69>>, [i \in 1..19 |-> IF i = 1 THEN 69 ELSE IF i = 4 THEN 19 ELSE 0]}
  \cup {IPv4(v, 5, n, s, d, n) : v \in {4, 6}, s, d \in {Own, Other}, n \in Sizes}
  \cup {IPv4(4, w, n, Own, Own, n) : w \in {0, 4, 5, 6, 15}, n \in Sizes}
  \cup {IPv4(4, 5, t, Own, Own, n) : t \in {0, 19, 20, 21, 256, 532}, n \in {20, 21, 276}}

Payloads == {[i \in 1..n |-> i % 256] : n \in {0, 1, 2, 255, 256, 257, 65534, 65535, 65536}}

MCFrames ==
  [type : 0..5, flags : {0, 1, 256, 65535},
   payload : Payloads \cup {IPv4(4, 5, 24, Own, Own, 24), IPv4(4, 5, 24, Other, Other, 24)}]

(* An encoded packet with one byte changed, cut off or added. *)
Sample == CHOOSE b \in Encode(TypePacket, 0, IPv4(4, 5, 24, Own, Own, 24)) : TRUE

MCMessages ==
  {SubSeq(Sample, 1, n) : n \in 0..Len(Sample)}
  \cup {Sample \o <<0>>, <<0>> \o Sample, Sample \o Sample}
  \cup {[Sample EXCEPT ![i] = v] : i \in 1..28, v \in {0, 1, 2, 24, 25, 86, 255}}
  \cup {[Sample \o <<0>> EXCEPT ![7] = u, ![8] = v] : u, v \in {0, 1, 24, 25}}

(* The text of a JSON object does not matter, only its length. *)
MCControls == {[i \in 1..n |-> 123] : n \in {2, 110, 4095, 4096, 4097}}

MCClientMTUs == {576, 1280, 1500}
=============================================================================
