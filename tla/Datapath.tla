------------------------------ MODULE Datapath ------------------------------
(***************************************************************************)
(* The way of one packet or message through the two ends of a session, at  *)
(* the level of its bytes: what readTun of the client and packetLoop of    *)
(* the server take from a TUN and encode, and what runSession of the       *)
(* client and tunnel of the server decode, check and put on the other TUN; *)
(* and the same for HELLO and WELCOME, whose payload is JSON.  A receiver  *)
(* that is not content ends its session, so each end must accept what the  *)
(* other one sends.  A peer may also send any other bytes.                 *)
(***************************************************************************)
EXTENDS Protocol

CONSTANTS
  ServerMTU,  \* cfg.MTU of the server
  ClientMTUs, \* cfg.MTU of the client, one of these
  Assigned,   \* the address the client's token is mapped to
  Packets,    \* byte strings the operating systems may put on the TUNs
  Controls,   \* JSON objects of HELLO and WELCOME
  Frames,     \* frames a peer may encode: records with type, flags and payload
  Messages    \* byte strings a peer may send without encoding a frame

ASSUME DatapathAssumption ==
  /\ ServerMTU \in Nat /\ ClientMTUs \subseteq Nat
  /\ Packets \cup Controls \cup Messages \subseteq Seq(Byte)
  /\ Frames \subseteq [type : Byte, flags : Word, payload : Seq(Byte)]

VARIABLES
  clientMTU,  \* cfg.MTU of the client
  way,        \* "hello" and "up" to the server, "welcome" and "down" to the client
  stage,      \* where the packet is
  packet,     \* what was read from the TUN, or the JSON of a control message
  msg,        \* the WebSocket message
  verdict,    \* what became of it
  written,    \* what the receiver put on its TUN, or gave to its JSON decoder
  origin      \* ghost: the frame that was encoded; empty for other bytes

Way == {"hello", "welcome", "up", "down"}

vars == <<clientMTU, way, stage, packet, msg, verdict, written, origin>>

Least(m, n) == IF m <= n THEN m ELSE n

(* The server's WELCOME answers the client's HELLO with the smaller MTU, and *)
(* the client takes the smaller one again.                                   *)
effectiveMTU == Least(clientMTU, Least(ServerMTU, clientMTU))

Init ==
  /\ clientMTU \in ClientMTUs
  /\ way = "up" /\ stage = "idle" /\ packet = <<>> /\ msg = <<>>
  /\ verdict = "none" /\ written = <<>> /\ origin = {}

(* The operating system of one end puts a packet on its TUN, or connect or   *)
(* tunnel fills in a control message.                                        *)
Offer(w, p) ==
  /\ stage = "idle"
  /\ p \in IF w \in {"up", "down"} THEN Packets ELSE Controls
  /\ way' = w /\ packet' = p /\ stage' = "tun"
  /\ UNCHANGED <<clientMTU, msg, verdict, written, origin>>

ClientTakes_AnySize(p) ==
  \E a \in IPv4SourceDestination(p) : a.src = Assigned

(* readTun *)
ClientTakes(p) ==
  /\ Len(p) <= effectiveMTU
  /\ \E a \in IPv4SourceDestination(p) : a.src = Assigned

(* packetLoop, and Dispatch to the session of the destination. *)
ServerTakes(p) ==
  /\ Len(p) \in 1..MaxPacketSize
  /\ \E a \in IPv4SourceDestination(p) : a.dst = Assigned

(* MarshalControl, for a control message. *)
Takes(p) ==
  \/ way = "up" /\ ClientTakes(p)
  \/ way = "down" /\ ServerTakes(p)
  \/ way \in {"hello", "welcome"} /\ ControlFits(p)

(* The type sent, and the only one the receiver takes. *)
TypeOf(w) == IF w = "hello" THEN TypeHello ELSE IF w = "welcome" THEN TypeWelcome ELSE TypePacket

(* connect, tunnel, the goroutine that reads outbound, or writeLoop. *)
Send ==
  /\ stage = "tun" /\ Takes(packet)
  /\ msg' \in Encode(TypeOf(way), 0, packet)
  /\ origin' = {[type |-> TypeOf(way), flags |-> 0, payload |-> packet]}
  /\ stage' = "wire"
  /\ UNCHANGED <<clientMTU, way, packet, verdict, written>>

Drop ==
  /\ stage = "tun" /\ ~Takes(packet)
  /\ verdict' = "dropped" /\ stage' = "done"
  /\ UNCHANGED <<clientMTU, way, packet, msg, written, origin>>

(* A peer that encodes a frame of its own choice, or sends any bytes. *)
SendFrame(w, f) ==
  /\ stage = "idle"
  /\ msg' \in Encode(f.type, f.flags, f.payload)
  /\ way' = w /\ origin' = {f} /\ stage' = "wire"
  /\ UNCHANGED <<clientMTU, packet, verdict, written>>

SendBytes(w, b) ==
  /\ stage = "idle"
  /\ way' = w /\ msg' = b /\ stage' = "wire"
  /\ UNCHANGED <<clientMTU, packet, verdict, written, origin>>

ServerAccepts_AnySource(p) ==
  Len(p) <= ServerMTU /\ IPv4SourceDestination(p) # {}

(* tunnel *)
ServerAccepts(p) ==
  /\ \E a \in IPv4SourceDestination(p) : a.src = Assigned
  /\ Len(p) <= ServerMTU

(* runSession *)
ClientAccepts(p) ==
  /\ Len(p) <= effectiveMTU
  /\ \E a \in IPv4SourceDestination(p) : a.dst = Assigned

(* UnmarshalControl, for a control message. *)
Accepts(p) ==
  \/ way = "up" /\ ServerAccepts(p)
  \/ way = "down" /\ ClientAccepts(p)
  \/ way \in {"hello", "welcome"} /\ ControlFits(p)

Accepted ==
  Len(msg) <= ReadLimit /\ \E f \in Decode(msg) : f.type = TypeOf(way) /\ Accepts(f.payload)

Deliver ==
  /\ stage = "wire" /\ Accepted
  /\ \E f \in Decode(msg) : written' = f.payload
  /\ verdict' = "delivered" /\ stage' = "done"
  /\ UNCHANGED <<clientMTU, way, packet, msg, origin>>

(* The receiver ends the session. *)
Reject ==
  /\ stage = "wire" /\ ~Accepted
  /\ verdict' = "rejected" /\ stage' = "done"
  /\ UNCHANGED <<clientMTU, way, packet, msg, written, origin>>

NextMessage ==
  /\ stage = "done"
  /\ stage' = "idle" /\ way' = "up" /\ packet' = <<>> /\ msg' = <<>>
  /\ verdict' = "none" /\ written' = <<>> /\ origin' = {}
  /\ UNCHANGED clientMTU

Next ==
  \/ \E w \in Way :
       \/ \E p \in Packets \cup Controls : Offer(w, p)
       \/ \E f \in Frames : SendFrame(w, f)
       \/ \E b \in Messages : SendBytes(w, b)
  \/ Send \/ Drop \/ Deliver \/ Reject \/ NextMessage

Spec == Init /\ [][Next]_vars
-----------------------------------------------------------------------------
(* Decode undoes Encode, for every type, all flags and every payload up to   *)
(* the limit, which is the largest length two bytes can say (frame.go:46),   *)
(* and accepts nothing else: a message it takes is the one encoding of the   *)
(* frame it returns, so nothing may precede, follow or be cut off a frame    *)
(* (frame.go:60-76).                                                         *)
OneEncoding ==
  stage = "wire" =>
    /\ origin # {} => Decode(msg) = origin
    /\ \A f \in Decode(msg) :
         Encode(f.type, f.flags, f.payload) = {msg} /\ Len(msg) <= ReadLimit

(* The two ends agree: a packet the client takes from its TUN reaches the    *)
(* TUN of the server, byte for byte, and a control message that was sent is  *)
(* decoded.  Otherwise one packet of an application would end the session    *)
(* (client.go:208-214 against server.go:228-237).  On the way down that      *)
(* holds of the packets the client has room for: the server does not look    *)
(* at the MTU it negotiated (server.go:133-144 against client.go:273-281).   *)
EndsAgree ==
  (/\ stage = "done" /\ packet # <<>> /\ verdict # "dropped"
   /\ way = "down" => Len(packet) <= effectiveMTU)
    => written = packet

(* A well-formed IPv4 packet, from the format and not from the code: version *)
(* 4, a header of 5 to 15 words inside the packet, the packet as long as its *)
(* header says.                                                              *)
WellFormed(p) ==
  /\ Len(p) >= 20
  /\ \E words \in 5..15 : p[1] = 64 + words /\ 4 * words <= Len(p)
  /\ \E high, low \in 0..255 : p[3] = high /\ p[4] = low /\ Len(p) = 256 * high + low

(* Whatever bytes the peer sends, only well-formed packets with the address  *)
(* of the session in the right place of the header, and no longer than the   *)
(* receiver's MTU, get to a TUN (server.go:233-237, client.go:274-282).      *)
OnlyOwnPackets ==
  written # <<>> /\ way \in {"up", "down"} =>
    /\ WellFormed(written)
    /\ way = "up" => SubSeq(written, 13, 16) = Assigned /\ Len(written) <= ServerMTU
    /\ way = "down" => SubSeq(written, 17, 20) = Assigned /\ Len(written) <= effectiveMTU
=============================================================================
