------------------------------ MODULE Protocol ------------------------------
(***************************************************************************)
(* The wire format of internal/protocol: frames (frame.go), the size limit *)
(* of control messages and the IPv4 header checks (control.go).  A byte    *)
(* string is a sequence of bytes, its first one at index 1.  A function    *)
(* that returns a value or an error is an operator whose value is the set  *)
(* of what it returns: empty for an error.                                 *)
(***************************************************************************)
EXTENDS Integers, Sequences

Byte            == 0..255
Word            == 0..65535
Version         == 1
HeaderSize      == 8
MaxPacketSize   == 65535
MaxControlSize  == 4096
Magic           == <<86, 76>>
TypeHello       == 1
TypeWelcome     == 2
TypePacket      == 3
TypeError       == 4
ReadLimit       == MaxPacketSize + HeaderSize

validType(t) == TypeHello <= t /\ t <= TypeError

(* BigEndian.PutUint16 of uint16(n): the upper bits of n are lost. *)
PutUint16(n) == <<(n \div 256) % 256, n % 256>>

(* The two bytes of b at index i, big-endian. *)
Uint16(b, i) == 256 * b[i] + b[i + 1]

Fits(payload) == Len(payload) <= MaxPacketSize

Encode(t, flags, payload) ==
  IF validType(t) /\ Fits(payload)
    THEN {Magic \o <<Version, t>> \o PutUint16(flags) \o PutUint16(Len(payload)) \o payload}
    ELSE {}

LengthMatches_AtLeast(b) == Uint16(b, 7) <= Len(b) - HeaderSize

LengthMatches(b) == Uint16(b, 7) = Len(b) - HeaderSize

Decode(b) ==
  IF /\ Len(b) >= HeaderSize
     /\ b[1] = Magic[1] /\ b[2] = Magic[2]
     /\ b[3] = Version
     /\ validType(b[4])
     /\ LengthMatches(b)
    THEN {[type |-> b[4], flags |-> Uint16(b, 5),
           payload |-> SubSeq(b, HeaderSize + 1, HeaderSize + Uint16(b, 7))]}
    ELSE {}

(* MarshalControl and UnmarshalControl have this limit in common; the JSON   *)
(* itself is external.                                                       *)
ControlFits(json) == Len(json) <= MaxControlSize

IPv4SourceDestination(p) ==
  IF Len(p) < 20 THEN {}
  ELSE LET ihl == (p[1] % 16) * 4
       IN  IF /\ p[1] \div 16 = 4
              /\ ihl >= 20 /\ ihl <= Len(p)
              /\ Uint16(p, 3) >= ihl /\ Uint16(p, 3) = Len(p)
             THEN {[src |-> SubSeq(p, 13, 16), dst |-> SubSeq(p, 17, 20)]}
             ELSE {}
=============================================================================
