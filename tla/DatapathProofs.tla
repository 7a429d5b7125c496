--------------------------- MODULE DatapathProofs ---------------------------
(***************************************************************************)
(* Proofs about Protocol and Datapath, for byte strings of any length, any *)
(* MTUs and any packets, frames and messages: Encode and Decode are        *)
(* inverse to each other, what one end sends the other one accepts, and    *)
(* only packets with the address of the session get to a TUN.              *)
(***************************************************************************)
EXTENDS Datapath, SequenceTheorems, TLAPS

(* Numbers of two bytes. *)
Upper(n) == (n \div 256) % 256
Lower(n) == n % 256

LEMMA PutOfUint16 ==
  ASSUME NEW h \in Byte, NEW l \in Byte, NEW n, n = 256 * h + l
  PROVE  n \in Nat /\ n <= 65535 /\ Upper(n) = h /\ Lower(n) = l
BY DEF Byte, Upper, Lower

LEMMA DivisionBy256 == \A n \in Nat : \E q \in Int : n - (n % 256) = 256 * q
OBVIOUS

LEMMA Uint16OfPut ==
  ASSUME NEW n \in Nat, n <= 65535
  PROVE  Upper(n) \in Byte /\ Lower(n) \in Byte /\ 256 * Upper(n) + Lower(n) = n
<1>1. PICK q \in Int : n - (n % 256) = 256 * q
  BY DivisionBy256
<1>2. PICK r \in Byte : r = n % 256
  BY DEF Byte
<1>3. n = 256 * q + r /\ q \in Byte
  BY <1>1, <1>2 DEF Byte
<1>4. Upper(n) = q /\ Lower(n) = r
  BY <1>3, PutOfUint16
<1>5. QED
  BY <1>3, <1>4

(* The eight bytes before the payload. *)
Header(t, flags, n) == Magic \o <<Version, t>> \o PutUint16(flags) \o PutUint16(n)

StartsWith(b, t, flags, n) ==
  /\ b[1] = 86 /\ b[2] = 76 /\ b[3] = 1 /\ b[4] = t
  /\ b[5] = Upper(flags) /\ b[6] = Lower(flags) /\ b[7] = Upper(n) /\ b[8] = Lower(n)

LEMMA HeaderBytes ==
  ASSUME NEW t \in Byte, NEW flags \in Nat, flags <= 65535, NEW n \in Nat, n <= 65535
  PROVE  /\ Header(t, flags, n) \in Seq(Byte) /\ Len(Header(t, flags, n)) = 8
         /\ StartsWith(Header(t, flags, n), t, flags, n)
<1>1. Magic \in Seq(Byte) /\ <<Version, t>> \in Seq(Byte)
  BY DEF Magic, Version, Byte
<1>2. PutUint16(flags) \in Seq(Byte) /\ PutUint16(n) \in Seq(Byte)
  BY Uint16OfPut DEF PutUint16, Upper, Lower
<1>3. Header(t, flags, n) \in Seq(Byte)
  <2>1. Magic \o <<Version, t>> \in Seq(Byte)
    BY <1>1, ConcatProperties
  <2>2. Magic \o <<Version, t>> \o PutUint16(flags) \in Seq(Byte)
    BY <1>2, <2>1, ConcatProperties
  <2>3. Magic \o <<Version, t>> \o PutUint16(flags) \o PutUint16(n) \in Seq(Byte)
    BY <1>2, <2>2, ConcatProperties
  <2>4. QED
    BY <2>3 DEF Header
<1>4. PutUint16(flags) = <<Upper(flags), Lower(flags)>> /\ PutUint16(n) = <<Upper(n), Lower(n)>>
  BY DEF PutUint16, Upper, Lower
<1>5. Header(t, flags, n)
        = <<86, 76>> \o <<1, t>> \o <<Upper(flags), Lower(flags)>> \o <<Upper(n), Lower(n)>>
  BY <1>4 DEF Header, Magic, Version
<1>6. Len(Header(t, flags, n)) = 8
  BY <1>5
<1>7. StartsWith(Header(t, flags, n), t, flags, n)
  BY <1>5 DEF StartsWith
<1>8. QED
  BY <1>3, <1>6, <1>7

(* What follows the header. *)
Behind(b, i) == b[HeaderSize + i]

Body(b, n) == SubSeq(b, HeaderSize + 1, HeaderSize + n)

LEMMA BodyBytes ==
  ASSUME NEW b \in Seq(Byte), NEW n \in Nat, Len(b) = 8 + n
  PROVE  /\ Body(b, n) \in Seq(Byte) /\ Len(Body(b, n)) = n
         /\ \A i \in 1..n : Body(b, n)[i] = Behind(b, i)
<1>1. PICK y \in Int : y = 8 + n
  OBVIOUS
<1>2. \A i \in 9..y : b[i] \in Byte
  <2> SUFFICES ASSUME NEW i \in 9..y PROVE b[i] \in Byte
    OBVIOUS
  <2>1. i \in 1..Len(b)
    BY <1>1
  <2>2. QED
    BY <2>1, ElementOfSeq
<1>3. /\ SubSeq(b, 9, y) \in Seq(Byte)
      /\ Len(SubSeq(b, 9, y)) = IF 9 <= y THEN y - 9 + 1 ELSE 0
      /\ \A i \in 1..(y - 9 + 1) : SubSeq(b, 9, y)[i] = b[9 + i - 1]
  BY <1>2, SubSeqProperties
<1>4. /\ y - 9 + 1 = n /\ (IF 9 <= y THEN y - 9 + 1 ELSE 0) = n
      /\ \A i \in 1..n : 9 + i - 1 = 8 + i
  BY <1>1
<1>5. SubSeq(b, 9, y) = Body(b, n) /\ \A i : b[8 + i] = Behind(b, i)
  BY <1>1 DEF Body, Behind, HeaderSize
<1>6. QED
  BY <1>3, <1>4, <1>5

(* The bytes of an encoded frame, whose payload has n of them. *)
Encoded(b, t, flags, payload, n) ==
  /\ b \in Seq(Byte) /\ Len(b) = 8 + n
  /\ StartsWith(b, t, flags, n)
  /\ \A i \in 1..n : Behind(b, i) = payload[i]

Message(h, payload) == h \o payload

LEMMA EncodeIs ==
  ASSUME NEW t, NEW flags, NEW payload
  PROVE  Encode(t, flags, payload) =
           IF validType(t) /\ Fits(payload)
             THEN {Message(Header(t, flags, Len(payload)), payload)} ELSE {}
BY DEF Encode, Header, Message

Joined(b, h, payload, n) ==
  /\ b \in Seq(Byte) /\ Len(b) = 8 + n
  /\ \A i \in 1..8 : b[i] = h[i]
  /\ \A i \in 1..n : Behind(b, i) = payload[i]

LEMMA Prepended ==
  ASSUME NEW h \in Seq(Byte), Len(h) = 8, NEW payload \in Seq(Byte),
         NEW n \in Nat, n = Len(payload), NEW b, b = Message(h, payload)
  PROVE  Joined(b, h, payload, n)
<1>0. /\ h \o payload \in Seq(Byte) /\ Len(h \o payload) = Len(h) + Len(payload)
      /\ \A i \in 1..Len(h) + Len(payload) :
           (h \o payload)[i] = IF i <= Len(h) THEN h[i] ELSE payload[i - Len(h)]
  BY ConcatProperties
<1>1. /\ b \in Seq(Byte) /\ Len(b) = 8 + n
      /\ \A i \in 1..(8 + n) : b[i] = IF i <= 8 THEN h[i] ELSE payload[i - 8]
  BY <1>0 DEF Message
<1>2. \A i \in 1..8 : b[i] = h[i]
  BY <1>1
<1>3. \A i \in 1..n : b[8 + i] = payload[i]
  BY <1>1
<1>4. QED
  BY <1>1, <1>2, <1>3 DEF Joined, Behind, HeaderSize

LEMMA EncodedBytes ==
  ASSUME NEW t \in Byte, NEW flags \in Nat, flags <= 65535, NEW payload \in Seq(Byte),
         NEW n \in Nat, n = Len(payload), n <= 65535,
         NEW b, b = Message(Header(t, flags, n), payload)
  PROVE  Encoded(b, t, flags, payload, n)
<1>1. PICK h : h = Header(t, flags, n)
  OBVIOUS
<1>2. h \in Seq(Byte) /\ Len(h) = 8 /\ StartsWith(h, t, flags, n)
  BY <1>1, HeaderBytes
<1>3. Joined(b, h, payload, n)
  <2>1. b = Message(h, payload)
    BY <1>1
  <2>2. QED
    BY <1>2, <2>1, Prepended
<1>4. b[1] = h[1] /\ b[2] = h[2] /\ b[3] = h[3] /\ b[4] = h[4]
  BY <1>3 DEF Joined
<1>5. b[5] = h[5] /\ b[6] = h[6] /\ b[7] = h[7] /\ b[8] = h[8]
  BY <1>3 DEF Joined
<1>6. StartsWith(b, t, flags, n)
  BY <1>2, <1>4, <1>5 DEF StartsWith
<1>7. QED
  BY <1>3, <1>6 DEF Encoded, Joined
(* Decode, with its parts named. *)
LEMMA DecodeIs ==
  ASSUME NEW b
  PROVE  Decode(b) =
           IF /\ Len(b) >= 8 /\ b[1] = 86 /\ b[2] = 76 /\ b[3] = 1 /\ validType(b[4])
              /\ LengthMatches(b)
             THEN {[type |-> b[4], flags |-> Uint16(b, 5), payload |-> Body(b, Uint16(b, 7))]}
             ELSE {}
BY DEF Decode, Body, HeaderSize, Magic, Version

(* Decode undoes Encode. *)
LEMMA DecodeEncode ==
  ASSUME NEW t \in Byte, NEW flags \in Nat, flags <= 65535, NEW payload \in Seq(Byte),
         NEW b \in Encode(t, flags, payload)
  PROVE  /\ b \in Seq(Byte)
         /\ Decode(b) = {[type |-> t, flags |-> flags, payload |-> payload]}
<1>1. validType(t) /\ Fits(payload) /\ b = Message(Header(t, flags, Len(payload)), payload)
  BY EncodeIs
<1>2. PICK n \in Nat : n = Len(payload) /\ n <= 65535
  BY <1>1, LenProperties DEF Fits, MaxPacketSize
<1>3. Encoded(b, t, flags, payload, n)
  <2>1. b = Message(Header(t, flags, n), payload)
    BY <1>1, <1>2
  <2>2. QED
    BY <1>2, <2>1, EncodedBytes
<1>4. b \in Seq(Byte) /\ Len(b) = 8 + n /\ \A i \in 1..n : Behind(b, i) = payload[i]
  BY <1>3 DEF Encoded
<1>5. /\ b[1] = 86 /\ b[2] = 76 /\ b[3] = 1 /\ b[4] = t
      /\ b[5] = Upper(flags) /\ b[6] = Lower(flags) /\ b[7] = Upper(n) /\ b[8] = Lower(n)
  BY <1>3 DEF Encoded, StartsWith
<1>6. Uint16(b, 5) = flags
  BY <1>5, Uint16OfPut DEF Uint16
<1>7. Uint16(b, 7) = n
  BY <1>2, <1>5, Uint16OfPut DEF Uint16
<1>8. Body(b, n) = payload
  <2>1. /\ Body(b, n) \in Seq(Byte) /\ Len(Body(b, n)) = n
        /\ \A i \in 1..n : Body(b, n)[i] = Behind(b, i)
    BY <1>4, BodyBytes
  <2>2. QED
    BY <1>2, <1>4, <2>1, SeqEqual
<1>9. LengthMatches(b) /\ Len(b) >= 8
  BY <1>4, <1>7 DEF LengthMatches, HeaderSize
<1>10. Decode(b) = {[type |-> b[4], flags |-> Uint16(b, 5), payload |-> Body(b, Uint16(b, 7))]}
  BY <1>1, <1>5, <1>9, DecodeIs
<1>11. QED
  BY <1>4, <1>5, <1>6, <1>7, <1>8, <1>10

(* Encode undoes Decode, which accepts nothing longer than the read limit. *)
LEMMA EncodeDecode ==
  ASSUME NEW b \in Seq(Byte), NEW f \in Decode(b)
  PROVE  /\ f.payload \in Seq(Byte)
         /\ Encode(f.type, f.flags, f.payload) = {b} /\ Len(b) <= ReadLimit
<1>1. PICK l \in Nat : l = Len(b)
  BY LenProperties
<1>2. /\ l >= 8 /\ b[1] = 86 /\ b[2] = 76 /\ b[3] = 1 /\ validType(b[4]) /\ LengthMatches(b)
      /\ f = [type |-> b[4], flags |-> Uint16(b, 5), payload |-> Body(b, Uint16(b, 7))]
  BY <1>1, DecodeIs
<1>3. PICK n \in Nat : l = 8 + n /\ Uint16(b, 7) = n
  BY <1>1, <1>2 DEF LengthMatches, HeaderSize
<1>4. b[4] \in Byte /\ b[5] \in Byte /\ b[6] \in Byte /\ b[7] \in Byte /\ b[8] \in Byte
  BY <1>1, <1>2, ElementOfSeq
<1>5. n <= 65535 /\ Upper(n) = b[7] /\ Lower(n) = b[8]
  <2>1. PICK h \in Byte, low \in Byte : h = b[7] /\ low = b[8]
    BY <1>4
  <2>2. n = 256 * h + low
    BY <1>3, <2>1 DEF Uint16
  <2>3. QED
    BY <2>1, <2>2, PutOfUint16
<1>6. PICK flags \in Nat : /\ flags = Uint16(b, 5) /\ flags <= 65535
                           /\ Upper(flags) = b[5] /\ Lower(flags) = b[6]
  <2>1. PICK h \in Byte, low \in Byte : h = b[5] /\ low = b[6]
    BY <1>4
  <2>2. PICK m : m = Uint16(b, 5)
    OBVIOUS
  <2>3. m = 256 * h + low
    BY <2>1, <2>2 DEF Uint16
  <2>4. m \in Nat /\ m <= 65535 /\ Upper(m) = h /\ Lower(m) = low
    BY <2>3, PutOfUint16
  <2>5. QED
    BY <2>1, <2>2, <2>4
<1>7. PICK p : p = Body(b, n)
  OBVIOUS
<1>8. p \in Seq(Byte) /\ Len(p) = n /\ \A i \in 1..n : p[i] = Behind(b, i)
  BY <1>1, <1>3, <1>7, BodyBytes
<1>9. f.type = b[4] /\ f.flags = flags /\ f.payload = p
  BY <1>2, <1>3, <1>6, <1>7
<1>10. validType(f.type) /\ Fits(f.payload)
  BY <1>2, <1>5, <1>8, <1>9 DEF Fits, MaxPacketSize
<1>11. PICK c \in Encode(b[4], flags, p) : Encode(b[4], flags, p) = {c} /\ c = Message(Header(b[4], flags, n), p)
  BY <1>8, <1>9, <1>10, EncodeIs
<1>12. Encoded(c, b[4], flags, p, n)
  <2>1. b[4] \in Byte /\ n = Len(p) /\ c = Message(Header(b[4], flags, n), p)
    BY <1>4, <1>8, <1>11
  <2>2. QED
    BY <1>5, <1>6, <1>8, <2>1, EncodedBytes
<1>13. c \in Seq(Byte) /\ Len(c) = 8 + n /\ \A i \in 1..n : Behind(c, i) = p[i]
  BY <1>12 DEF Encoded
<1>14. /\ c[1] = b[1] /\ c[2] = b[2] /\ c[3] = b[3] /\ c[4] = b[4]
       /\ c[5] = b[5] /\ c[6] = b[6] /\ c[7] = b[7] /\ c[8] = b[8]
  BY <1>2, <1>5, <1>6, <1>12 DEF Encoded, StartsWith
<1>15. \A i \in 1..n : c[8 + i] = b[8 + i]
  BY <1>8, <1>13 DEF Behind, HeaderSize
<1>16. c = b
  <2>1. ASSUME NEW i \in 1..(8 + n) PROVE c[i] = b[i]
    <3>1. CASE i > 8
      <4>1. PICK j \in 1..n : i = 8 + j
        BY <3>1
      <4>2. QED
        BY <1>15, <4>1
    <3>2. CASE i \in {1, 2, 3, 4}
      BY <1>14, <3>2
    <3>3. CASE i \in {5, 6, 7, 8}
      BY <1>14, <3>3
    <3>4. i > 8 \/ i \in {1, 2, 3, 4} \/ i \in {5, 6, 7, 8}
      OBVIOUS
    <3>5. QED
      BY <3>1, <3>2, <3>3, <3>4
  <2>2. QED
    BY <1>1, <1>3, <1>13, <2>1, SeqEqual
<1>17. Encode(f.type, f.flags, f.payload) = {b}
  BY <1>9, <1>11, <1>16
<1>18. Len(b) <= ReadLimit
  BY <1>1, <1>3, <1>5 DEF ReadLimit, MaxPacketSize, HeaderSize
<1>19. QED
  BY <1>8, <1>9, <1>17, <1>18
-----------------------------------------------------------------------------
(* What the header check accepts is well-formed. *)
LEMMA HighNibble ==
  \A x \in Byte : x \div 16 = 4 => x % 16 \in 0..15 /\ x = 64 + (x % 16)
BY DEF Byte

LEMMA HeaderChecked ==
  ASSUME NEW p \in Seq(Byte), NEW a \in IPv4SourceDestination(p)
  PROVE  WellFormed(p) /\ a.src = SubSeq(p, 13, 16) /\ a.dst = SubSeq(p, 17, 20)
<1>1. PICK n \in Nat : n = Len(p)
  BY LenProperties
<1>2. /\ n >= 20 /\ p[1] \div 16 = 4 /\ (p[1] % 16) * 4 >= 20 /\ (p[1] % 16) * 4 <= n
      /\ Uint16(p, 3) = n /\ a = [src |-> SubSeq(p, 13, 16), dst |-> SubSeq(p, 17, 20)]
  BY <1>1 DEF IPv4SourceDestination
<1>3. p[1] \in Byte /\ p[3] \in Byte /\ p[4] \in Byte
  BY <1>1, <1>2, ElementOfSeq
<1>4. PICK x \in Byte : x = p[1]
  BY <1>3
<1>5. PICK w \in 0..15 : w = x % 16 /\ x = 64 + w
  BY <1>2, <1>4, HighNibble
<1>6. w \in 5..15 /\ p[1] = 64 + w /\ 4 * w <= n
  <2>1. w * 4 >= 20 /\ w * 4 <= n
    BY <1>2, <1>4, <1>5
  <2>2. \A m \in 0..15 : m * 4 >= 20 => m \in 5..15 /\ 4 * m = m * 4
    OBVIOUS
  <2>3. QED
    BY <1>4, <1>5, <2>1, <2>2
<1>7. n = 256 * p[3] + p[4]
  BY <1>2 DEF Uint16
<1>8. WellFormed(p)
  BY <1>1, <1>2, <1>3, <1>6, <1>7 DEF WellFormed, Byte
<1>9. QED
  BY <1>2, <1>8

LEMMA MTUs == ServerMTU \in Nat /\ \A m \in ClientMTUs : m \in Nat
BY DatapathAssumption

LEMMA OfferedBytes == \A p : p \in Packets \/ p \in Controls \/ p \in Messages => p \in Seq(Byte)
BY DatapathAssumption

LEMMA FrameTypes ==
  \A f \in Frames : f \in [type : Byte, flags : Word, payload : Seq(Byte)]
BY DatapathAssumption

(* The inductive invariant: what was offered and sent is on the wire as the  *)
(* one frame that says so.                                                   *)
PathType ==
  /\ clientMTU \in Nat /\ way \in Way /\ stage \in {"idle", "tun", "wire", "done"}
  /\ packet \in Seq(Byte) /\ msg \in Seq(Byte)

OnTheWire ==
  stage = "wire" =>
    /\ origin # {} => Decode(msg) = origin
    /\ packet # <<>> =>
         /\ origin = {[type |-> TypeOf(way), flags |-> 0, payload |-> packet]}
         /\ Takes(packet)

PathInv ==
  /\ PathType /\ OnTheWire
  /\ stage # "done" => written = <<>>
  /\ stage \in {"idle", "tun"} => origin = {}
  /\ stage = "idle" => packet = <<>>
  /\ EndsAgree /\ OnlyOwnPackets

LEMMA WordsAreSmall == \A w \in Word : w \in Nat /\ w <= 65535
BY DEF Word

LEMMA TypesAreBytes ==
  ASSUME NEW w PROVE TypeOf(w) \in Byte
BY DEF TypeOf, TypeHello, TypeWelcome, TypePacket, Byte

LEMMA EffectiveMTU ==
  ASSUME PathInv PROVE effectiveMTU <= ServerMTU /\ effectiveMTU \in Nat
BY MTUs DEF PathInv, PathType, effectiveMTU, Least

LEMMA PathInit == Init => PathInv
<1> SUFFICES ASSUME Init PROVE PathInv
  OBVIOUS
<1>1. /\ clientMTU \in Nat /\ way = "up" /\ stage = "idle" /\ packet = <<>> /\ msg = <<>>
      /\ written = <<>> /\ origin = {}
  BY MTUs DEF Init
<1>2. PathType
  BY <1>1, EmptySeq DEF PathType, Way
<1>3. QED
  BY <1>1, <1>2 DEF PathInv, OnTheWire, EndsAgree, OnlyOwnPackets

LEMMA OfferKeeps == ASSUME PathInv, NEW w \in Way, NEW p, Offer(w, p) PROVE PathInv'
<1>1. /\ stage = "idle" /\ stage' = "tun" /\ way' = w /\ packet' = p
      /\ UNCHANGED <<clientMTU, msg, verdict, written, origin>>
      /\ p \in Packets \cup Controls
  BY DEF Offer
<1>2. p \in Seq(Byte)
  BY <1>1, OfferedBytes
<1>3. PathType'
  BY <1>1, <1>2 DEF PathInv, PathType
<1>4. QED
  BY <1>1, <1>3 DEF PathInv, OnTheWire, EndsAgree, OnlyOwnPackets

LEMMA SendKeeps == ASSUME PathInv, Send PROVE PathInv'
<1>1. /\ stage = "tun" /\ stage' = "wire" /\ Takes(packet)
      /\ msg' \in Encode(TypeOf(way), 0, packet)
      /\ origin' = {[type |-> TypeOf(way), flags |-> 0, payload |-> packet]}
      /\ UNCHANGED <<clientMTU, way, packet, verdict, written>>
  BY DEF Send
<1>2. packet \in Seq(Byte) /\ 0 \in Nat /\ 0 <= 65535
  BY DEF PathInv, PathType
<1>3. msg' \in Seq(Byte) /\ Decode(msg') = origin'
  BY <1>1, <1>2, TypesAreBytes, DecodeEncode
<1>4. PathType'
  BY <1>1, <1>3 DEF PathInv, PathType
<1>5. OnTheWire'
  BY <1>1, <1>3 DEF OnTheWire, Takes, ClientTakes, ServerTakes, effectiveMTU
<1>6. QED
  BY <1>1, <1>4, <1>5 DEF PathInv, EndsAgree, OnlyOwnPackets

LEMMA SendFrameKeeps == ASSUME PathInv, NEW w \in Way, NEW f \in Frames, SendFrame(w, f) PROVE PathInv'
<1>1. /\ stage = "idle" /\ stage' = "wire" /\ way' = w /\ origin' = {f}
      /\ msg' \in Encode(f.type, f.flags, f.payload)
      /\ UNCHANGED <<clientMTU, packet, verdict, written>>
  BY DEF SendFrame
<1>2. /\ f.type \in Byte /\ f.flags \in Nat /\ f.flags <= 65535 /\ f.payload \in Seq(Byte)
      /\ f = [type |-> f.type, flags |-> f.flags, payload |-> f.payload]
  BY FrameTypes, WordsAreSmall
<1>3. msg' \in Seq(Byte) /\ Decode(msg') = {[type |-> f.type, flags |-> f.flags, payload |-> f.payload]}
  BY <1>1, <1>2, DecodeEncode
<1>4. PathType'
  BY <1>1, <1>3 DEF PathInv, PathType
<1>5. OnTheWire'
  BY <1>1, <1>2, <1>3 DEF PathInv, OnTheWire
<1>6. QED
  BY <1>1, <1>4, <1>5 DEF PathInv, EndsAgree, OnlyOwnPackets

LEMMA SendBytesKeeps == ASSUME PathInv, NEW w \in Way, NEW b \in Messages, SendBytes(w, b) PROVE PathInv'
<1>1. /\ stage = "idle" /\ stage' = "wire" /\ way' = w /\ msg' = b
      /\ UNCHANGED <<clientMTU, packet, verdict, written, origin>>
  BY DEF SendBytes
<1>2. msg' \in Seq(Byte)
  BY <1>1, OfferedBytes
<1>3. PathType'
  BY <1>1, <1>2 DEF PathInv, PathType
<1>4. QED
  BY <1>1, <1>3 DEF PathInv, OnTheWire, EndsAgree, OnlyOwnPackets

LEMMA DropKeeps == ASSUME PathInv, Drop PROVE PathInv'
<1>1. /\ stage = "tun" /\ stage' = "done" /\ verdict' = "dropped"
      /\ UNCHANGED <<clientMTU, way, packet, msg, written, origin>>
  BY DEF Drop
<1>2. PathType'
  BY <1>1 DEF PathInv, PathType
<1>3. QED
  BY <1>1, <1>2 DEF PathInv, OnTheWire, EndsAgree, OnlyOwnPackets

(* A packet that was sent is one the receiver takes, if there is room. *)
LEMMA SentIsAccepted ==
  ASSUME PathInv, stage = "wire", packet # <<>>, way = "down" => Len(packet) <= effectiveMTU
  PROVE  /\ Decode(msg) = {[type |-> TypeOf(way), flags |-> 0, payload |-> packet]}
         /\ Accepted
<1>1. PICK f : f = [type |-> TypeOf(way), flags |-> 0, payload |-> packet]
  OBVIOUS
<1>2. Decode(msg) = {f} /\ Takes(packet) /\ f.type = TypeOf(way) /\ f.payload = packet
  BY <1>1 DEF PathInv, OnTheWire
<1>3. Len(msg) <= ReadLimit
  BY <1>2, EncodeDecode DEF PathInv, PathType
<1>4. PICK n \in Nat : n = Len(packet)
  BY LenProperties DEF PathInv, PathType
<1>5. CASE way = "up"
  <2>1. n <= effectiveMTU /\ \E a \in IPv4SourceDestination(packet) : a.src = Assigned
    BY <1>2, <1>4, <1>5 DEF Takes, ClientTakes
  <2>2. n <= ServerMTU
    <3>1. PICK e \in Nat : e = effectiveMTU
      BY EffectiveMTU
    <3>2. QED
      BY <2>1, <3>1, EffectiveMTU, MTUs
  <2>3. Accepts(packet)
    BY <1>4, <1>5, <2>1, <2>2 DEF Accepts, ServerAccepts
  <2>4. QED
    BY <1>1, <1>2, <1>3, <2>3 DEF Accepted
<1>6. CASE way = "down"
  <2>1. Accepts(packet)
    BY <1>2, <1>6 DEF Takes, ServerTakes, Accepts, ClientAccepts
  <2>2. QED
    BY <1>1, <1>2, <1>3, <2>1 DEF Accepted
<1>7. CASE way \in {"hello", "welcome"}
  <2>1. Accepts(packet)
    BY <1>2, <1>7 DEF Takes, Accepts
  <2>2. QED
    BY <1>1, <1>2, <1>3, <2>1 DEF Accepted
<1>8. QED
  BY <1>5, <1>6, <1>7 DEF PathInv, PathType, Way
LEMMA RejectKeeps == ASSUME PathInv, Reject PROVE PathInv'
<1>1. /\ stage = "wire" /\ stage' = "done" /\ ~Accepted
      /\ UNCHANGED <<clientMTU, way, packet, msg, written, origin>>
  BY DEF Reject
<1>2. effectiveMTU' = effectiveMTU
  BY <1>1 DEF effectiveMTU
<1>3. packet # <<>> => ~(way = "down" => Len(packet) <= effectiveMTU)
  BY <1>1, SentIsAccepted
<1>4. EndsAgree'
  BY <1>1, <1>2, <1>3 DEF EndsAgree
<1>5. PathType'
  BY <1>1 DEF PathInv, PathType
<1>6. QED
  BY <1>1, <1>4, <1>5 DEF PathInv, OnTheWire, OnlyOwnPackets

LEMMA DeliverKeeps == ASSUME PathInv, Deliver PROVE PathInv'
<1>1. /\ stage = "wire" /\ stage' = "done" /\ Accepted
      /\ UNCHANGED <<clientMTU, way, packet, msg, origin>>
  BY DEF Deliver
<1>2. effectiveMTU' = effectiveMTU
  BY <1>1 DEF effectiveMTU
<1>3. PICK f : f \in Decode(msg) /\ written' = f.payload
  BY DEF Deliver
<1>4. Decode(msg) = {f}
  BY <1>3, DecodeIs
<1>5. EndsAgree'
  <2>1. ASSUME packet # <<>>, way = "down" => Len(packet) <= effectiveMTU
        PROVE  written' = packet
    <3>1. f \in {[type |-> TypeOf(way), flags |-> 0, payload |-> packet]}
      BY <1>1, <1>3, <2>1, SentIsAccepted
    <3>2. QED
      BY <1>3, <3>1
  <2>2. QED
    BY <1>1, <1>2, <2>1 DEF EndsAgree
<1>6. f.payload \in Seq(Byte) /\ Accepts(f.payload)
  <2>1. f.payload \in Seq(Byte)
    BY <1>3, EncodeDecode DEF PathInv, PathType
  <2>2. QED
    BY <1>1, <1>4, <2>1 DEF Accepted
<1>7. OnlyOwnPackets'
  <2>1. CASE way = "up"
    <3>1. PICK a \in IPv4SourceDestination(f.payload) : a.src = Assigned /\ Len(f.payload) <= ServerMTU
      BY <1>6, <2>1 DEF Accepts, ServerAccepts
    <3>2. WellFormed(f.payload) /\ SubSeq(f.payload, 13, 16) = Assigned
      BY <1>6, <3>1, HeaderChecked
    <3>3. QED
      BY <1>1, <1>2, <1>3, <2>1, <3>1, <3>2 DEF OnlyOwnPackets
  <2>2. CASE way = "down"
    <3>1. PICK a \in IPv4SourceDestination(f.payload) : a.dst = Assigned /\ Len(f.payload) <= effectiveMTU
      BY <1>6, <2>2 DEF Accepts, ClientAccepts
    <3>2. WellFormed(f.payload) /\ SubSeq(f.payload, 17, 20) = Assigned
      BY <1>6, <3>1, HeaderChecked
    <3>3. QED
      BY <1>1, <1>2, <1>3, <2>2, <3>1, <3>2 DEF OnlyOwnPackets
  <2>3. CASE way \notin {"up", "down"}
    BY <1>1, <2>3 DEF OnlyOwnPackets
  <2>4. QED
    BY <2>1, <2>2, <2>3
<1>8. PathType'
  BY <1>1 DEF PathInv, PathType
<1>9. QED
  BY <1>1, <1>5, <1>7, <1>8 DEF PathInv, OnTheWire

LEMMA NextMessageKeeps == ASSUME PathInv, NextMessage PROVE PathInv'
<1>1. /\ stage' = "idle" /\ way' = "up" /\ packet' = <<>> /\ msg' = <<>> /\ written' = <<>>
      /\ origin' = {} /\ clientMTU' = clientMTU
  BY DEF NextMessage
<1>2. PathType'
  BY <1>1, EmptySeq DEF PathInv, PathType, Way
<1>3. QED
  BY <1>1, <1>2 DEF PathInv, OnTheWire, EndsAgree, OnlyOwnPackets

LEMMA PathNext == PathInv /\ [Next]_vars => PathInv'
<1> SUFFICES ASSUME PathInv, [Next]_vars PROVE PathInv'
  OBVIOUS
<1>1. CASE \E w \in Way : \/ \E p \in Packets \cup Controls : Offer(w, p)
                          \/ \E f \in Frames : SendFrame(w, f)
                          \/ \E b \in Messages : SendBytes(w, b)
  BY <1>1, OfferKeeps, SendFrameKeeps, SendBytesKeeps
<1>2. CASE Send \/ Drop \/ Deliver \/ Reject \/ NextMessage
  BY <1>2, SendKeeps, DropKeeps, DeliverKeeps, RejectKeeps, NextMessageKeeps
<1>3. CASE UNCHANGED vars
  <2>1. UNCHANGED <<clientMTU, way, stage, packet, msg, verdict, written, origin>>
    BY <1>3 DEF vars
  <2>2. PathType' /\ OnTheWire'
    BY <2>1 DEF PathInv, PathType, OnTheWire, Takes, ClientTakes, ServerTakes, effectiveMTU
  <2>3. EndsAgree' /\ OnlyOwnPackets'
    BY <2>1 DEF PathInv, EndsAgree, OnlyOwnPackets, effectiveMTU
  <2>4. QED
    BY <2>1, <2>2, <2>3 DEF PathInv
<1>4. QED
  BY <1>1, <1>2, <1>3 DEF Next

LEMMA PathInvariant == Spec => []PathInv
BY PathInit, PathNext, PTL DEF Spec

(* Decode undoes Encode and accepts nothing but the one encoding of a frame, *)
(* for every type, all flags and payloads of any length: the two length      *)
(* bytes are exact up to the limit that Encode checks.                       *)
THEOREM EncodingIsUnique == Spec => []OneEncoding
<1>1. PathInv => OneEncoding
  <2> SUFFICES ASSUME PathInv, stage = "wire"
               PROVE  /\ origin # {} => Decode(msg) = origin
                      /\ \A f \in Decode(msg) :
                           Encode(f.type, f.flags, f.payload) = {msg} /\ Len(msg) <= ReadLimit
    BY DEF OneEncoding
  <2>1. origin # {} => Decode(msg) = origin
    BY DEF PathInv, OnTheWire
  <2>2. \A f \in Decode(msg) :
          Encode(f.type, f.flags, f.payload) = {msg} /\ Len(msg) <= ReadLimit
    BY EncodeDecode DEF PathInv, PathType
  <2>3. QED
    BY <2>1, <2>2
<1>2. QED
  BY <1>1, PathInvariant, PTL

(* Each end accepts what the other one sends, whatever the two MTUs: the     *)
(* smaller one bounds what readTun takes, and the server's own bounds what   *)
(* tunnel accepts.                                                           *)
THEOREM TheEndsAgree == Spec => []EndsAgree
<1>1. PathInv => EndsAgree
  BY DEF PathInv
<1>2. QED
  BY <1>1, PathInvariant, PTL

(* Whatever byte strings a peer sends, only well-formed IPv4 packets with    *)
(* the address of the session get to a TUN, and none above the MTU.          *)
THEOREM OnlyOwnPacketsPass == Spec => []OnlyOwnPackets
<1>1. PathInv => OnlyOwnPackets
  BY DEF PathInv
<1>2. QED
  BY <1>1, PathInvariant, PTL
==============================================================================
