------------------------------- MODULE Config -------------------------------
(***************************************************************************)
(* internal/config/config.go and internal/auth: loading, defaults and      *)
(* validation of the two configuration files, as operators.                *)
(*                                                                         *)
(* An IPv4 address is its number, "unset" and "bad" values of it are the   *)
(* negative numbers Unset and Bad; a prefix is a record of base and bits.  *)
(* A string whose text is checked is "unset", "good" or "bad", a duration  *)
(* is in milliseconds and 0 when unset.  A token hash is the digest it     *)
(* spells and the way it spells it: hexadecimal digits have two cases.     *)
(***************************************************************************)
EXTENDS Integers, Sequences

Unset == -1
Bad   == -2

IP(a, b, c, d) == a * 2^24 + b * 2^16 + c * 2^8 + d

DefaultNetwork == [base |-> IP(10, 77, 0, 0), bits |-> 24]
DefaultGateway == IP(10, 77, 0, 1)

ServerPerm == {"user_read", "user_write", "group_read"}
ClientPerm == {"user_read", "user_write"}

(* loadStrict: opened, mode within the limit except on Windows, where it is  *)
(* not looked at, no unknown field or value that does not decode, exactly    *)
(* one document.  exists stands for a file that can be opened and its mode   *)
(* read.                                                                     *)
loadStrict(file, maxPerm) ==
  /\ file.exists
  /\ file.goos # "windows" => file.perm \subseteq maxPerm
  /\ file.decodes /\ file.documents = 1

Default(value, unset, default) == IF value = unset THEN default ELSE value

applyServerDefaults(c) ==
  [c EXCEPT
    !.listen = Default(@, "unset", "good"), !.metrics = Default(@, "unset", "good"),
    !.path = Default(@, "unset", "good"), !.interface = Default(@, "unset", "good"),
    !.network = IF @.base = Unset THEN DefaultNetwork ELSE @,
    !.gateway = Default(@, Unset, DefaultGateway),
    !.mtu = Default(@, 0, 1280), !.max = Default(@, 0, 256),
    !.handshake = Default(@, 0, 10000), !.idle = Default(@, 0, 90000),
    !.log = Default(@, "unset", "good")]

applyClientDefaults(c) ==
  [c EXCEPT
    !.interface = Default(@, "unset", "good"), !.mtu = Default(@, 0, 1280),
    !.dial = Default(@, 0, 15000), !.keepalive = Default(@, 0, 25000),
    !.reconnect = Default(@, 0, 3000), !.log = Default(@, "unset", "good")]
-----------------------------------------------------------------------------
(* netip.Prefix and netip.Addr *)

HostBits(p)    == 32 - p.bits
Masked(p)      == p.base - (p.base % 2^HostBits(p))
Contains(p, a) == a - (a % 2^HostBits(p)) = Masked(p)

IsPrivate(a) ==
  \/ a \div 2^24 = 10
  \/ a \div 2^20 = 172 * 16 + 1
  \/ a \div 2^16 = 192 * 256 + 168

Parsed(p) == p.base >= 0

isNetworkOrBroadcast_OffByOne(p, a) == a = Masked(p) \/ a = Masked(p) + 2^HostBits(p)

(* v |= mask sets the host bits of the masked base. *)
isNetworkOrBroadcast(p, a) == a = Masked(p) \/ a = Masked(p) + (2^HostBits(p) - 1)

networkValid(p) ==
  Parsed(p) /\ IsPrivate(p.base) /\ p.bits \in 16..30 /\ p.base = Masked(p)

gatewayValid(c) == c.gateway >= 0 /\ (Parsed(c.network) => Contains(c.network, c.gateway))

mtuValid(n) == 576 <= n /\ n <= 1500

(* Server.Validate before its loop over the clients. *)
scalarsValid(c) ==
  /\ {c.listen, c.metrics, c.path, c.interface} = {"good"}
  /\ networkValid(c.network) /\ gatewayValid(c)
  /\ mtuValid(c.mtu) /\ 1 <= c.max /\ c.max <= 65535
  /\ c.handshake >= 1000 /\ c.idle >= 10000

(* What the loop checks of a client's address, besides that it is new. *)
addressValid(c, a) ==
  /\ a >= 0
  /\ Parsed(c.network) => Contains(c.network, a) /\ ~isNetworkOrBroadcast(c.network, a)
  /\ a # c.gateway

(* auth.ParseHash: the digest, or no value. *)
ParseHash(h) == IF h.case = "bad" THEN {} ELSE {h.digest}

(* Client.Validate, with auth.Validate for the token. *)
clientValid(c) ==
  /\ {c.url, c.token, c.interface} = {"good"} /\ c.dns # "bad"
  /\ mtuValid(c.mtu)
  /\ c.dial >= 1000 /\ c.keepalive >= 5000 /\ c.reconnect >= 1000
=============================================================================
