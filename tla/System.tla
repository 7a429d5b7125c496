------------------------------- MODULE System -------------------------------
(***************************************************************************)
(* One client and the server's handlers of all its connections, the old    *)
(* ones included, with the session registry between them.  Client.Run      *)
(* holds one connection at a time and starts the next when it has given up *)
(* the last; the server learns of that later, or not before a timeout, and *)
(* may still be reading the HELLO of a connection that was given up.       *)
(*                                                                         *)
(* Client and Server have the goroutines behind each step; here a handler  *)
(* is where it is in tunnel, and the registry is the atomic one Hub        *)
(* implements (SessionRegistry).  A connection is a number that is used    *)
(* again once its handler has returned, so that behaviours do not end.     *)
(***************************************************************************)
EXTENDS Integers

CONSTANTS
  Conn,       \* connections of the client the server may hold at one time
  None,       \* no connection
  MaxPeers,   \* cfg.MaxClients; one other client competes for a place
  MaxFaults   \* bound: failures that may happen

ASSUME SystemAssumption ==
  None \notin Conn /\ MaxPeers \in Nat \ {0} /\ MaxFaults \in Nat

VARIABLES
  client,    \* where Client.Run is
  cur,       \* its connection
  handler,   \* where the handler of each connection is
  welcomed,  \* connections on which WELCOME has been sent
  owner,     \* the connection that is registered for the client's address
  evicted,   \* connections whose peer was cancelled by a later Register
  other,     \* the other client is registered
  cut,       \* connections on which nothing gets through any more
  faults     \* failures that have happened

vars == <<client, cur, handler, welcomed, owner, evicted, other, cut, faults>>

Init ==
  /\ client = "dial" /\ cur = None
  /\ handler = [k \in Conn |-> "off"] /\ welcomed = {}
  /\ owner = None /\ evicted = {} /\ other = FALSE
  /\ cut = {} /\ faults = 0

(* The client has closed its end. *)
GivenUp(k) == k # cur

Count == (IF owner = None THEN 0 ELSE 1) + (IF other THEN 1 ELSE 0)
-----------------------------------------------------------------------------
(* Client.Run *)

(* The dial is accepted: authenticate, websocket.Accept; HELLO is sent. *)
Dial(k) ==
  /\ client = "dial" /\ handler[k] = "off"
  /\ client' = "greet" /\ cur' = k
  /\ handler' = [handler EXCEPT ![k] = "hello"]
  /\ welcomed' = welcomed \ {k} /\ evicted' = evicted \ {k} /\ cut' = cut \ {k}
  /\ UNCHANGED <<owner, other, faults>>

Welcomed ==
  /\ client = "greet" /\ cur \in welcomed \ cut
  /\ client' = "session"
  /\ UNCHANGED <<cur, handler, welcomed, owner, evicted, other, cut, faults>>

GiveUp == client' = "pause" /\ cur' = None

(* The server has closed the connection, or nothing gets through and a read, *)
(* a write or a ping times out.                                              *)
ClientNotices ==
  /\ client \in {"greet", "session"}
  /\ handler[cur] = "off" \/ cur \in cut
  /\ GiveUp
  /\ UNCHANGED <<handler, welcomed, owner, evicted, other, cut, faults>>

Resume ==
  /\ client = "pause"
  /\ client' = "dial"
  /\ UNCHANGED <<cur, handler, welcomed, owner, evicted, other, cut, faults>>
-----------------------------------------------------------------------------
(* Server.tunnel *)

(* HELLO is read, also from a connection the client has given up since, and  *)
(* WELCOME is written.                                                       *)
Greet(k) ==
  /\ handler[k] = "hello"
  /\ handler' = [handler EXCEPT ![k] = "register"]
  /\ welcomed' = welcomed \cup {k}
  /\ UNCHANGED <<client, cur, owner, evicted, other, cut, faults>>

GreetFail(k) ==
  /\ handler[k] = "hello" /\ (GivenUp(k) \/ k \in cut)
  /\ handler' = [handler EXCEPT ![k] = "off"]
  /\ UNCHANGED <<client, cur, welcomed, owner, evicted, other, cut, faults>>

Register(k) ==
  /\ handler[k] = "register" /\ (owner # None \/ Count < MaxPeers)
  /\ owner' = k
  /\ evicted' = evicted \cup ({owner} \ {None})
  /\ handler' = [handler EXCEPT ![k] = "serve"]
  /\ UNCHANGED <<client, cur, welcomed, other, cut, faults>>

Refuse_ServesAnyway(k) ==
  /\ handler[k] = "register" /\ owner = None /\ Count >= MaxPeers
  /\ handler' = [handler EXCEPT ![k] = "serve"]
  /\ UNCHANGED <<client, cur, welcomed, owner, evicted, other, cut, faults>>

(* Capacity reached: after WELCOME the connection is closed. *)
Refuse(k) ==
  /\ handler[k] = "register" /\ owner = None /\ Count >= MaxPeers
  /\ handler' = [handler EXCEPT ![k] = "off"]
  /\ UNCHANGED <<client, cur, welcomed, owner, evicted, other, cut, faults>>

MustStop_IgnoresEviction(k) == GivenUp(k) \/ k \in cut

(* The loop ends: cancelled, the client's end is closed, or a timeout. *)
MustStop(k) == k \in evicted \/ GivenUp(k) \/ k \in cut

Stop(k) ==
  /\ handler[k] = "serve" /\ MustStop(k)
  /\ handler' = [handler EXCEPT ![k] = "leave"]
  /\ UNCHANGED <<client, cur, welcomed, owner, evicted, other, cut, faults>>

Leave_ByAddress(k) ==
  /\ handler[k] = "leave"
  /\ owner' = None
  /\ handler' = [handler EXCEPT ![k] = "off"]
  /\ UNCHANGED <<client, cur, welcomed, evicted, other, cut, faults>>

(* The deferred Unregister and CloseNow. *)
Leave(k) ==
  /\ handler[k] = "leave"
  /\ owner' = IF owner = k THEN None ELSE owner
  /\ handler' = [handler EXCEPT ![k] = "off"]
  /\ UNCHANGED <<client, cur, welcomed, evicted, other, cut, faults>>
-----------------------------------------------------------------------------
(* External: the other client, and what may go wrong. *)

OtherJoins ==
  /\ ~other /\ Count < MaxPeers
  /\ other' = TRUE
  /\ UNCHANGED <<client, cur, handler, welcomed, owner, evicted, cut, faults>>

OtherLeaves ==
  /\ other
  /\ other' = FALSE
  /\ UNCHANGED <<client, cur, handler, welcomed, owner, evicted, cut, faults>>

Fault == faults < MaxFaults /\ faults' = faults + 1

DialFail ==
  /\ client = "dial" /\ Fault
  /\ GiveUp
  /\ UNCHANGED <<handler, welcomed, owner, evicted, other, cut>>

(* The network drops what is on one connection and says nothing. *)
Cut(k) ==
  /\ handler[k] # "off" /\ k \notin cut /\ Fault
  /\ cut' = cut \cup {k}
  /\ UNCHANGED <<client, cur, handler, welcomed, owner, evicted, other>>

(* The dial timeout, 90 s without a packet from the server, or a restart of  *)
(* the client.                                                               *)
Abandon ==
  /\ client \in {"greet", "session"} /\ Fault
  /\ GiveUp
  /\ UNCHANGED <<handler, welcomed, owner, evicted, other, cut>>

(* The idle timeout: pings are not packets. *)
Idle(k) ==
  /\ handler[k] = "serve" /\ Fault
  /\ handler' = [handler EXCEPT ![k] = "leave"]
  /\ UNCHANGED <<client, cur, welcomed, owner, evicted, other, cut>>

ServerRestart ==
  /\ Fault
  /\ handler' = [k \in Conn |-> "off"]
  /\ owner' = None /\ other' = FALSE
  /\ UNCHANGED <<client, cur, welcomed, evicted, cut>>

ClientStep == (\E k \in Conn : Dial(k)) \/ Welcomed \/ ClientNotices \/ Resume

HandlerStep(k) ==
  Greet(k) \/ GreetFail(k) \/ Register(k) \/ Refuse(k) \/ Stop(k) \/ Leave(k)

Connected ==
  client = "session" /\ owner = cur /\ handler[cur] = "serve" /\ cur \notin evicted \cup cut

(* Nothing need happen while the tunnel is up. *)
Settled == Connected /\ UNCHANGED vars

Next ==
  \/ ClientStep \/ OtherJoins \/ OtherLeaves
  \/ DialFail \/ Abandon \/ ServerRestart
  \/ \E k \in Conn : HandlerStep(k) \/ Cut(k) \/ Idle(k)
  \/ Settled

Spec == Init /\ [][Next]_vars

(* Goroutines that can go on do; reads, writes and pings have timeouts, so   *)
(* each end of a connection that is cut or closed notices in the end.        *)
FairSpec == Spec /\ WF_vars(ClientStep) /\ \A k \in Conn : WF_vars(HandlerStep(k))
-----------------------------------------------------------------------------
(* The variables have their types, and a client that waits or talks has a    *)
(* connection.                                                               *)
TypeOK ==
  /\ client \in {"dial", "greet", "session", "pause"} /\ cur \in Conn \cup {None}
  /\ cur = None <=> client \in {"dial", "pause"}
  /\ handler \in [Conn -> {"off", "hello", "register", "serve", "leave"}]
  /\ welcomed \subseteq Conn /\ evicted \subseteq Conn /\ cut \subseteq Conn
  /\ owner \in Conn \cup {None} /\ other \in BOOLEAN /\ faults \in 0..MaxFaults

(* No handler serves a client nobody can reach: while the handler of any     *)
(* connection is in its loop and has not been cancelled, packets for the     *)
(* address go to it.  Handlers of given-up connections that register late or *)
(* unregister late must not take the address away for good                   *)
(* (server.go:204-208, hub.go:29-55).                                        *)
NoBlackHole ==
  \A k \in Conn : handler[k] = "serve" /\ k \notin evicted => owner = k

(* WELCOME says nothing about registration: a client that believes itself in *)
(* a session is reachable, or finds out that it is not, at capacity too.     *)
BlackHoleEnds == client = "session" ~> (client # "session" \/ Connected)

(* The client and the server find together: after the last failure, and when *)
(* the competitor at last leaves the place it took, the client comes to be   *)
(* in a session that owns its address and stays in it, whatever old          *)
(* connections, late handlers and evictions the failures left behind         *)
(* (client.go:66-123, server.go:148-247).                                    *)
Converges == <>[](~other) => <>[]Connected
=============================================================================
