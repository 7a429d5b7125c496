--------------------------------- MODULE Hub ---------------------------------
(***************************************************************************)
(* The session registry of internal/core/hub.go, at the granularity of its *)
(* lock: what a method does while it holds h.mu is one step, what it does  *)
(* after the unlock is a step of its own, so that the other goroutines can *)
(* run in between.                                                         *)
(*                                                                         *)
(* A Session is one *core.Peer: one run of the tunnel handler, which calls *)
(* Register at most once and Unregister at most once after Register        *)
(* returned true.  Dispatch is called by one goroutine, the TUN pump       *)
(* (packetLoop); CloseAll is called once, by Server.Run.                   *)
(***************************************************************************)
EXTENDS Integers, Sequences, FiniteSets

CONSTANTS
  Session,     \* the peers the handlers create
  Addr,        \* tunnel addresses
  AddrOf,      \* the address of each session (identity.addr of its token)
  MaxPeers,    \* Hub.max, cfg.MaxClients
  QueueCap,    \* capacity of Peer.Send (256 in the code)
  Packet,      \* packets: records with at least id (the number of the TUN read) and dst
  None         \* the nil *Peer

ASSUME HubAssumption ==
  /\ IsFiniteSet(Session) /\ IsFiniteSet(Addr)
  /\ AddrOf \in [Session -> Addr]
  /\ None \notin Session
  /\ MaxPeers \in Nat \ {0}
  /\ QueueCap \in Nat \ {0}
  /\ \A p \in Packet : p.id \in Nat \ {0} /\ p.dst \in Addr

VARIABLES
  peers,           \* Hub.peers
  hub,             \* where each session's handler is in its calls of the hub
  old,             \* Register's local variable old
  cancelled,       \* sessions whose peer context is cancelled
  sendq,           \* Peer.Send, the packets queued for each session
  received,        \* ghost: the packets taken out of Peer.Send, in order
  disp,            \* Dispatch after its lookup: the peer it found and the packet
  lastId,          \* ghost: number of calls of Dispatch
  closing,         \* CloseAll's slice of peers still to be cancelled
  closed,          \* CloseAll has taken its snapshot
  ActiveSessions, Accepted, Dropped    \* metrics.Counters

registryVars == <<peers, hub, old, ActiveSessions, Accepted>>
queueVars    == <<sendq, received, disp, lastId, Dropped>>
closeVars    == <<closing, closed>>
hubVars      == <<registryVars, cancelled, queueVars, closeVars>>

Idle == [peer |-> None]

HubPhase == {"out", "installed", "counted", "in", "refused", "left"}

Member(s) == hub[s] \in {"installed", "counted", "in"}

Occupied == {a \in Addr : peers[a] # None}

HubInit ==
  /\ peers = [a \in Addr |-> None]
  /\ hub = [s \in Session |-> "out"]
  /\ old = [s \in Session |-> None]
  /\ cancelled = {}
  /\ sendq = [s \in Session |-> <<>>]
  /\ received = [s \in Session |-> <<>>]
  /\ disp = Idle
  /\ lastId = 0
  /\ closing = {}
  /\ closed = FALSE
  /\ ActiveSessions = 0 /\ Accepted = 0 /\ Dropped = 0
-----------------------------------------------------------------------------
(* Register: the map is full and the address is not one of its keys. *)
NoRoom(s) == peers[AddrOf[s]] = None /\ Cardinality(Occupied) >= MaxPeers

RegisterRefuse(s) ==
  /\ hub[s] = "out"
  /\ NoRoom(s)
  /\ hub' = [hub EXCEPT ![s] = "refused"]
  /\ UNCHANGED <<peers, old, ActiveSessions, Accepted, cancelled, queueVars, closeVars>>

(* The critical section of a Register that succeeds. *)
RegisterInstall(s) ==
  /\ hub[s] = "out"
  /\ ~NoRoom(s)
  /\ old' = [old EXCEPT ![s] = peers[AddrOf[s]]]
  /\ peers' = [peers EXCEPT ![AddrOf[s]] = s]
  /\ hub' = [hub EXCEPT ![s] = "installed"]
  /\ UNCHANGED <<ActiveSessions, Accepted, cancelled, queueVars, closeVars>>

RegisterEffect_NoCancel(s) ==
  /\ hub[s] = "installed"
  /\ ActiveSessions' = IF old[s] = None THEN ActiveSessions + 1 ELSE ActiveSessions
  /\ old' = [old EXCEPT ![s] = None]
  /\ hub' = [hub EXCEPT ![s] = "counted"]
  /\ UNCHANGED <<peers, Accepted, cancelled, queueVars, closeVars>>

(* After the unlock: cancel the session that was replaced, or count a new one. *)
RegisterEffect(s) ==
  /\ hub[s] = "installed"
  /\ IF old[s] # None
     THEN cancelled' = cancelled \cup {old[s]} /\ UNCHANGED ActiveSessions
     ELSE ActiveSessions' = ActiveSessions + 1 /\ UNCHANGED cancelled
  /\ old' = [old EXCEPT ![s] = None]
  /\ hub' = [hub EXCEPT ![s] = "counted"]
  /\ UNCHANGED <<peers, Accepted, queueVars, closeVars>>

RegisterReturn(s) ==
  /\ hub[s] = "counted"
  /\ Accepted' = Accepted + 1
  /\ hub' = [hub EXCEPT ![s] = "in"]
  /\ UNCHANGED <<peers, old, ActiveSessions, cancelled, queueVars, closeVars>>

IsCurrent_AnyPeer(s) == peers[AddrOf[s]] # None

(* Unregister's pointer comparison: the map still holds this very peer. *)
IsCurrent(s) == peers[AddrOf[s]] = s

Unregister(s) ==
  /\ hub[s] = "in"
  /\ IF IsCurrent(s)
     THEN /\ peers' = [peers EXCEPT ![AddrOf[s]] = None]
          /\ ActiveSessions' = ActiveSessions - 1
     ELSE UNCHANGED <<peers, ActiveSessions>>
  /\ hub' = [hub EXCEPT ![s] = "left"]
  /\ UNCHANGED <<old, Accepted, cancelled, queueVars, closeVars>>

(* The peer's own context ends: its handler calls peerCancel, or a parent   *)
(* context is cancelled.                                                    *)
Cancel(s) ==
  /\ cancelled' = cancelled \cup {s}
  /\ UNCHANGED <<registryVars, queueVars, closeVars>>
-----------------------------------------------------------------------------
DispatchLookup_AnyMember(p) ==
  /\ disp = Idle
  /\ p.id = lastId + 1
  /\ lastId' = p.id
  /\ LET found == {s \in Session : Member(s) /\ AddrOf[s] = p.dst}
     IN  \/ found = {} /\ Dropped' = Dropped + 1 /\ UNCHANGED disp
         \/ \E s \in found : disp' = [peer |-> s, packet |-> p] /\ UNCHANGED Dropped
  /\ UNCHANGED <<registryVars, cancelled, sendq, received, closeVars>>

(* Dispatch looks the destination up under the read lock. *)
DispatchLookup(p) ==
  /\ disp = Idle
  /\ p.id = lastId + 1
  /\ lastId' = p.id
  /\ IF peers[p.dst] = None
     THEN Dropped' = Dropped + 1 /\ UNCHANGED disp
     ELSE disp' = [peer |-> peers[p.dst], packet |-> p] /\ UNCHANGED Dropped
  /\ UNCHANGED <<registryVars, cancelled, sendq, received, closeVars>>

HasSpace_OffByOne(s) == Len(sendq[s]) <= QueueCap

HasSpace(s) == Len(sendq[s]) < QueueCap

Enqueue(q, p) == Append(q, p)

DispatchSend_SilentDrop ==
  /\ disp # Idle
  /\ sendq' = IF HasSpace(disp.peer)
               THEN [sendq EXCEPT ![disp.peer] = Enqueue(@, disp.packet)] ELSE sendq
  /\ disp' = Idle
  /\ UNCHANGED <<registryVars, cancelled, received, lastId, Dropped, closeVars>>

(* The select with a default: the send never blocks. *)
DispatchSend ==
  /\ disp # Idle
  /\ IF HasSpace(disp.peer)
     THEN /\ sendq' = [sendq EXCEPT ![disp.peer] = Enqueue(@, disp.packet)]
          /\ UNCHANGED Dropped
     ELSE Dropped' = Dropped + 1 /\ UNCHANGED sendq
  /\ disp' = Idle
  /\ UNCHANGED <<registryVars, cancelled, received, lastId, closeVars>>

(* The other end of Peer.Send: the write loop of the session receives. *)
Receive(s) ==
  /\ hub[s] \in {"in", "left"}
  /\ sendq[s] # <<>>
  /\ received' = [received EXCEPT ![s] = Append(@, Head(sendq[s]))]
  /\ sendq' = [sendq EXCEPT ![s] = Tail(@)]
  /\ UNCHANGED <<registryVars, cancelled, disp, lastId, Dropped, closeVars>>
-----------------------------------------------------------------------------
(* CloseAll copies the map under the read lock and cancels the copies. *)
CloseAllSnapshot ==
  /\ ~closed
  /\ closed' = TRUE
  /\ closing' = {peers[a] : a \in Occupied}
  /\ UNCHANGED <<registryVars, cancelled, queueVars>>

CloseAllCancel(s) ==
  /\ s \in closing
  /\ cancelled' = cancelled \cup {s}
  /\ closing' = closing \ {s}
  /\ UNCHANGED <<registryVars, queueVars, closed>>
-----------------------------------------------------------------------------
HubSessionStep(s) ==
  \/ RegisterRefuse(s)
  \/ RegisterInstall(s)
  \/ RegisterEffect(s)
  \/ RegisterReturn(s)
  \/ Unregister(s)
  \/ Cancel(s)
  \/ Receive(s)
  \/ CloseAllCancel(s)

HubNext ==
  \/ \E s \in Session : HubSessionStep(s)
  \/ \E p \in Packet : DispatchLookup(p)
  \/ DispatchSend
  \/ CloseAllSnapshot

HubSpec == HubInit /\ [][HubNext]_hubVars
-----------------------------------------------------------------------------
(* Types, with the bound of the queues: Peer.Send never holds more than its *)
(* capacity (hub.go:66-72, server.go:203).                                  *)
HubTypeOK ==
  /\ peers \in [Addr -> Session \cup {None}]
  /\ hub \in [Session -> HubPhase]
  /\ old \in [Session -> Session \cup {None}]
  /\ cancelled \subseteq Session
  /\ sendq \in [Session -> Seq(Packet)]
  /\ \A s \in Session : Len(sendq[s]) <= QueueCap
  /\ received \in [Session -> Seq(Packet)]
  /\ disp = Idle \/ disp \in [peer : Session, packet : Packet]
  /\ lastId \in Nat
  /\ closing \subseteq Session
  /\ closed \in BOOLEAN
  /\ ActiveSessions \in Int /\ Accepted \in Nat /\ Dropped \in Nat

(* Sessions that Register has put in the map and has not counted yet. *)
Uncounted == {s \in Session : hub[s] = "installed" /\ old[s] = None}

(* The gauge ActiveSessions, updated outside the lock by Register and inside *)
(* it by Unregister, differs from the number of keys of the map exactly by   *)
(* the Register calls that are between their unlock and their Add(1)         *)
(* (hub.go:38-42, 50-53).  In particular it is exact when no Register is in  *)
(* that window, whatever replacements and departures happened.               *)
GaugeAccounting ==
  ActiveSessions + Cardinality(Uncounted) = Cardinality(Occupied)

(* The map never holds more than max peers (hub.go:33), although a           *)
(* replacement is admitted without looking at the limit.                     *)
WithinCapacity == Cardinality(Occupied) <= MaxPeers

(* No session is forgotten: one that is registered owns its address, or its  *)
(* context is cancelled, or the Register call that displaced it is about to  *)
(* cancel it (hub.go:37-41, 50): the handler of a displaced session is told  *)
(* to stop.                                                                  *)
NoOrphan ==
  \A s \in Session : Member(s) =>
    \/ peers[AddrOf[s]] = s
    \/ s \in cancelled
    \/ \E t \in Session : hub[t] = "installed" /\ old[t] = s

(* The routing table holds no dead entry: the peer stored for an address has *)
(* that address and has not left (hub.go:48-55), so Dispatch never finds a   *)
(* session whose Unregister has returned.                                    *)
RoutesAreLive ==
  \A a \in Addr : peers[a] # None => Member(peers[a]) /\ AddrOf[peers[a]] = a

(* What the map, the gauge and the contexts say of the sessions is           *)
(* consistent at every moment, however calls of Register, Unregister and     *)
(* CloseAll overlap (hub.go:29-55).                                          *)
RegistryInv == GaugeAccounting /\ WithinCapacity /\ NoOrphan /\ RoutesAreLive

Carried(s) == received[s] \o sendq[s]

(* A session gets its packets in the order in which they were read from the  *)
(* TUN, also when its registration changes between the lookup and the send   *)
(* of Dispatch (hub.go:57-73).                                               *)
InOrder ==
  \A s \in Session : \A i, j \in 1..Len(Carried(s)) :
    i < j => Carried(s)[i].id < Carried(s)[j].id

CarriedIds == UNION {{Carried(s)[i].id : i \in 1..Len(Carried(s))} : s \in Session}

InFlightIds == IF disp = Idle THEN {} ELSE {disp.packet.id}

(* Every packet given to Dispatch is either counted in Dropped, exactly      *)
(* once, or in exactly one session's queue (or already taken from it), or    *)
(* between lookup and send (hub.go:61-71): none is lost uncounted by the hub *)
(* and none is queued twice.                                                 *)
DispatchAccounting ==
  lastId = Dropped + Cardinality(CarriedIds \cup InFlightIds)

(* Dispatch hands packets on in order and without loss or duplication that   *)
(* it does not count.                                                        *)
DispatchCorrect == InOrder /\ DispatchAccounting

(* All that s carries was read from the TUN before all that t carries. *)
Before(s, t) ==
  \A i \in 1..Len(Carried(s)), j \in 1..Len(Carried(t)) : Carried(s)[i].id < Carried(t)[j].id

(* A replacement cuts the stream of packets for an address in two: of two    *)
(* sessions of one address, one gets only packets older than all that the    *)
(* other gets, and the session in the map gets the newest.  Dispatch sends   *)
(* after the unlock, to a peer that may have been replaced or have left in   *)
(* between (hub.go:58-67), so the old session can still be sent a packet     *)
(* when the new one is installed; no later packet may overtake that one.     *)
ReplacementSplitsStream ==
  \A s, t \in Session : s # t /\ AddrOf[s] = AddrOf[t] =>
    /\ Before(s, t) \/ Before(t, s)
    /\ peers[AddrOf[t]] = t => Before(s, t)

(* The sessions that are cancelled or will be by a Register in progress. *)
BeingEvicted == cancelled \cup {old[t] : t \in {u \in Session : hub[u] = "installed" /\ old[u] # None}}

Stage == [s \in Session |->
  IF Member(s) THEN "member"
  ELSE IF hub[s] = "out" THEN "new"
  ELSE IF hub[s] = "left" THEN "gone" ELSE hub[s]]

Registry == INSTANCE SessionRegistry WITH
  owner <- peers, stage <- Stage, evicted <- BeingEvicted,
  count <- ActiveSessions + Cardinality(Uncounted)

(* The registry is linearizable: although Register takes effect in several   *)
(* steps (hub.go:31-44), to its callers each call of Register and Unregister *)
(* happens at one instant, in its critical section.                          *)
ImplementsRegistry == Registry!Spec
==============================================================================
