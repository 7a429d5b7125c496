--------------------------- MODULE SessionRegistry ---------------------------
(***************************************************************************)
(* What the session registry promises (core/hub.go), with every operation  *)
(* atomic: an address has at most one owner, a newcomer takes the address  *)
(* and evicts the owner in the same step, a session gives back only what   *)
(* it still owns, and count is the number of owned addresses.  Hub, whose  *)
(* Register spreads these effects over several steps, implements it.       *)
(***************************************************************************)
EXTENDS Integers, FiniteSets

CONSTANTS Session, Addr, AddrOf, MaxPeers, None

VARIABLES
  owner,      \* the session that owns each address
  stage,      \* where each session is in its life
  evicted,    \* sessions that have been told to stop
  count       \* number of owned addresses

vars == <<owner, stage, evicted, count>>

Owned == {a \in Addr : owner[a] # None}

Init ==
  /\ owner = [a \in Addr |-> None]
  /\ stage = [s \in Session |-> "new"]
  /\ evicted = {}
  /\ count = 0

Acquire(s) ==
  /\ stage[s] = "new"
  /\ \/ /\ owner[AddrOf[s]] # None
        /\ evicted' = evicted \cup {owner[AddrOf[s]]}
        /\ count' = count
     \/ /\ owner[AddrOf[s]] = None
        /\ count < MaxPeers
        /\ count' = count + 1
        /\ evicted' = evicted
  /\ owner' = [owner EXCEPT ![AddrOf[s]] = s]
  /\ stage' = [stage EXCEPT ![s] = "member"]

Refuse(s) ==
  /\ stage[s] = "new"
  /\ owner[AddrOf[s]] = None
  /\ count >= MaxPeers
  /\ stage' = [stage EXCEPT ![s] = "refused"]
  /\ UNCHANGED <<owner, evicted, count>>

Release(s) ==
  /\ stage[s] = "member"
  /\ \/ /\ owner[AddrOf[s]] = s
        /\ owner' = [owner EXCEPT ![AddrOf[s]] = None]
        /\ count' = count - 1
     \/ /\ owner[AddrOf[s]] # s
        /\ UNCHANGED <<owner, count>>
  /\ stage' = [stage EXCEPT ![s] = "gone"]
  /\ UNCHANGED evicted

(* A session may be told to stop at any time, also for reasons of its own. *)
Evict(s) ==
  /\ evicted' = evicted \cup {s}
  /\ UNCHANGED <<owner, stage, count>>

Next == \E s \in Session : Acquire(s) \/ Refuse(s) \/ Release(s) \/ Evict(s)

Spec == Init /\ [][Next]_vars
==============================================================================
