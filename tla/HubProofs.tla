------------------------------ MODULE HubProofs ------------------------------
(***************************************************************************)
(* Proofs about Hub, for any number of sessions, addresses and packets and *)
(* any capacity: types, the registry's invariants, the order and the       *)
(* accounting of packets, and the refinement of SessionRegistry.           *)
(***************************************************************************)
EXTENDS Hub, FiniteSetTheorems, SequenceTheorems, TLAPS

LEMMA OccupiedFinite == IsFiniteSet(Occupied) /\ Cardinality(Occupied) \in Nat
BY HubAssumption, FS_Subset, FS_CardinalityType DEF Occupied

LEMMA UncountedFinite == IsFiniteSet(Uncounted) /\ Cardinality(Uncounted) \in Nat
BY HubAssumption, FS_Subset, FS_CardinalityType DEF Uncounted

-----------------------------------------------------------------------------
LEMMA HubInitTypeOK == HubInit => HubTypeOK
<1> SUFFICES ASSUME HubInit PROVE HubTypeOK
  OBVIOUS
<1> USE HubAssumption DEF HubInit
<1>1. /\ peers \in [Addr -> Session \cup {None}]
      /\ hub \in [Session -> HubPhase]
      /\ old \in [Session -> Session \cup {None}]
      /\ cancelled \subseteq Session
      /\ closing \subseteq Session
      /\ lastId \in Nat
      /\ ActiveSessions \in Int /\ Accepted \in Nat /\ Dropped \in Nat
  BY DEF HubPhase
<1>2. /\ sendq \in [Session -> Seq(Packet)]
      /\ \A s \in Session : Len(sendq[s]) <= QueueCap
      /\ received \in [Session -> Seq(Packet)]
  OBVIOUS
<1>3. closed \in BOOLEAN
  OBVIOUS
<1>4. QED
  BY <1>1, <1>2, <1>3 DEF HubTypeOK

LEMMA HubNextTypeOK == HubTypeOK /\ [HubNext]_hubVars => HubTypeOK'
<1> SUFFICES ASSUME HubTypeOK, [HubNext]_hubVars PROVE HubTypeOK'
  OBVIOUS
<1> USE HubAssumption DEF HubTypeOK, HubPhase
<1> USE DEF registryVars, queueVars, closeVars
<1>1. ASSUME NEW s \in Session, RegisterRefuse(s) PROVE HubTypeOK'
  BY <1>1 DEF RegisterRefuse
<1>2. ASSUME NEW s \in Session, RegisterInstall(s) PROVE HubTypeOK'
  BY <1>2 DEF RegisterInstall
<1>3. ASSUME NEW s \in Session, RegisterEffect(s) PROVE HubTypeOK'
  BY <1>3 DEF RegisterEffect
<1>4. ASSUME NEW s \in Session, RegisterReturn(s) PROVE HubTypeOK'
  BY <1>4 DEF RegisterReturn
<1>5. ASSUME NEW s \in Session, Unregister(s) PROVE HubTypeOK'
  <2>1. CASE IsCurrent(s)
    BY <1>5, <2>1 DEF Unregister
  <2>2. CASE ~IsCurrent(s)
    BY <1>5, <2>2 DEF Unregister
  <2>3. QED
    BY <2>1, <2>2
<1>6. ASSUME NEW s \in Session, Cancel(s) PROVE HubTypeOK'
  BY <1>6 DEF Cancel
<1>7. ASSUME NEW s \in Session, Receive(s) PROVE HubTypeOK'
  BY <1>7 DEF Receive
<1>8. ASSUME NEW s \in Session, CloseAllCancel(s) PROVE HubTypeOK'
  BY <1>8 DEF CloseAllCancel
<1>9. ASSUME NEW p \in Packet, DispatchLookup(p) PROVE HubTypeOK'
  BY <1>9 DEF DispatchLookup
<1>10. CASE DispatchSend
  <2>1. disp.peer \in Session /\ disp.packet \in Packet
    BY <1>10 DEF DispatchSend
  <2>2. CASE HasSpace(disp.peer)
    <3>1. sendq' = [sendq EXCEPT ![disp.peer] = Append(@, disp.packet)]
      BY <1>10, <2>2 DEF DispatchSend, Enqueue
    <3>2. sendq' \in [Session -> Seq(Packet)]
      BY <2>1, <3>1
    <3>3. \A s \in Session : Len(sendq'[s]) <= QueueCap
      BY <2>1, <2>2, <3>1 DEF HasSpace
    <3>4. QED
      BY <1>10, <2>2, <3>2, <3>3 DEF DispatchSend
  <2>3. CASE ~HasSpace(disp.peer)
    BY <1>10, <2>3 DEF DispatchSend
  <2>4. QED
    BY <2>2, <2>3
<1>11. CASE CloseAllSnapshot
  BY <1>11 DEF CloseAllSnapshot, Occupied
<1>12. CASE UNCHANGED hubVars
  BY <1>12 DEF hubVars
<1>13. QED
  BY <1>1, <1>2, <1>3, <1>4, <1>5, <1>6, <1>7, <1>8, <1>9, <1>10, <1>11, <1>12
  DEF HubNext, HubSessionStep

(* Type correctness of the registry and the bound of the queues. *)
THEOREM HubTypeCorrect == HubSpec => []HubTypeOK
BY HubInitTypeOK, HubNextTypeOK, PTL DEF HubSpec
-----------------------------------------------------------------------------
(* The registry: the conjunction RegistryInv of the four invariants is       *)
(* inductive once the types are known.                                       *)

(* A step that leaves the registry and the set of cancelled sessions alone,  *)
(* or only adds to the latter, preserves the registry invariants.            *)
LEMMA RegistryUntouched ==
  ASSUME RegistryInv, UNCHANGED registryVars, cancelled \subseteq cancelled'
  PROVE  RegistryInv'
<1> USE DEF registryVars
<1>1. Occupied' = Occupied /\ Uncounted' = Uncounted
  BY DEF Occupied, Uncounted
<1>2. GaugeAccounting' /\ WithinCapacity'
  BY <1>1 DEF RegistryInv, GaugeAccounting, WithinCapacity
<1>3. NoOrphan' /\ RoutesAreLive'
  BY DEF RegistryInv, NoOrphan, RoutesAreLive, Member
<1>4. QED
  BY <1>2, <1>3 DEF RegistryInv

LEMMA RegistryInstall ==
  ASSUME HubTypeOK, RegistryInv, NEW s \in Session, RegisterInstall(s)
  PROVE  RegistryInv'
<1> DEFINE a == AddrOf[s]
<1> USE HubAssumption DEF HubTypeOK, HubPhase, RegisterInstall
<1>1. a \in Addr /\ s # None
  OBVIOUS
<1>2. Occupied' = Occupied \cup {a}
  BY <1>1 DEF Occupied
<1>3. Uncounted' = IF peers[a] = None THEN Uncounted \cup {s} ELSE Uncounted
  BY <1>1 DEF Uncounted
<1>4. s \notin Uncounted /\ (a \in Occupied <=> peers[a] # None)
  BY <1>1 DEF Uncounted, Occupied
<1>5. Cardinality(Occupied') = IF peers[a] = None THEN Cardinality(Occupied) + 1
                               ELSE Cardinality(Occupied)
  BY <1>2, <1>4, OccupiedFinite, FS_AddElement
<1>6. Cardinality(Uncounted') = IF peers[a] = None THEN Cardinality(Uncounted) + 1
                                ELSE Cardinality(Uncounted)
  BY <1>3, <1>4, UncountedFinite, FS_AddElement
<1>7. GaugeAccounting'
  BY <1>5, <1>6, OccupiedFinite, UncountedFinite DEF RegistryInv, GaugeAccounting
<1>8. WithinCapacity'
  BY <1>5, OccupiedFinite DEF RegistryInv, WithinCapacity, NoRoom
<1>9. NoOrphan'
  BY <1>1 DEF RegistryInv, NoOrphan, Member
<1>10. RoutesAreLive'
  BY <1>1 DEF RegistryInv, RoutesAreLive, Member
<1>11. QED
  BY <1>7, <1>8, <1>9, <1>10 DEF RegistryInv

LEMMA RegistryEffect ==
  ASSUME HubTypeOK, RegistryInv, NEW s \in Session, RegisterEffect(s)
  PROVE  RegistryInv'
<1> USE HubAssumption DEF HubTypeOK, HubPhase, RegisterEffect
<1>1. Occupied' = Occupied
  BY DEF Occupied
<1>2. Uncounted' = Uncounted \ {s} /\ (s \in Uncounted <=> old[s] = None)
  BY DEF Uncounted
<1>3. Cardinality(Uncounted') = IF old[s] = None THEN Cardinality(Uncounted) - 1
                                ELSE Cardinality(Uncounted)
  BY <1>2, UncountedFinite, FS_RemoveElement
<1>4. GaugeAccounting' /\ WithinCapacity'
  BY <1>1, <1>3, OccupiedFinite, UncountedFinite
  DEF RegistryInv, GaugeAccounting, WithinCapacity
<1>5. NoOrphan'
  BY DEF RegistryInv, NoOrphan, Member
<1>6. RoutesAreLive'
  BY DEF RegistryInv, RoutesAreLive, Member
<1>7. QED
  BY <1>4, <1>5, <1>6 DEF RegistryInv

LEMMA RegistryUnregister ==
  ASSUME HubTypeOK, RegistryInv, NEW s \in Session, Unregister(s)
  PROVE  RegistryInv'
<1> DEFINE a == AddrOf[s]
<1> USE HubAssumption DEF HubTypeOK, HubPhase
<1>1. a \in Addr /\ s # None
  OBVIOUS
<1>2. Uncounted' = Uncounted
  BY DEF Unregister, Uncounted
<1>3. CASE IsCurrent(s)
  <2>1. /\ peers' = [peers EXCEPT ![a] = None]
        /\ ActiveSessions' = ActiveSessions - 1
        /\ hub' = [hub EXCEPT ![s] = "left"]
        /\ peers[a] = s /\ old' = old /\ cancelled' = cancelled
    BY <1>3 DEF Unregister, IsCurrent
  <2>2. Occupied' = Occupied \ {a} /\ a \in Occupied
    BY <1>1, <2>1 DEF Occupied
  <2>3. Cardinality(Occupied') = Cardinality(Occupied) - 1
    BY <2>2, OccupiedFinite, FS_RemoveElement
  <2>4. GaugeAccounting' /\ WithinCapacity'
    BY <1>2, <2>1, <2>3, OccupiedFinite, UncountedFinite
    DEF RegistryInv, GaugeAccounting, WithinCapacity
  <2>5. NoOrphan'
    BY <1>1, <2>1 DEF RegistryInv, NoOrphan, Member, Unregister
  <2>6. RoutesAreLive'
    BY <1>1, <2>1 DEF RegistryInv, RoutesAreLive, Member
  <2>7. QED
    BY <2>4, <2>5, <2>6 DEF RegistryInv
<1>4. CASE ~IsCurrent(s)
  <2>1. /\ peers' = peers /\ ActiveSessions' = ActiveSessions
        /\ hub' = [hub EXCEPT ![s] = "left"]
        /\ peers[a] # s /\ old' = old /\ cancelled' = cancelled
    BY <1>4 DEF Unregister, IsCurrent
  <2>2. Occupied' = Occupied
    BY <2>1 DEF Occupied
  <2>3. GaugeAccounting' /\ WithinCapacity'
    BY <1>2, <2>1, <2>2 DEF RegistryInv, GaugeAccounting, WithinCapacity
  <2>4. NoOrphan'
    BY <1>1, <2>1 DEF RegistryInv, NoOrphan, Member, Unregister
  <2>5. RoutesAreLive'
    BY <1>1, <2>1 DEF RegistryInv, RoutesAreLive, Member
  <2>6. QED
    BY <2>3, <2>4, <2>5 DEF RegistryInv
<1>5. QED
  BY <1>3, <1>4

LEMMA RegistryRefuseReturn ==
  ASSUME HubTypeOK, RegistryInv, NEW s \in Session,
         RegisterRefuse(s) \/ RegisterReturn(s)
  PROVE  RegistryInv'
<1> USE HubAssumption DEF HubTypeOK, HubPhase
<1>1. Occupied' = Occupied /\ Uncounted' = Uncounted
  BY DEF Occupied, Uncounted, RegisterRefuse, RegisterReturn
<1>2. GaugeAccounting' /\ WithinCapacity'
  BY <1>1 DEF RegistryInv, GaugeAccounting, WithinCapacity, RegisterRefuse, RegisterReturn
<1>3. /\ peers' = peers /\ old' = old /\ cancelled' = cancelled
      /\ \/ hub[s] = "out" /\ hub' = [hub EXCEPT ![s] = "refused"]
         \/ hub[s] = "counted" /\ hub' = [hub EXCEPT ![s] = "in"]
  BY DEF RegisterRefuse, RegisterReturn
<1>4. \A t \in Session : /\ Member(t)' <=> Member(t)
                         /\ hub[t] = "installed" <=> hub'[t] = "installed"
  BY <1>3 DEF Member
<1>5. NoOrphan'
  BY <1>3, <1>4 DEF RegistryInv, NoOrphan
<1>6. RoutesAreLive'
  <2> SUFFICES ASSUME NEW a \in Addr, peers[a] # None
               PROVE  Member(peers[a])' /\ AddrOf[peers[a]] = a
    BY <1>3 DEF RoutesAreLive
  <2>1. peers[a] \in Session /\ Member(peers[a]) /\ AddrOf[peers[a]] = a
    BY DEF RegistryInv, RoutesAreLive
  <2>2. hub'[peers[a]] \in {"installed", "counted", "in"}
    BY <2>1, <1>3 DEF Member
  <2>3. QED
    BY <2>1, <2>2, <1>3 DEF Member
<1>7. QED
  BY <1>2, <1>5, <1>6 DEF RegistryInv

LEMMA RegistryInit == HubInit => RegistryInv
<1> SUFFICES ASSUME HubInit PROVE RegistryInv
  OBVIOUS
<1> USE HubAssumption DEF HubInit
<1>1. Occupied = {} /\ Uncounted = {}
  BY DEF Occupied, Uncounted
<1>2. GaugeAccounting /\ WithinCapacity
  BY <1>1, FS_EmptySet DEF GaugeAccounting, WithinCapacity
<1>3. NoOrphan /\ RoutesAreLive
  BY DEF NoOrphan, RoutesAreLive, Member
<1>4. QED
  BY <1>2, <1>3 DEF RegistryInv

LEMMA RegistryNext == HubTypeOK /\ RegistryInv /\ [HubNext]_hubVars => RegistryInv'
<1> SUFFICES ASSUME HubTypeOK, RegistryInv, [HubNext]_hubVars PROVE RegistryInv'
  OBVIOUS
<1>1. ASSUME NEW s \in Session, RegisterRefuse(s) \/ RegisterReturn(s) PROVE RegistryInv'
  BY <1>1, RegistryRefuseReturn
<1>2. ASSUME NEW s \in Session, RegisterInstall(s) PROVE RegistryInv'
  BY <1>2, RegistryInstall
<1>3. ASSUME NEW s \in Session, RegisterEffect(s) PROVE RegistryInv'
  BY <1>3, RegistryEffect
<1>4. ASSUME NEW s \in Session, Unregister(s) PROVE RegistryInv'
  BY <1>4, RegistryUnregister
<1>5. ASSUME NEW s \in Session, Cancel(s) \/ Receive(s) \/ CloseAllCancel(s) PROVE RegistryInv'
  BY <1>5, RegistryUntouched DEF Cancel, Receive, CloseAllCancel
<1>6. ASSUME NEW p \in Packet, DispatchLookup(p) PROVE RegistryInv'
  BY <1>6, RegistryUntouched DEF DispatchLookup
<1>7. CASE DispatchSend \/ CloseAllSnapshot
  BY <1>7, RegistryUntouched DEF DispatchSend, CloseAllSnapshot
<1>8. CASE UNCHANGED hubVars
  BY <1>8, RegistryUntouched DEF hubVars
<1>9. QED
  BY <1>1, <1>2, <1>3, <1>4, <1>5, <1>6, <1>7, <1>8 DEF HubNext, HubSessionStep

(* The gauge, the capacity, the cancellation of displaced sessions and the   *)
(* liveness of the routing table (core/hub.go), for every instance.          *)
THEOREM RegistryCorrect == HubSpec => []RegistryInv
BY RegistryInit, RegistryNext, HubTypeCorrect, PTL DEF HubSpec
-----------------------------------------------------------------------------
(* Linearizability: under the mapping of Hub's ImplementsRegistry each       *)
(* critical section is the abstract operation and the steps after the unlock *)
(* change nothing.                                                           *)
LEMMA EvictedMembers ==
  \A x : x \in BeingEvicted <=>
          x \in cancelled \/ \E u \in Session : hub[u] = "installed" /\ old[u] # None /\ old[u] = x
BY DEF BeingEvicted

LEMMA StageUnchanged ==
  ASSUME \A t \in Session : \/ hub'[t] = hub[t]
                            \/ Member(t) /\ Member(t)'
  PROVE  Stage' = Stage
BY DEF Stage, Member

LEMMA RefineInit == HubInit => Registry!Init
<1> SUFFICES ASSUME HubInit PROVE Registry!Init
  OBVIOUS
<1> USE DEF HubInit
<1>1. Uncounted = {}
  BY DEF Uncounted
<1>2. ActiveSessions + Cardinality(Uncounted) = 0
  BY <1>1, FS_EmptySet
<1>3. BeingEvicted = {}
  BY EvictedMembers
<1>4. Stage = [s \in Session |-> "new"]
  BY DEF Stage, Member
<1>5. QED
  BY <1>2, <1>3, <1>4 DEF Registry!Init

LEMMA RefineStutter ==
  ASSUME RegistryInv, RegistryInv', peers' = peers, Stage' = Stage,
         BeingEvicted' = BeingEvicted
  PROVE  UNCHANGED Registry!vars
<1>1. Occupied' = Occupied
  BY DEF Occupied
<1>2. (ActiveSessions + Cardinality(Uncounted))' = ActiveSessions + Cardinality(Uncounted)
  BY <1>1 DEF RegistryInv, GaugeAccounting
<1>3. QED
  BY <1>2 DEF Registry!vars

LEMMA RefineInstall ==
  ASSUME HubTypeOK, RegistryInv, RegistryInv', NEW s \in Session, RegisterInstall(s)
  PROVE  Registry!Acquire(s)
<1> DEFINE a == AddrOf[s]
           n == ActiveSessions + Cardinality(Uncounted)
<1> USE HubAssumption DEF HubTypeOK, HubPhase
<1>1. /\ hub[s] = "out" /\ hub' = [hub EXCEPT ![s] = "installed"]
      /\ old' = [old EXCEPT ![s] = peers[a]]
      /\ peers' = [peers EXCEPT ![a] = s]
      /\ cancelled' = cancelled
      /\ a \in Addr /\ s # None /\ ~NoRoom(s)
  BY DEF RegisterInstall
<1>2. n = Cardinality(Occupied) /\ n' = Cardinality(Occupied')
  BY DEF RegistryInv, GaugeAccounting
<1>3. Occupied' = Occupied \cup {a} /\ (a \in Occupied <=> peers[a] # None)
  BY <1>1 DEF Occupied
<1>4. /\ peers[a] # None => n' = n
      /\ peers[a] = None => n' = n + 1 /\ n < MaxPeers
  <2>1. Cardinality(Occupied') = IF a \in Occupied THEN Cardinality(Occupied)
                                 ELSE Cardinality(Occupied) + 1
    BY <1>3, OccupiedFinite, FS_AddElement
  <2>2. peers[a] = None => Cardinality(Occupied) < MaxPeers
    BY <1>1, OccupiedFinite DEF NoRoom
  <2>3. QED
    BY <1>2, <1>3, <2>1, <2>2
<1>5. Stage[s] = "new" /\ Stage' = [Stage EXCEPT ![s] = "member"]
  BY <1>1 DEF Stage, Member
<1>6. CASE peers[a] # None
  <2>1. BeingEvicted' = BeingEvicted \cup {peers[a]}
    <3>1. \A x : x \in BeingEvicted' <=>
          x \in cancelled' \/ \E u \in Session : hub'[u] = "installed" /\ old'[u] # None /\ old'[u] = x
      BY DEF BeingEvicted
    <3>2. QED
      BY <1>1, <1>6, <3>1, EvictedMembers
  <2>2. QED
    BY <1>1, <1>4, <1>5, <1>6, <2>1 DEF Registry!Acquire
<1>7. CASE peers[a] = None
  <2>1. BeingEvicted' = BeingEvicted
    <3>1. \A x : x \in BeingEvicted' <=>
          x \in cancelled' \/ \E u \in Session : hub'[u] = "installed" /\ old'[u] # None /\ old'[u] = x
      BY DEF BeingEvicted
    <3>2. \A u \in Session : hub'[u] = "installed" /\ old'[u] # None
                            <=> hub[u] = "installed" /\ old[u] # None
      BY <1>1, <1>7
    <3>3. \A u \in Session : hub[u] = "installed" => old'[u] = old[u]
      BY <1>1
    <3>4. \A x : x \in BeingEvicted' <=> x \in BeingEvicted
      BY <1>1, <3>1, <3>2, <3>3, EvictedMembers
    <3>5. QED
      BY <3>4
  <2>2. QED
    BY <1>1, <1>4, <1>5, <1>7, <2>1 DEF Registry!Acquire
<1>8. QED
  BY <1>6, <1>7

LEMMA RefineUnregister ==
  ASSUME HubTypeOK, RegistryInv, RegistryInv', NEW s \in Session, Unregister(s)
  PROVE  Registry!Release(s)
<1> DEFINE a == AddrOf[s]
           n == ActiveSessions + Cardinality(Uncounted)
<1> USE HubAssumption DEF HubTypeOK, HubPhase
<1>1. /\ hub[s] = "in" /\ hub' = [hub EXCEPT ![s] = "left"]
      /\ old' = old /\ cancelled' = cancelled
      /\ a \in Addr /\ s # None
  BY DEF Unregister
<1>2. Stage[s] = "member" /\ Stage' = [Stage EXCEPT ![s] = "gone"]
  BY <1>1 DEF Stage, Member
<1>3. BeingEvicted' = BeingEvicted
  <2>1. \A u \in Session : hub'[u] = "installed" <=> hub[u] = "installed"
    BY <1>1
  <2>2. QED
    BY <1>1, <2>1 DEF BeingEvicted
<1>4. Uncounted' = Uncounted
  BY <1>1 DEF Uncounted
<1>5. CASE IsCurrent(s)
  <2>1. /\ peers' = [peers EXCEPT ![a] = None] /\ peers[a] = s
        /\ ActiveSessions' = ActiveSessions - 1
    BY <1>5 DEF Unregister, IsCurrent
  <2>2. n' = n - 1
    BY <1>4, <2>1, UncountedFinite
  <2>3. QED
    BY <1>2, <1>3, <2>1, <2>2 DEF Registry!Release
<1>6. CASE ~IsCurrent(s)
  <2>1. peers' = peers /\ peers[a] # s /\ ActiveSessions' = ActiveSessions
    BY <1>6 DEF Unregister, IsCurrent
  <2>2. n' = n
    BY <1>4, <2>1
  <2>3. QED
    BY <1>2, <1>3, <2>1, <2>2 DEF Registry!Release
<1>7. QED
  BY <1>5, <1>6

LEMMA RefineRefuse ==
  ASSUME HubTypeOK, RegistryInv, RegistryInv', NEW s \in Session, RegisterRefuse(s)
  PROVE  Registry!Refuse(s)
<1> USE HubAssumption DEF HubTypeOK, HubPhase
<1>1. /\ hub[s] = "out" /\ hub' = [hub EXCEPT ![s] = "refused"]
      /\ peers' = peers /\ old' = old /\ cancelled' = cancelled
      /\ ActiveSessions' = ActiveSessions /\ NoRoom(s)
  BY DEF RegisterRefuse
<1>2. Stage[s] = "new" /\ Stage' = [Stage EXCEPT ![s] = "refused"]
  BY <1>1 DEF Stage, Member
<1>3. BeingEvicted' = BeingEvicted /\ Uncounted' = Uncounted
  <2>1. \A u \in Session : hub'[u] = "installed" <=> hub[u] = "installed"
    BY <1>1
  <2>2. QED
    BY <1>1, <2>1 DEF BeingEvicted, Uncounted
<1>4. peers[AddrOf[s]] = None /\ ActiveSessions + Cardinality(Uncounted) >= MaxPeers
  BY <1>1 DEF NoRoom, RegistryInv, GaugeAccounting
<1>5. QED
  BY <1>1, <1>2, <1>3, <1>4 DEF Registry!Refuse

(* The steps after the unlock of Register are invisible. *)
LEMMA RefineEffect ==
  ASSUME HubTypeOK, RegistryInv, RegistryInv', NEW s \in Session,
         RegisterEffect(s) \/ RegisterReturn(s)
  PROVE  UNCHANGED Registry!vars
<1> USE HubAssumption DEF HubTypeOK, HubPhase
<1>1. peers' = peers
  BY DEF RegisterEffect, RegisterReturn
<1>2. /\ Member(s) /\ Member(s)'
      /\ \A t \in Session \ {s} : hub'[t] = hub[t]
  BY DEF RegisterEffect, RegisterReturn, Member
<1>3. Stage' = Stage
  BY <1>2, StageUnchanged
<1>4. BeingEvicted' = BeingEvicted
  <2>1. CASE RegisterReturn(s)
    <3>1. \A u \in Session : hub'[u] = "installed" <=> hub[u] = "installed"
      BY <2>1 DEF RegisterReturn
    <3>2. QED
      BY <2>1, <3>1 DEF BeingEvicted, RegisterReturn
  <2>2. CASE RegisterEffect(s)
    <3>1. /\ hub[s] = "installed" /\ hub' = [hub EXCEPT ![s] = "counted"]
          /\ old' = [old EXCEPT ![s] = None]
          /\ cancelled' = IF old[s] # None THEN cancelled \cup {old[s]} ELSE cancelled
      BY <2>2 DEF RegisterEffect
    <3>2. \A x : x \in BeingEvicted' <=>
          x \in cancelled' \/ \E u \in Session : hub'[u] = "installed" /\ old'[u] # None /\ old'[u] = x
      BY DEF BeingEvicted
    <3>3. \A u \in Session \ {s} : hub'[u] = hub[u] /\ old'[u] = old[u]
      BY <3>1
    <3>4. hub'[s] = "counted"
      BY <3>1
    <3>5. \A x : x \in BeingEvicted' <=> x \in BeingEvicted
      BY <3>1, <3>2, <3>3, <3>4, EvictedMembers
    <3>6. QED
      BY <3>5
  <2>3. QED
    BY <2>1, <2>2
<1>5. QED
  BY <1>1, <1>3, <1>4, RefineStutter

LEMMA RefineCancel ==
  ASSUME NEW s \in Session, Cancel(s) \/ CloseAllCancel(s)
  PROVE  Registry!Evict(s)
<1>1. /\ UNCHANGED <<peers, hub, old, ActiveSessions>>
      /\ cancelled' = cancelled \cup {s}
  BY DEF Cancel, CloseAllCancel, registryVars
<1>2. Stage' = Stage /\ Uncounted' = Uncounted
  BY <1>1 DEF Stage, Member, Uncounted
<1>3. BeingEvicted' = BeingEvicted \cup {s}
  BY <1>1 DEF BeingEvicted
<1>4. QED
  BY <1>1, <1>2, <1>3 DEF Registry!Evict

LEMMA RefineUntouched ==
  ASSUME UNCHANGED <<registryVars, cancelled>>
  PROVE  UNCHANGED Registry!vars
<1>1. UNCHANGED <<peers, hub, old, ActiveSessions, cancelled>>
  BY DEF registryVars
<1>2. Stage' = Stage /\ Uncounted' = Uncounted /\ BeingEvicted' = BeingEvicted
  BY <1>1 DEF Stage, Member, Uncounted, BeingEvicted
<1>3. QED
  BY <1>1, <1>2 DEF Registry!vars

LEMMA RefineNext ==
  HubTypeOK /\ RegistryInv /\ RegistryInv' /\ [HubNext]_hubVars
    => [Registry!Next]_(Registry!vars)
<1> SUFFICES ASSUME HubTypeOK, RegistryInv, RegistryInv', [HubNext]_hubVars
             PROVE  [Registry!Next]_(Registry!vars)
  OBVIOUS
<1>1. ASSUME NEW s \in Session, RegisterRefuse(s) PROVE Registry!Next
  BY <1>1, RefineRefuse DEF Registry!Next
<1>2. ASSUME NEW s \in Session, RegisterInstall(s) PROVE Registry!Next
  BY <1>2, RefineInstall DEF Registry!Next
<1>3. ASSUME NEW s \in Session, RegisterEffect(s) \/ RegisterReturn(s)
      PROVE  UNCHANGED Registry!vars
  BY <1>3, RefineEffect
<1>4. ASSUME NEW s \in Session, Unregister(s) PROVE Registry!Next
  BY <1>4, RefineUnregister DEF Registry!Next
<1>5. ASSUME NEW s \in Session, Cancel(s) \/ CloseAllCancel(s) PROVE Registry!Next
  BY <1>5, RefineCancel DEF Registry!Next
<1>6. ASSUME NEW s \in Session, Receive(s) PROVE UNCHANGED Registry!vars
  BY <1>6, RefineUntouched DEF Receive
<1>7. ASSUME NEW p \in Packet, DispatchLookup(p) PROVE UNCHANGED Registry!vars
  BY <1>7, RefineUntouched DEF DispatchLookup
<1>8. CASE DispatchSend \/ CloseAllSnapshot
  BY <1>8, RefineUntouched DEF DispatchSend, CloseAllSnapshot
<1>9. CASE UNCHANGED hubVars
  BY <1>9, RefineUntouched DEF hubVars
<1>10. QED
  BY <1>1, <1>2, <1>3, <1>4, <1>5, <1>6, <1>7, <1>8, <1>9 DEF HubNext, HubSessionStep

(* The hub implements the atomic registry of SessionRegistry. *)
THEOREM HubImplementsRegistry == HubSpec => ImplementsRegistry
<1>1. HubSpec => []RegistryInv
  BY RegistryCorrect, PTL DEF RegistryInv
<1>2. QED
  BY <1>1, HubTypeCorrect, RefineInit, RefineNext, PTL
  DEF HubSpec, ImplementsRegistry, Registry!Spec
-----------------------------------------------------------------------------
(* Dispatch.  What a session carries changes only when Dispatch sends: a     *)
(* receive moves the head of the queue behind the packets already received.  *)
LEMMA CarriedType ==
  ASSUME HubTypeOK, NEW s \in Session
  PROVE  Carried(s) \in Seq(Packet) /\ Len(Carried(s)) \in Nat
<1>1. received[s] \in Seq(Packet) /\ sendq[s] \in Seq(Packet)
  BY DEF HubTypeOK
<1>2. QED
  BY <1>1, ConcatProperties, LenProperties DEF Carried

LEMMA MoveHead ==
  ASSUME NEW S, NEW r \in Seq(S), NEW q \in Seq(S), q # <<>>
  PROVE  Append(r, Head(q)) \o Tail(q) = r \o q
<1> DEFINE a == Append(r, Head(q)) \o Tail(q)
<1>1. /\ Head(q) \in S /\ Tail(q) \in Seq(S) /\ Len(Tail(q)) = Len(q) - 1
      /\ \A i \in 1..Len(q) - 1 : Tail(q)[i] = q[i + 1]
      /\ Head(q) = q[1] /\ Len(q) \in Nat \ {0} /\ Len(r) \in Nat
  BY HeadTailProperties, EmptySeq, LenProperties
<1>2. /\ Append(r, Head(q)) \in Seq(S)
      /\ Len(Append(r, Head(q))) = Len(r) + 1
      /\ \A i \in 1..Len(r) : Append(r, Head(q))[i] = r[i]
      /\ Append(r, Head(q))[Len(r) + 1] = Head(q)
  BY <1>1, AppendProperties
<1>3. /\ a \in Seq(S) /\ Len(a) = Len(r) + Len(q)
      /\ \A i \in 1..Len(r) + Len(q) :
           a[i] = IF i <= Len(r) + 1 THEN Append(r, Head(q))[i] ELSE Tail(q)[i - (Len(r) + 1)]
  BY <1>1, <1>2, ConcatProperties
<1>4. /\ r \o q \in Seq(S) /\ Len(r \o q) = Len(r) + Len(q)
      /\ \A i \in 1..Len(r) + Len(q) : (r \o q)[i] = IF i <= Len(r) THEN r[i] ELSE q[i - Len(r)]
  BY ConcatProperties
<1>5. ASSUME NEW i \in 1..Len(r) + Len(q) PROVE a[i] = (r \o q)[i]
  <2>1. CASE i <= Len(r)
    BY <1>1, <1>2, <1>3, <1>4, <2>1
  <2>2. CASE i = Len(r) + 1
    BY <1>1, <1>2, <1>3, <1>4, <2>2
  <2>3. CASE i > Len(r) + 1
    <3>1. i - (Len(r) + 1) \in 1..Len(q) - 1
      BY <1>1, <2>3
    <3>2. Tail(q)[i - (Len(r) + 1)] = q[i - Len(r)]
      BY <1>1, <3>1
    <3>3. QED
      BY <1>1, <1>3, <1>4, <2>3, <3>2
  <2>4. QED
    BY <1>1, <2>1, <2>2, <2>3
<1>6. QED
  BY <1>3, <1>4, <1>5, SeqEqual

LEMMA CarriedReceive ==
  ASSUME HubTypeOK, NEW s \in Session, Receive(s)
  PROVE  \A t \in Session : Carried(t)' = Carried(t)
<1>1. /\ received' = [received EXCEPT ![s] = Append(@, Head(sendq[s]))]
      /\ sendq' = [sendq EXCEPT ![s] = Tail(@)] /\ sendq[s] # <<>>
  BY DEF Receive
<1>2. /\ received \in [Session -> Seq(Packet)] /\ sendq \in [Session -> Seq(Packet)]
  BY DEF HubTypeOK
<1>3. \A t \in Session \ {s} : received'[t] = received[t] /\ sendq'[t] = sendq[t]
  BY <1>1, <1>2
<1>4. received'[s] = Append(received[s], Head(sendq[s])) /\ sendq'[s] = Tail(sendq[s])
  BY <1>1, <1>2
<1>5. received'[s] \o sendq'[s] = received[s] \o sendq[s]
  BY <1>1, <1>2, <1>4, MoveHead
<1>6. QED
  BY <1>3, <1>5 DEF Carried
-----------------------------------------------------------------------------
(* Where the packets are, by their numbers: a packet a session carries has   *)
(* the session's address and a number that has been given out; numbers of    *)
(* different sessions differ; while Dispatch is between lookup and send its  *)
(* packet has the last number, which no session carries yet.  This, with     *)
(* InOrder, is what makes DispatchCorrect inductive, and what Server's       *)
(* Delivery rests on.                                                        *)
CarriedInv(s) ==
  \A i \in 1..Len(Carried(s)) :
    /\ Carried(s)[i].dst = AddrOf[s]
    /\ Carried(s)[i].id <= lastId
    /\ disp # Idle => Carried(s)[i].id < lastId

DisjointInv ==
  \A s, t \in Session : s # t =>
    \A i \in 1..Len(Carried(s)), j \in 1..Len(Carried(t)) :
      Carried(s)[i].id # Carried(t)[j].id

InFlightInv ==
  disp # Idle => disp.packet.id = lastId /\ disp.packet.dst = AddrOf[disp.peer]

DispatchInv ==
  /\ \A s \in Session : CarriedInv(s)
  /\ DisjointInv
  /\ InFlightInv
  /\ DispatchCorrect

LEMMA DispatchInit == HubInit => DispatchInv
<1> SUFFICES ASSUME HubInit PROVE DispatchInv
  OBVIOUS
<1> USE DEF HubInit
<1>1. \A s \in Session : Carried(s) = <<>> /\ Len(Carried(s)) = 0
  BY ConcatEmptySeq, EmptySeq DEF Carried
<1>2. (\A s \in Session : CarriedInv(s)) /\ DisjointInv /\ InOrder
  BY <1>1 DEF CarriedInv, DisjointInv, InOrder
<1>3. CarriedIds \cup InFlightIds = {}
  BY <1>1 DEF CarriedIds, InFlightIds
<1>4. DispatchAccounting
  BY <1>3, FS_EmptySet DEF DispatchAccounting
<1>5. QED
  BY <1>2, <1>4 DEF DispatchInv, InFlightInv, DispatchCorrect

(* The numbers carried, and that the sets counted are finite. *)
LEMMA CarriedIdsMembers ==
  \A n : n \in CarriedIds <=> \E s \in Session : \E i \in 1..Len(Carried(s)) : n = Carried(s)[i].id
BY DEF CarriedIds

LEMMA CarriedIdsFinite ==
  ASSUME HubTypeOK, DispatchInv
  PROVE  /\ \A n \in CarriedIds : n \in 1..lastId /\ (disp # Idle => n < lastId)
         /\ IsFiniteSet(CarriedIds) /\ Cardinality(CarriedIds) \in Nat
<1>1. ASSUME NEW n \in CarriedIds PROVE n \in 1..lastId /\ (disp # Idle => n < lastId)
  <2>1. PICK s \in Session : \E i \in 1..Len(Carried(s)) : n = Carried(s)[i].id
    BY CarriedIdsMembers
  <2>2. PICK i \in 1..Len(Carried(s)) : n = Carried(s)[i].id
    BY <2>1
  <2>3. n \in Nat \ {0}
    BY <2>2, CarriedType, ElementOfSeq, HubAssumption
  <2>4. n <= lastId /\ (disp # Idle => n < lastId)
    BY <2>2 DEF DispatchInv, CarriedInv
  <2>5. QED
    BY <2>3, <2>4 DEF HubTypeOK
<1>2. CarriedIds \in SUBSET (1..lastId)
  BY <1>1
<1>3. IsFiniteSet(1..lastId)
  BY FS_Interval DEF HubTypeOK
<1>4. QED
  BY <1>1, <1>2, <1>3, FS_Subset, FS_CardinalityType

(* A step that moves no packet and numbers none. *)
LEMMA DispatchUntouched ==
  ASSUME DispatchInv, \A s \in Session : Carried(s)' = Carried(s),
         UNCHANGED <<disp, lastId, Dropped>>
  PROVE  DispatchInv'
<1>1. CarriedIds' = CarriedIds /\ InFlightIds' = InFlightIds
  BY DEF CarriedIds, InFlightIds
<1>2. DispatchAccounting'
  BY <1>1 DEF DispatchInv, DispatchCorrect, DispatchAccounting
<1>3. (\A s \in Session : CarriedInv(s)') /\ DisjointInv' /\ InOrder'
  BY DEF DispatchInv, DispatchCorrect, CarriedInv, DisjointInv, InOrder
<1>4. InFlightInv'
  BY DEF DispatchInv, InFlightInv
<1>5. QED
  BY <1>2, <1>3, <1>4 DEF DispatchInv, DispatchCorrect
(* The lookup numbers the packet; it drops it or holds it. *)
LEMMA DispatchInvLookup ==
  ASSUME HubTypeOK, RegistryInv, DispatchInv, NEW p \in Packet, DispatchLookup(p)
  PROVE  DispatchInv'
<1> USE HubAssumption
<1>1. /\ disp = Idle /\ p.id = lastId + 1 /\ lastId' = lastId + 1
      /\ received' = received /\ sendq' = sendq /\ lastId \in Nat /\ p.dst \in Addr
  BY DEF DispatchLookup, HubTypeOK
<1>2. /\ \A s \in Session : Carried(s)' = Carried(s)
      /\ CarriedIds' = CarriedIds
  BY <1>1 DEF Carried, CarriedIds
<1>3. \A s \in Session : CarriedInv(s)'
  <2> SUFFICES ASSUME NEW s \in Session, NEW i \in 1..Len(Carried(s))
               PROVE  /\ Carried(s)[i].dst = AddrOf[s]
                      /\ Carried(s)[i].id < lastId'
                      /\ Carried(s)[i].id <= lastId'
    BY <1>2 DEF CarriedInv
  <2>1. Carried(s)[i].id \in Nat
    BY CarriedType, ElementOfSeq
  <2>2. Carried(s)[i].dst = AddrOf[s] /\ Carried(s)[i].id <= lastId
    BY DEF DispatchInv, CarriedInv
  <2>3. QED
    BY <1>1, <2>1, <2>2
<1>4. DisjointInv' /\ InOrder'
  BY <1>2 DEF DispatchInv, DispatchCorrect, DisjointInv, InOrder
<1>5. InFlightIds = {} /\ lastId = Dropped + Cardinality(CarriedIds)
  BY <1>1 DEF InFlightIds, DispatchInv, DispatchCorrect, DispatchAccounting
<1>6. CASE peers[p.dst] = None
  <2>1. Dropped' = Dropped + 1 /\ disp' = Idle
    BY <1>1, <1>6 DEF DispatchLookup
  <2>2. InFlightIds' = {} /\ InFlightInv'
    BY <2>1 DEF InFlightIds, InFlightInv, Idle
  <2>3. DispatchAccounting'
    BY <1>1, <1>2, <1>5, <2>1, <2>2, CarriedIdsFinite DEF DispatchAccounting, HubTypeOK
  <2>4. QED
    BY <1>3, <1>4, <2>2, <2>3 DEF DispatchInv, DispatchCorrect
<1>7. CASE peers[p.dst] # None
  <2>1. disp' = [peer |-> peers[p.dst], packet |-> p] /\ Dropped' = Dropped
    BY <1>7 DEF DispatchLookup
  <2>2. disp' # Idle /\ disp'.packet = p /\ disp'.peer = peers[p.dst]
    <3>1. peers[p.dst] \in Session
      BY <1>1, <1>7 DEF HubTypeOK
    <3>2. disp'.peer # None /\ Idle.peer = None
      BY <2>1, <3>1 DEF Idle
    <3>3. QED
      BY <2>1, <3>2
  <2>3. InFlightInv'
    BY <1>1, <1>7, <2>2 DEF InFlightInv, RegistryInv, RoutesAreLive
  <2>4. InFlightIds' = {lastId + 1} /\ lastId + 1 \notin CarriedIds
    BY <1>1, <2>2, CarriedIdsFinite DEF InFlightIds, Idle
  <2>5. Cardinality(CarriedIds \cup {lastId + 1}) = Cardinality(CarriedIds) + 1
    BY <2>4, CarriedIdsFinite, FS_AddElement
  <2>6. DispatchAccounting'
    BY <1>1, <1>2, <1>5, <2>1, <2>4, <2>5, CarriedIdsFinite DEF DispatchAccounting, HubTypeOK
  <2>7. QED
    BY <1>3, <1>4, <2>3, <2>6 DEF DispatchInv, DispatchCorrect
<1>8. QED
  BY <1>6, <1>7

(* A send that finds space appends to what its session carries. *)
LEMMA SendAppends ==
  ASSUME HubTypeOK, DispatchSend, NEW d \in Session, NEW p \in Packet,
         disp.peer = d, disp.packet = p, HasSpace(d)
  PROVE  /\ \A s \in Session : s # d => Carried(s)' = Carried(s)
         /\ Len(Carried(d)') = Len(Carried(d)) + 1
         /\ Len(Carried(d)) \in Nat
         /\ \A i \in 1..Len(Carried(d)) : Carried(d)'[i] = Carried(d)[i]
         /\ Carried(d)'[Len(Carried(d)) + 1] = p
<1>1. sendq' = [sendq EXCEPT ![d] = Append(@, p)] /\ received' = received
  BY DEF DispatchSend, Enqueue
<1>2. sendq \in [Session -> Seq(Packet)] /\ received \in [Session -> Seq(Packet)]
  BY DEF HubTypeOK
<1>3. \A s \in Session : s # d => sendq'[s] = sendq[s]
  BY <1>1, <1>2
<1>4. sendq'[d] = Append(sendq[d], p)
  BY <1>1, <1>2
<1>5. Carried(d)' = Append(Carried(d), p)
  <2>1. /\ sendq'[d] = sendq[d] \o <<p>>
        /\ Append(received[d] \o sendq[d], p) = (received[d] \o sendq[d]) \o <<p>>
    BY <1>2, <1>4, ConcatProperties, AppendIsConcat
  <2>2. <<p>> \in Seq(Packet)
    OBVIOUS
  <2>3. received[d] \o sendq'[d] = Append(received[d] \o sendq[d], p)
    BY <1>2, <2>1, <2>2, ConcatAssociative
  <2>4. QED
    BY <1>1, <2>3 DEF Carried
<1>6. \A s \in Session : s # d => Carried(s)' = Carried(s)
  BY <1>1, <1>3 DEF Carried
<1>7. QED
  BY <1>5, <1>6, CarriedType, AppendProperties

(* The send puts the held packet behind all that the session carries, or     *)
(* counts it as dropped.                                                     *)
LEMMA DispatchInvSend ==
  ASSUME HubTypeOK, DispatchInv, DispatchSend,
         NEW d \in Session, NEW p \in Packet, disp.peer = d, disp.packet = p
  PROVE  DispatchInv'
<1>1. /\ disp # Idle /\ disp' = Idle
      /\ received' = received /\ lastId' = lastId /\ lastId \in Nat /\ Dropped \in Nat
      /\ p.id = lastId /\ p.dst = AddrOf[d]
  BY DEF DispatchSend, HubTypeOK, DispatchInv, InFlightInv
<1>2. InFlightIds = {lastId} /\ InFlightIds' = {} /\ InFlightInv'
  BY <1>1 DEF InFlightIds, InFlightInv, Idle
<1>3. lastId \notin CarriedIds /\ lastId = Dropped + Cardinality(CarriedIds) + 1
  <2>1. lastId \notin CarriedIds
    BY <1>1, CarriedIdsFinite
  <2>2. Cardinality(CarriedIds \cup {lastId}) = Cardinality(CarriedIds) + 1
    BY <2>1, CarriedIdsFinite, FS_AddElement
  <2>3. lastId = Dropped + Cardinality(CarriedIds \cup {lastId})
    BY <1>2 DEF DispatchInv, DispatchCorrect, DispatchAccounting
  <2>4. QED
    BY <1>1, <2>1, <2>2, <2>3, CarriedIdsFinite
<1>4. CASE ~HasSpace(d)
  <2>1. Dropped' = Dropped + 1 /\ sendq' = sendq
    BY <1>4 DEF DispatchSend
  <2>2. /\ \A s \in Session : Carried(s)' = Carried(s)
        /\ CarriedIds' = CarriedIds
    BY <1>1, <2>1 DEF Carried, CarriedIds
  <2>3. (\A s \in Session : CarriedInv(s)') /\ DisjointInv' /\ InOrder'
    BY <1>1, <2>2 DEF DispatchInv, DispatchCorrect, CarriedInv, DisjointInv, InOrder
  <2>4. DispatchAccounting'
    BY <1>1, <1>2, <1>3, <2>1, <2>2, CarriedIdsFinite DEF DispatchAccounting
  <2>5. QED
    BY <1>2, <2>3, <2>4 DEF DispatchInv, DispatchCorrect
<1>5. CASE HasSpace(d)
  <2>1. Dropped' = Dropped /\ sendq' = [sendq EXCEPT ![d] = Append(@, p)]
    BY <1>5 DEF DispatchSend, Enqueue
  <2>2. \A s \in Session : s # d => Carried(s)' = Carried(s)
    BY <1>5, SendAppends
  <2>3. /\ Len(Carried(d)') = Len(Carried(d)) + 1
        /\ Len(Carried(d)) \in Nat
        /\ \A i \in 1..Len(Carried(d)) : Carried(d)'[i] = Carried(d)[i]
        /\ Carried(d)'[Len(Carried(d)) + 1] = p
    BY <1>5, SendAppends
  <2>4. \A s \in Session : CarriedInv(s)'
    <3>1. ASSUME NEW s \in Session, s # d PROVE CarriedInv(s)'
      BY <1>1, <2>2, <3>1 DEF DispatchInv, CarriedInv
    <3>2. CarriedInv(d)'
      <4> SUFFICES ASSUME NEW i \in 1..Len(Carried(d)')
                   PROVE  Carried(d)'[i].dst = AddrOf[d] /\ Carried(d)'[i].id <= lastId
        BY <1>1 DEF CarriedInv
      <4>1. CASE i \in 1..Len(Carried(d))
        BY <1>1, <2>3, <4>1 DEF DispatchInv, CarriedInv
      <4>2. CASE i = Len(Carried(d)) + 1
        BY <1>1, <2>3, <4>2
      <4>3. QED
        BY <2>3, <4>1, <4>2
    <3>3. QED
      BY <3>1, <3>2
  <2>5. ASSUME NEW s \in Session, NEW j \in 1..Len(Carried(s))
        PROVE  Carried(s)[j].id \in Nat /\ Carried(s)[j].id < p.id
    BY <1>1, CarriedType, ElementOfSeq, HubAssumption DEF DispatchInv, CarriedInv
  <2>6. DisjointInv'
    <3> SUFFICES ASSUME NEW s \in Session, NEW t \in Session, s # t,
                        NEW i \in 1..Len(Carried(s)'), NEW j \in 1..Len(Carried(t)')
                 PROVE  Carried(s)'[i].id # Carried(t)'[j].id
      BY DEF DisjointInv
    <3>1. CASE s # d /\ t # d
      BY <2>2, <3>1 DEF DispatchInv, DisjointInv
    <3>2. CASE s = d
      <4>1. Carried(t)' = Carried(t)
        BY <2>2, <3>2
      <4>2. CASE i \in 1..Len(Carried(d))
        BY <2>3, <3>2, <4>1, <4>2 DEF DispatchInv, DisjointInv
      <4>3. CASE i = Len(Carried(d)) + 1
        BY <1>1, <2>3, <2>5, <3>2, <4>1, <4>3
      <4>4. QED
        BY <2>3, <3>2, <4>2, <4>3
    <3>3. CASE t = d
      <4>1. Carried(s)' = Carried(s)
        BY <2>2, <3>3
      <4>2. CASE j \in 1..Len(Carried(d))
        BY <2>3, <3>3, <4>1, <4>2 DEF DispatchInv, DisjointInv
      <4>3. CASE j = Len(Carried(d)) + 1
        BY <1>1, <2>3, <2>5, <3>3, <4>1, <4>3
      <4>4. QED
        BY <2>3, <3>3, <4>2, <4>3
    <3>4. QED
      BY <3>1, <3>2, <3>3
  <2>7. InOrder'
    <3> SUFFICES ASSUME NEW s \in Session, NEW i \in 1..Len(Carried(s)'),
                        NEW j \in 1..Len(Carried(s)'), i < j
                 PROVE  Carried(s)'[i].id < Carried(s)'[j].id
      BY DEF InOrder
    <3>1. CASE s # d
      BY <2>2, <3>1 DEF DispatchInv, DispatchCorrect, InOrder
    <3>2. CASE s = d
      <4>1. i \in 1..Len(Carried(d)) /\ Carried(s)'[i] = Carried(d)[i]
        BY <2>3, <3>2
      <4>2. CASE j \in 1..Len(Carried(d))
        BY <2>3, <3>2, <4>1, <4>2 DEF DispatchInv, DispatchCorrect, InOrder
      <4>3. CASE j = Len(Carried(d)) + 1
        BY <1>1, <2>3, <2>5, <3>2, <4>1, <4>3
      <4>4. QED
        BY <2>3, <3>2, <4>2, <4>3
    <3>3. QED
      BY <3>1, <3>2
  <2>8. CarriedIds' = CarriedIds \cup {lastId}
    <3>1. ASSUME NEW n PROVE n \in CarriedIds' <=> n \in CarriedIds \/ n = lastId
      <4>1. n \in CarriedIds' <=>
              \E s \in Session : \E i \in 1..Len(Carried(s)') : n = Carried(s)'[i].id
        BY DEF CarriedIds
      <4>2. (\E i \in 1..Len(Carried(d)') : n = Carried(d)'[i].id) <=>
              (\E i \in 1..Len(Carried(d)) : n = Carried(d)[i].id) \/ n = lastId
        BY <1>1, <2>3
      <4>3. ASSUME NEW s \in Session, s # d
            PROVE  (\E i \in 1..Len(Carried(s)') : n = Carried(s)'[i].id) <=>
                   (\E i \in 1..Len(Carried(s)) : n = Carried(s)[i].id)
        BY <2>2, <4>3
      <4>4. QED
        BY <1>1, <4>1, <4>2, <4>3, CarriedIdsMembers
    <3>2. QED
      BY <3>1
  <2>9. DispatchAccounting'
    <3>1. Cardinality(CarriedIds \cup {lastId}) = Cardinality(CarriedIds) + 1
      BY <1>3, CarriedIdsFinite, FS_AddElement
    <3>2. QED
      BY <1>1, <1>2, <1>3, <2>1, <2>8, <3>1, CarriedIdsFinite DEF DispatchAccounting
  <2>10. QED
    BY <1>2, <2>4, <2>6, <2>7, <2>9 DEF DispatchInv, DispatchCorrect
<1>6. QED
  BY <1>4, <1>5

LEMMA DispatchNext == HubTypeOK /\ RegistryInv /\ DispatchInv /\ [HubNext]_hubVars => DispatchInv'
<1> SUFFICES ASSUME HubTypeOK, RegistryInv, DispatchInv, [HubNext]_hubVars PROVE DispatchInv'
  OBVIOUS
<1> USE DEF queueVars
<1>1. ASSUME UNCHANGED queueVars PROVE DispatchInv'
  BY <1>1, DispatchUntouched DEF Carried
<1>2. ASSUME NEW s \in Session, Receive(s) PROVE DispatchInv'
  BY <1>2, CarriedReceive, DispatchUntouched DEF Receive
<1>3. ASSUME NEW s \in Session, HubSessionStep(s), ~Receive(s) PROVE DispatchInv'
  BY <1>1, <1>3 DEF HubSessionStep, RegisterRefuse, RegisterInstall, RegisterEffect,
                    RegisterReturn, Unregister, Cancel, CloseAllCancel
<1>4. ASSUME NEW p \in Packet, DispatchLookup(p) PROVE DispatchInv'
  BY <1>4, DispatchInvLookup
<1>5. CASE DispatchSend
  <2>1. disp.peer \in Session /\ disp.packet \in Packet
    BY <1>5 DEF DispatchSend, HubTypeOK
  <2>2. QED
    BY <1>5, <2>1, DispatchInvSend
<1>6. CASE CloseAllSnapshot
  BY <1>1, <1>6 DEF CloseAllSnapshot
<1>7. CASE UNCHANGED hubVars
  BY <1>1, <1>7 DEF hubVars
<1>8. QED
  BY <1>2, <1>3, <1>4, <1>5, <1>6, <1>7 DEF HubNext

LEMMA DispatchInvariant == HubSpec => []DispatchInv
BY DispatchInit, DispatchNext, HubTypeCorrect, RegistryCorrect, PTL DEF HubSpec

(* Dispatch loses no packet without counting it, queues none twice and keeps *)
(* the order of the TUN, for any number of sessions and any queue capacity   *)
(* (hub.go:57-73).                                                           *)
THEOREM DispatchIsCorrect == HubSpec => []DispatchCorrect
<1>1. DispatchInv => DispatchCorrect
  BY DEF DispatchInv
<1>2. QED
  BY <1>1, DispatchInvariant, PTL
-----------------------------------------------------------------------------
(* The two streams of a replaced session.  Before Register has succeeded a   *)
(* session carries nothing and Dispatch does not hold it; the session that   *)
(* Dispatch holds carries the newest packets of its address, and if another  *)
(* one has taken the address meanwhile, that one carries nothing yet: the    *)
(* held packet will be older than all it gets.                               *)
NothingYet(s) == Len(Carried(s)) = 0

HeldIsNewest ==
  disp # Idle =>
    /\ hub[disp.peer] \notin {"out", "refused"}
    /\ \A t \in Session : t # disp.peer /\ AddrOf[t] = AddrOf[disp.peer] =>
         Before(t, disp.peer) /\ (peers[AddrOf[t]] = t => NothingYet(t))

StreamInv ==
  /\ \A s \in Session : hub[s] \in {"out", "refused"} => NothingYet(s)
  /\ HeldIsNewest
  /\ ReplacementSplitsStream

LEMMA StreamInit == HubInit => StreamInv
<1> SUFFICES ASSUME HubInit PROVE StreamInv
  OBVIOUS
<1>1. \A s \in Session : Len(Carried(s)) = 0
  BY ConcatEmptySeq, EmptySeq DEF HubInit, Carried
<1>2. \A s, t \in Session : Before(s, t)
  BY <1>1 DEF Before
<1>3. QED
  BY <1>1, <1>2 DEF HubInit, StreamInv, HeldIsNewest, ReplacementSplitsStream, NothingYet

(* A step that moves no packet, and after which the only new owners of an    *)
(* address are sessions that carry nothing.                                  *)
LEMMA StreamQuiet ==
  ASSUME HubTypeOK, StreamInv, \A s \in Session : Carried(s)' = Carried(s), disp' = disp,
         \A s \in Session : hub'[s] \in {"out", "refused"} => hub[s] \in {"out", "refused"},
         \A s \in Session : peers'[AddrOf[s]] = s => peers[AddrOf[s]] = s \/ NothingYet(s)
  PROVE  StreamInv'
<1>1. \A s, t \in Session : Before(s, t)' <=> Before(s, t)
  BY DEF Before
<1>2. \A s \in Session : NothingYet(s)' <=> NothingYet(s)
  BY DEF NothingYet
<1>3. \A s, t \in Session : NothingYet(t) => Before(s, t)
  BY DEF NothingYet, Before
<1>4. \A s \in Session : hub'[s] \in {"out", "refused"} => NothingYet(s)'
  BY <1>2 DEF StreamInv
<1>5. ReplacementSplitsStream'
  BY <1>1, <1>3 DEF StreamInv, ReplacementSplitsStream
<1>6. HeldIsNewest'
  <2>1. disp # Idle => disp.peer \in Session
    BY DEF HubTypeOK
  <2>2. QED
    BY <1>1, <1>2, <2>1 DEF StreamInv, HeldIsNewest
<1>7. QED
  BY <1>4, <1>5, <1>6 DEF StreamInv

LEMMA StreamLookup ==
  ASSUME HubTypeOK, RegistryInv, StreamInv, NEW p \in Packet, DispatchLookup(p)
  PROVE  StreamInv'
<1>1. /\ disp = Idle /\ peers' = peers /\ hub' = hub
      /\ \A s \in Session : Carried(s)' = Carried(s)
  BY DEF DispatchLookup, registryVars, Carried
<1>2. CASE peers[p.dst] = None
  BY <1>1, <1>2, StreamQuiet DEF DispatchLookup
<1>3. CASE peers[p.dst] # None
  <2>1. PICK d \in Session : d = peers[p.dst]
    BY <1>3, HubAssumption DEF HubTypeOK
  <2>2. disp'.peer = d
    BY <1>3, <2>1 DEF DispatchLookup
  <2>3. AddrOf[d] = p.dst /\ Member(d)
    BY <1>3, <2>1, HubAssumption DEF RegistryInv, RoutesAreLive
  <2>4. \A s, t \in Session : Before(s, t)' <=> Before(s, t)
    BY <1>1 DEF Before
  <2>5. ReplacementSplitsStream' /\ \A s \in Session : hub'[s] \in {"out", "refused"} => NothingYet(s)'
    BY <1>1, <2>4 DEF StreamInv, ReplacementSplitsStream, NothingYet
  <2>6. hub'[d] \notin {"out", "refused"}
    BY <1>1, <2>3 DEF Member
  <2>7. ASSUME NEW t \in Session, t # d, AddrOf[t] = AddrOf[d]
        PROVE  Before(t, d)' /\ peers'[AddrOf[t]] # t
    BY <1>1, <2>1, <2>3, <2>4, <2>7 DEF StreamInv, ReplacementSplitsStream
  <2>8. HeldIsNewest'
    BY <2>2, <2>6, <2>7 DEF HeldIsNewest
  <2>9. QED
    BY <2>5, <2>8 DEF StreamInv
<1>4. QED
  BY <1>2, <1>3

LEMMA StreamSend ==
  ASSUME HubTypeOK, DispatchInv, StreamInv, DispatchSend,
         NEW d \in Session, NEW p \in Packet, disp.peer = d, disp.packet = p
  PROVE  StreamInv'
<1>1. disp # Idle /\ disp' = Idle /\ received' = received /\ peers' = peers /\ hub' = hub
  BY DEF DispatchSend, registryVars
<1>2. HeldIsNewest'
  BY <1>1 DEF HeldIsNewest, Idle
<1>3. CASE ~HasSpace(d)
  <2>1. \A s \in Session : Carried(s)' = Carried(s)
    BY <1>1, <1>3 DEF DispatchSend, Carried
  <2>2. \A s, t \in Session : Before(s, t)' <=> Before(s, t)
    BY <2>1 DEF Before
  <2>3. QED
    BY <1>1, <1>2, <2>1, <2>2 DEF StreamInv, ReplacementSplitsStream, NothingYet
<1>4. CASE HasSpace(d)
  <2>1. /\ \A s \in Session : s # d => Carried(s)' = Carried(s)
        /\ Len(Carried(d)') = Len(Carried(d)) + 1
        /\ Len(Carried(d)) \in Nat
        /\ \A i \in 1..Len(Carried(d)) : Carried(d)'[i] = Carried(d)[i]
        /\ Carried(d)'[Len(Carried(d)) + 1] = p
    BY <1>4, SendAppends
  <2>2. ASSUME NEW t \in Session, t # d, AddrOf[t] = AddrOf[d]
        PROVE  Before(t, d)' /\ (peers'[AddrOf[t]] = t => Before(d, t)')
    <3>1. Before(t, d) /\ (peers[AddrOf[t]] = t => NothingYet(t))
      BY <1>1, <2>2 DEF StreamInv, HeldIsNewest
    <3>2. \A i \in 1..Len(Carried(t)) : Carried(t)[i].id < p.id
      BY <1>1 DEF DispatchInv, CarriedInv, InFlightInv
    <3>3. ASSUME NEW i \in 1..Len(Carried(t)), NEW j \in 1..Len(Carried(d)')
          PROVE  Carried(t)[i].id < Carried(d)'[j].id
      <4>1. CASE j \in 1..Len(Carried(d))
        BY <2>1, <3>1, <4>1 DEF Before
      <4>2. CASE j = Len(Carried(d)) + 1
        BY <2>1, <3>2, <4>2
      <4>3. QED
        BY <2>1, <4>1, <4>2
    <3>4. Before(t, d)'
      BY <2>1, <2>2, <3>3 DEF Before
    <3>5. peers'[AddrOf[t]] = t => Before(d, t)'
      BY <1>1, <2>1, <2>2, <3>1 DEF NothingYet, Before
    <3>6. QED
      BY <3>4, <3>5
  <2>3. \A s, t \in Session : s # d /\ t # d => (Before(s, t)' <=> Before(s, t))
    BY <2>1 DEF Before
  <2>4. ReplacementSplitsStream'
    <3> SUFFICES ASSUME NEW s \in Session, NEW t \in Session, s # t, AddrOf[s] = AddrOf[t]
                 PROVE  (Before(s, t) \/ Before(t, s))' /\ (peers'[AddrOf[t]] = t => Before(s, t)')
      BY DEF ReplacementSplitsStream
    <3>1. CASE s = d
      BY <2>2, <3>1
    <3>2. CASE t = d
      BY <2>2, <3>2
    <3>3. CASE s # d /\ t # d
      BY <1>1, <2>3, <3>3 DEF StreamInv, ReplacementSplitsStream
    <3>4. QED
      BY <3>1, <3>2, <3>3
  <2>5. \A s \in Session : hub'[s] \in {"out", "refused"} => NothingYet(s)'
    BY <1>1, <2>1 DEF StreamInv, HeldIsNewest, NothingYet
  <2>6. QED
    BY <1>2, <2>4, <2>5 DEF StreamInv
<1>5. QED
  BY <1>3, <1>4

LEMMA StreamNext ==
  HubTypeOK /\ RegistryInv /\ DispatchInv /\ StreamInv /\ [HubNext]_hubVars => StreamInv'
<1> SUFFICES ASSUME HubTypeOK, RegistryInv, DispatchInv, StreamInv, [HubNext]_hubVars
             PROVE  StreamInv'
  OBVIOUS
<1> USE DEF registryVars, queueVars
<1>1. ASSUME NEW s \in Session, RegisterRefuse(s) PROVE StreamInv'
  BY <1>1, StreamQuiet DEF RegisterRefuse, Carried, HubTypeOK
<1>2. ASSUME NEW s \in Session, RegisterInstall(s) PROVE StreamInv'
  <2>1. /\ disp' = disp /\ \A t \in Session : Carried(t)' = Carried(t)
        /\ NothingYet(s) /\ AddrOf[s] \in Addr
    BY <1>2, HubAssumption DEF RegisterInstall, Carried, StreamInv
  <2>2. \A t \in Session : peers'[AddrOf[t]] = t => peers[AddrOf[t]] = t \/ t = s
    BY <1>2, HubAssumption DEF RegisterInstall, HubTypeOK
  <2>3. \A t \in Session : hub'[t] \in {"out", "refused"} => hub[t] \in {"out", "refused"}
    BY <1>2 DEF RegisterInstall, HubTypeOK
  <2>4. QED
    BY <2>1, <2>2, <2>3, StreamQuiet
<1>3. ASSUME NEW s \in Session, RegisterEffect(s) PROVE StreamInv'
  BY <1>3, StreamQuiet DEF RegisterEffect, Carried, HubTypeOK
<1>4. ASSUME NEW s \in Session, RegisterReturn(s) PROVE StreamInv'
  BY <1>4, StreamQuiet DEF RegisterReturn, Carried, HubTypeOK
<1>5. ASSUME NEW s \in Session, Unregister(s) PROVE StreamInv'
  <2>1. disp' = disp /\ \A t \in Session : Carried(t)' = Carried(t)
    BY <1>5 DEF Unregister, Carried
  <2>2. \A t \in Session : peers'[AddrOf[t]] = t => peers[AddrOf[t]] = t
    BY <1>5, HubAssumption DEF Unregister, HubTypeOK
  <2>3. \A t \in Session : hub'[t] \in {"out", "refused"} => hub[t] \in {"out", "refused"}
    BY <1>5 DEF Unregister, HubTypeOK
  <2>4. QED
    BY <2>1, <2>2, <2>3, StreamQuiet
<1>6. ASSUME NEW s \in Session, Cancel(s) \/ CloseAllCancel(s) PROVE StreamInv'
  BY <1>6, StreamQuiet DEF Cancel, CloseAllCancel, Carried
<1>7. ASSUME NEW s \in Session, Receive(s) PROVE StreamInv'
  BY <1>7, CarriedReceive, StreamQuiet DEF Receive
<1>8. ASSUME NEW p \in Packet, DispatchLookup(p) PROVE StreamInv'
  BY <1>8, StreamLookup
<1>9. CASE DispatchSend
  <2>1. disp.peer \in Session /\ disp.packet \in Packet
    BY <1>9 DEF DispatchSend, HubTypeOK
  <2>2. QED
    BY <1>9, <2>1, StreamSend
<1>10. CASE CloseAllSnapshot
  BY <1>10, StreamQuiet DEF CloseAllSnapshot, Carried
<1>11. CASE UNCHANGED hubVars
  BY <1>11, StreamQuiet DEF hubVars, Carried
<1>12. QED
  BY <1>1, <1>2, <1>3, <1>4, <1>5, <1>6, <1>7, <1>8, <1>9, <1>10, <1>11
     DEF HubNext, HubSessionStep

(* A replacement cuts the packets of an address in two: the replaced session *)
(* gets no packet younger than one of its successor, although Dispatch sends *)
(* after the unlock to a peer that may have been replaced since              *)
(* (hub.go:57-73).  For any number of sessions, replacements and packets.    *)
THEOREM StreamsAreSplit == HubSpec => []ReplacementSplitsStream
<1>1. StreamInv => ReplacementSplitsStream
  BY DEF StreamInv
<1>2. QED
  BY <1>1, StreamInit, StreamNext, HubTypeCorrect, RegistryCorrect, DispatchInvariant, PTL DEF HubSpec
==============================================================================
