---------------------------- MODULE SystemProofs ----------------------------
(* Safety of the composition for any number of connections of the client and *)
(* any limits: which handler the registry sends the client's packets to.     *)
EXTENDS System, TLAPS

(* A handler that is off is not the owner: the fact that makes NoBlackHole   *)
(* inductive when Dial uses a connection again.                              *)
OwnerIsOn == owner # None => handler[owner] \in {"serve", "leave"}

ReachInv == TypeOK /\ NoBlackHole /\ OwnerIsOn

LEMMA InitReach == Init => ReachInv
<1> SUFFICES ASSUME Init PROVE ReachInv
  OBVIOUS
<1>1. /\ handler \in [Conn -> {"off", "hello", "register", "serve", "leave"}]
      /\ \A k \in Conn : handler[k] = "off"
  BY DEF Init
<1>2. faults \in 0..MaxFaults
  BY SystemAssumption DEF Init
<1>3. TypeOK
  BY <1>1, <1>2 DEF Init, TypeOK
<1>4. NoBlackHole /\ OwnerIsOn
  BY <1>1 DEF Init, NoBlackHole, OwnerIsOn
<1>5. QED
  BY <1>3, <1>4 DEF ReachInv

(* Steps of the client: only Dial touches a handler, and it starts one that  *)
(* is off, which the registry does not know.                                 *)
LEMMA ClientReach ==
  ASSUME ReachInv, ClientStep \/ DialFail \/ Abandon
  PROVE  ReachInv'
<1> USE SystemAssumption DEF ReachInv, TypeOK, NoBlackHole, OwnerIsOn
<1>1. ASSUME NEW k \in Conn, Dial(k) PROVE ReachInv'
  <2>1. owner # k
    BY <1>1 DEF Dial
  <2>2. QED
    BY <1>1, <2>1 DEF Dial
<1>2. CASE Welcomed
  BY <1>2 DEF Welcomed
<1>3. CASE ClientNotices
  BY <1>3 DEF ClientNotices, GiveUp
<1>4. CASE Resume
  BY <1>4 DEF Resume
<1>5. CASE DialFail
  BY <1>5 DEF DialFail, Fault, GiveUp
<1>6. CASE Abandon
  BY <1>6 DEF Abandon, Fault, GiveUp
<1>7. QED
  BY <1>1, <1>2, <1>3, <1>4, <1>5, <1>6 DEF ClientStep

(* Steps of a handler.  Register moves the address and cancels the peer that *)
(* had it, so that no other handler serves uncancelled; Leave gives up the   *)
(* address only if this handler still has it.                                *)
LEMMA HandlerReach ==
  ASSUME ReachInv, NEW k \in Conn, HandlerStep(k) \/ Idle(k) \/ Cut(k)
  PROVE  ReachInv'
<1> USE SystemAssumption DEF ReachInv, TypeOK, NoBlackHole, OwnerIsOn
<1>1. CASE Greet(k)
  BY <1>1 DEF Greet
<1>2. CASE GreetFail(k)
  BY <1>2 DEF GreetFail
<1>3. CASE Register(k)
  <2>1. ASSUME NEW j \in Conn, handler'[j] = "serve", j \notin evicted', j # k
        PROVE  FALSE
    BY <1>3, <2>1 DEF Register
  <2>2. QED
    BY <1>3, <2>1 DEF Register
<1>4. CASE Refuse(k)
  BY <1>4 DEF Refuse
<1>5. CASE Stop(k)
  BY <1>5 DEF Stop
<1>6. CASE Leave(k)
  BY <1>6 DEF Leave
<1>7. CASE Idle(k)
  BY <1>7 DEF Idle, Fault
<1>8. CASE Cut(k)
  BY <1>8 DEF Cut, Fault
<1>9. QED
  BY <1>1, <1>2, <1>3, <1>4, <1>5, <1>6, <1>7, <1>8 DEF HandlerStep

LEMMA NextReach ==
  ASSUME ReachInv, [Next]_vars
  PROVE  ReachInv'
<1>1. CASE ClientStep \/ DialFail \/ Abandon
  BY <1>1, ClientReach
<1>2. ASSUME NEW k \in Conn, HandlerStep(k) \/ Cut(k) \/ Idle(k) PROVE ReachInv'
  BY <1>2, HandlerReach
<1>3. CASE OtherJoins
  BY <1>3 DEF OtherJoins, ReachInv, TypeOK, NoBlackHole, OwnerIsOn
<1>4. CASE OtherLeaves
  BY <1>4 DEF OtherLeaves, ReachInv, TypeOK, NoBlackHole, OwnerIsOn
<1>5. CASE ServerRestart
  <2>1. faults' \in 0..MaxFaults
    BY <1>5, SystemAssumption DEF ServerRestart, Fault, ReachInv, TypeOK
  <2>2. /\ handler' \in [Conn -> {"off", "hello", "register", "serve", "leave"}]
        /\ \A k \in Conn : handler'[k] = "off"
    BY <1>5 DEF ServerRestart
  <2>3. /\ owner' = None /\ other' = FALSE
        /\ UNCHANGED <<client, cur, welcomed, evicted, cut>>
    BY <1>5 DEF ServerRestart
  <2>4. TypeOK'
    BY <2>1, <2>2, <2>3 DEF ReachInv, TypeOK
  <2>5. NoBlackHole' /\ OwnerIsOn'
    BY <2>2, <2>3 DEF NoBlackHole, OwnerIsOn
  <2>6. QED
    BY <2>4, <2>5 DEF ReachInv
<1>6. CASE UNCHANGED vars
  BY <1>6 DEF vars, ReachInv, TypeOK, NoBlackHole, OwnerIsOn
<1>7. QED
  BY <1>1, <1>2, <1>3, <1>4, <1>5, <1>6 DEF Next, Settled

LEMMA AlwaysReach == Spec => []ReachInv
BY InitReach, NextReach, PTL DEF Spec

(* The types, and that the client has a connection exactly when it waits or  *)
(* talks (client.go:66-123).                                                 *)
THEOREM SystemTypeCorrect == Spec => []TypeOK
<1>1. ReachInv => TypeOK
  BY DEF ReachInv
<1>2. QED
  BY AlwaysReach, <1>1, PTL

(* However late old handlers register or leave, whatever fails and however   *)
(* often the client reconnects, every handler in its loop that was not       *)
(* cancelled gets the client's packets (server.go:204-208).                  *)
THEOREM ServingHandlersAreReached == Spec => []NoBlackHole
<1>1. ReachInv => NoBlackHole
  BY DEF ReachInv
<1>2. QED
  BY AlwaysReach, <1>1, PTL
=============================================================================
