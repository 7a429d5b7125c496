---------------------------- MODULE ServerProofs ----------------------------
(***************************************************************************)
(* Proofs about Server: it uses the hub as Hub specifies, hence all that   *)
(* HubProofs shows of the hub holds of the server; a handler that is done  *)
(* has left nothing behind; a cancelled session injects at most one more   *)
(* packet; packets reach their client in order and only the last is lost;  *)
(* Run releases the device.                                                *)
(***************************************************************************)
EXTENDS Server, HubProofs

LEMMA HandlerStepIsHubStep ==
  ASSUME NEW s \in Session, HandlerStep(s)
  PROVE  HubNext \/ UNCHANGED hubVars
<1>1. CASE TunnelInstall(s)
  BY <1>1 DEF TunnelInstall, HubNext, HubSessionStep
<1>2. CASE TunnelEffect(s)
  BY <1>2 DEF TunnelEffect, HubNext, HubSessionStep
<1>3. CASE TunnelRegistered(s)
  BY <1>3 DEF TunnelRegistered, HubNext, HubSessionStep
<1>4. CASE TunnelRefused(s)
  BY <1>4 DEF TunnelRefused, HubNext, HubSessionStep
<1>5. CASE TunnelUnregister(s)
  BY <1>5 DEF TunnelUnregister, HubNext, HubSessionStep
<1>6. CASE PeerCancel(s)
  BY <1>6 DEF PeerCancel, HubNext, HubSessionStep
<1>7. CASE \/ WriteWelcome(s) \/ WriteWelcomeFail(s) \/ CloseRefused(s) \/ CheckStop(s)
           \/ ReadError(s) \/ WritePacket(s) \/ WritePacketFail(s) \/ CloseNow(s)
  BY <1>7 DEF WriteWelcome, WriteWelcomeFail, CloseRefused, CheckStop, ReadError,
              WritePacket, WritePacketFail, CloseNow
<1>8. QED
  BY <1>1, <1>2, <1>3, <1>4, <1>5, <1>6, <1>7 DEF HandlerStep

LEMMA ServerStepIsHubStep == [ServerNext]_vars => [HubNext]_hubVars
<1> SUFFICES ASSUME [ServerNext]_vars PROVE HubNext \/ UNCHANGED hubVars
  OBVIOUS
<1>1. ASSUME NEW s \in Session, HandlerStep(s) PROVE HubNext \/ UNCHANGED hubVars
  BY <1>1, HandlerStepIsHubStep
<1>2. ASSUME NEW s \in Session, TimeoutStep(s) \/ ClientStep(s) PROVE UNCHANGED hubVars
  BY <1>2 DEF TimeoutStep, ClientStep, ReadHelloFail, ReadIdle, RejectRequest, AcceptRequest,
              ReadHello, ReadFrame, ReadMalformed, ConnLost, WriterPingFail
<1>3. ASSUME NEW s \in Session, WriterStep(s) PROVE HubNext \/ UNCHANGED hubVars
  <2>1. CASE WriterTake(s)
    BY <2>1 DEF WriterTake, HubNext, HubSessionStep
  <2>2. CASE WriterDone(s) \/ WriterSend(s) \/ WriterSendFail(s)
    BY <2>2 DEF WriterDone, WriterSend, WriterSendFail
  <2>3. QED
    BY <1>3, <2>1, <2>2 DEF WriterStep
<1>4. ASSUME NEW p \in Packet, PumpDispatch(p) PROVE HubNext
  BY <1>4 DEF PumpDispatch, HubNext
<1>5. CASE PumpSend
  BY <1>5 DEF PumpSend, HubNext
<1>6. CASE RunStep
  <2>1. CASE RunCtxDone
    BY <2>1 DEF RunCtxDone, HubNext
  <2>2. ASSUME NEW s \in Session, RunCloseAll(s) PROVE HubNext
    BY <2>2 DEF RunCloseAll, HubNext, HubSessionStep
  <2>3. CASE \/ ListenTunnel \/ ListenTunnelFail \/ ListenMetrics \/ ListenMetricsFail
             \/ RunShutdown \/ RunShutdownDone \/ RunCanceled \/ RunFailed
    BY <2>3 DEF ListenTunnel, ListenTunnelFail, ListenMetrics, ListenMetricsFail,
                RunShutdown, RunShutdownDone, RunCanceled, RunFailed
  <2>4. QED
    BY <1>6, <2>1, <2>2, <2>3 DEF RunStep
<1>7. CASE PumpFail \/ ServeFail \/ CancelRun
  BY <1>7 DEF PumpFail, ServeFail, CancelRun
<1>8. CASE Quiescent \/ UNCHANGED vars
  BY <1>8 DEF Quiescent, vars
<1>9. QED
  BY <1>1, <1>2, <1>3, <1>4, <1>5, <1>6, <1>7, <1>8 DEF ServerNext

(* What holds of Hub holds of the hub inside the server, because the server  *)
(* is built from its steps.                                                  *)
LEMMA HubInServer == ServerSpec => HubSpec
<1>1. ServerInit => HubInit
  BY DEF ServerInit
<1>2. QED
  BY <1>1, ServerStepIsHubStep, PTL DEF ServerSpec, HubSpec

(* The map, the gauge and the contexts are consistent while handlers, write  *)
(* loops, the pump and Run use them (server.go:204-208, hub.go:29-55).       *)
THEOREM ServerRegistryCorrect == ServerSpec => [](HubTypeOK /\ RegistryInv)
BY HubInServer, HubTypeCorrect, RegistryCorrect, PTL
-----------------------------------------------------------------------------
(* A write loop that is sending has taken a packet from the queue. *)
WriterHolds == \A s \in Session : writer[s] = "send" => received[s] # <<>>

TypeInv == ServerTypeOK /\ WriterHolds

LEMMA TypeInit == ServerInit => TypeInv
<1> SUFFICES ASSUME ServerInit PROVE TypeInv
  OBVIOUS
<1> USE ServerAssumption DEF ServerInit
<1>1. /\ pc \in [Session -> HandlerPc]
      /\ conn \in [Session -> {"none", "open", "closed"}]
      /\ mtu \in [Session -> 0..ServerMTU]
      /\ payload \in [Session -> 0..ServerMTU]
      /\ late \in [Session -> Nat]
      /\ writer \in [Session -> {"off", "select", "send", "dead"}]
  BY DEF HandlerPc
<1>2. wire \in [Session -> Seq(Packet)]
  OBVIOUS
<1>3. /\ pump \in {"running", "dead"}
      /\ run \in {"start", "listening", "serving", "closing", "draining", "returned"}
      /\ accepting \in BOOLEAN /\ ctxDone \in BOOLEAN /\ devOpen \in BOOLEAN
      /\ writeErr \subseteq Session
      /\ errCh \subseteq {"canceled", "failed"}
  OBVIOUS
<1>4. WriterHolds
  BY DEF WriterHolds
<1>5. QED
  BY <1>1, <1>2, <1>3, <1>4 DEF TypeInv, ServerTypeOK

(* The steps of a handler, of its timeouts and of its client. *)
LEMMA TypeHandler ==
  ASSUME HubTypeOK, TypeInv, NEW s \in Session, HandlerStep(s) \/ TimeoutStep(s) \/ ClientStep(s)
  PROVE  TypeInv'
<1> USE ServerAssumption DEF TypeInv, ServerTypeOK, WriterHolds, HandlerPc, Goto, Shut
<1> USE DEF hubVars, handlerVars, writerVars, runVars, queueVars
<1>1. CASE WriteWelcome(s) \/ WriteWelcomeFail(s)
  BY <1>1 DEF WriteWelcome, WriteWelcomeFail
<1>2. CASE TunnelInstall(s)
  BY <1>2 DEF TunnelInstall, RegisterInstall
<1>3. CASE TunnelEffect(s)
  BY <1>3 DEF TunnelEffect, RegisterEffect
<1>4. CASE TunnelRegistered(s)
  BY <1>4 DEF TunnelRegistered, RegisterReturn
<1>5. CASE TunnelRefused(s)
  BY <1>5 DEF TunnelRefused, RegisterRefuse
<1>6. CASE CloseRefused(s)
  BY <1>6 DEF CloseRefused
<1>7. CASE CheckStop(s)
  BY <1>7 DEF CheckStop
<1>8. CASE ReadError(s)
  BY <1>8 DEF ReadError
<1>9. CASE WritePacket(s)
  BY <1>9 DEF WritePacket
<1>10. CASE WritePacketFail(s)
  BY <1>10 DEF WritePacketFail
<1>11. CASE TunnelUnregister(s)
  BY <1>11 DEF TunnelUnregister, Unregister
<1>12. CASE PeerCancel(s)
  BY <1>12 DEF PeerCancel, Cancel
<1>13. CASE CloseNow(s)
  BY <1>13 DEF CloseNow
<1>14. CASE ReadHelloFail(s)
  BY <1>14 DEF ReadHelloFail
<1>15. CASE ReadIdle(s)
  BY <1>15 DEF ReadIdle
<1>16. CASE RejectRequest(s)
  BY <1>16 DEF RejectRequest
<1>17. CASE AcceptRequest(s)
  BY <1>17 DEF AcceptRequest
<1>18. ASSUME NEW m \in HelloMTU, ReadHello(s, m) PROVE TypeInv'
  BY <1>18 DEF ReadHello
<1>19. ASSUME NEW f \in Frame, ReadFrame(s, f) PROVE TypeInv'
  <2>1. CASE Acceptable(s, f)
    <3>1. f.len \in 0..ServerMTU
      BY <2>1 DEF Acceptable
    <3>2. QED
      BY <1>19, <2>1, <3>1 DEF ReadFrame
  <2>2. CASE ~Acceptable(s, f)
    BY <1>19, <2>2 DEF ReadFrame
  <2>3. QED
    BY <2>1, <2>2
<1>20. CASE ReadMalformed(s)
  BY <1>20 DEF ReadMalformed
<1>21. CASE ConnLost(s)
  BY <1>21 DEF ConnLost
<1>22. CASE WriterPingFail(s)
  BY <1>22 DEF WriterPingFail, WriterExit
<1>23. QED
  BY <1>1, <1>2, <1>3, <1>4, <1>5, <1>6, <1>7, <1>8, <1>9, <1>10, <1>11, <1>12, <1>13,
     <1>14, <1>15, <1>16, <1>17, <1>18, <1>19, <1>20, <1>21, <1>22
  DEF HandlerStep, TimeoutStep, ClientStep

LEMMA TypeWriter ==
  ASSUME HubTypeOK, TypeInv, NEW s \in Session, WriterStep(s)
  PROVE  TypeInv'
<1> USE ServerAssumption DEF TypeInv, ServerTypeOK, WriterHolds, Shut, WriterExit
<1> USE DEF hubVars, handlerVars, writerVars, runVars, queueVars
<1>1. CASE WriterDone(s)
  BY <1>1 DEF WriterDone
<1>2. CASE WriterTake(s)
  <2>1. /\ received' = [received EXCEPT ![s] = Append(@, Head(sendq[s]))]
        /\ sendq[s] # <<>> /\ writer' = [writer EXCEPT ![s] = "send"]
        /\ UNCHANGED <<handlerVars, conn, writeErr, wire, pump, runVars>>
    BY <1>2 DEF WriterTake, Receive
  <2>2. received[s] \in Seq(Packet) /\ Head(sendq[s]) \in Packet
    BY <2>1 DEF HubTypeOK
  <2>3. received'[s] # <<>>
    BY <2>1, <2>2 DEF HubTypeOK
  <2>4. WriterHolds'
    BY <2>1, <2>3 DEF HubTypeOK
  <2>5. ServerTypeOK'
    BY <2>1
  <2>6. QED
    BY <2>4, <2>5
<1>3. CASE WriterSend(s)
  <2>1. received[s] \in Seq(Packet) /\ received[s] # <<>>
    BY <1>3 DEF WriterSend, HubTypeOK
  <2>2. InHand(s) \in Packet
    BY <2>1 DEF InHand
  <2>3. QED
    BY <1>3, <2>2 DEF WriterSend
<1>4. CASE WriterSendFail(s)
  BY <1>4 DEF WriterSendFail
<1>5. QED
  BY <1>1, <1>2, <1>3, <1>4 DEF WriterStep

LEMMA TypeRun ==
  ASSUME HubTypeOK, TypeInv,
         RunStep \/ PumpSend \/ PumpFail \/ ServeFail \/ CancelRun \/ Quiescent \/ UNCHANGED vars
  PROVE  TypeInv'
<1> USE DEF TypeInv, ServerTypeOK, WriterHolds, Return
<1> USE DEF hubVars, handlerVars, writerVars, runVars, queueVars
<1>1. CASE ListenTunnel
  BY <1>1 DEF ListenTunnel
<1>2. CASE ListenTunnelFail
  BY <1>2 DEF ListenTunnelFail
<1>3. CASE ListenMetrics
  BY <1>3 DEF ListenMetrics
<1>4. CASE ListenMetricsFail
  BY <1>4 DEF ListenMetricsFail
<1>5. CASE RunCtxDone
  BY <1>5 DEF RunCtxDone, CloseAllSnapshot
<1>6. ASSUME NEW s \in Session, RunCloseAll(s) PROVE TypeInv'
  BY <1>6 DEF RunCloseAll, CloseAllCancel
<1>7. CASE RunShutdown
  BY <1>7 DEF RunShutdown
<1>8. CASE RunShutdownDone
  BY <1>8 DEF RunShutdownDone
<1>9. CASE RunCanceled
  BY <1>9 DEF RunCanceled
<1>10. CASE RunFailed
  BY <1>10 DEF RunFailed
<1>11. CASE PumpSend
  BY <1>11 DEF PumpSend, DispatchSend
<1>12. CASE PumpFail
  BY <1>12 DEF PumpFail
<1>13. CASE ServeFail
  BY <1>13 DEF ServeFail
<1>14. CASE CancelRun
  BY <1>14 DEF CancelRun
<1>15. CASE Quiescent \/ UNCHANGED vars
  BY <1>15 DEF Quiescent, vars
<1>16. QED
  BY <1>1, <1>2, <1>3, <1>4, <1>5, <1>6, <1>7, <1>8, <1>9, <1>10, <1>11, <1>12, <1>13,
     <1>14, <1>15 DEF RunStep

LEMMA TypePump ==
  ASSUME TypeInv, NEW p \in Packet, PumpDispatch(p)
  PROVE  TypeInv'
BY DEF PumpDispatch, DispatchLookup, TypeInv, ServerTypeOK, WriterHolds,
       handlerVars, writerVars, runVars

LEMMA TypeInvariant == ServerSpec => []TypeInv
<1>1. HubTypeOK /\ TypeInv /\ [ServerNext]_vars => TypeInv'
  BY TypeHandler, TypeWriter, TypeRun, TypePump DEF ServerNext
<1>2. QED
  BY <1>1, TypeInit, ServerRegistryCorrect, PTL DEF ServerSpec

(* Type correctness of the server's own state. *)
THEOREM ServerTypeCorrect == ServerSpec => []ServerTypeOK
<1>1. TypeInv => ServerTypeOK
  BY DEF TypeInv
<1>2. QED
  BY <1>1, TypeInvariant, PTL
-----------------------------------------------------------------------------
(* Where a handler is decides where it is in its use of the hub, whether its *)
(* write loop was started, and that its context and connection are ended     *)
(* before it is done.                                                        *)
SessionInv(s) ==
  /\ pc[s] \in {"idle", "hello", "welcome"} => hub[s] = "out"
  /\ pc[s] = "register" => hub[s] \in {"out", "installed", "counted"}
  /\ pc[s] = "refused" => hub[s] = "refused"
  /\ pc[s] \in {"check", "read", "write", "unregister"} => hub[s] = "in"
  /\ pc[s] \in {"cancel", "close", "done"} => hub[s] \in {"out", "refused", "left"}
  /\ writer[s] # "off" => hub[s] \in {"in", "left"}
  /\ pc[s] \in {"close", "done"} /\ hub[s] = "left" => s \in cancelled
  /\ pc[s] = "idle" => conn[s] = "none"
  /\ pc[s] = "done" => conn[s] # "open"

(* A session that has put a packet on the TUN after its cancellation is on   *)
(* its way out: it does not read again.                                      *)
LateInv(s) ==
  /\ late[s] \in 0..1
  /\ late[s] = 1 => s \in cancelled /\ pc[s] \in {"check", "unregister", "cancel", "close", "done"}

HandlerInv == \A s \in Session : SessionInv(s) /\ LateInv(s)

LEMMA HandlerInit == ServerInit => HandlerInv
BY DEF ServerInit, HubInit, HandlerInv, SessionInv, LateInv

LEMMA HandlerHandler ==
  ASSUME HubTypeOK, TypeInv, HandlerInv, NEW s \in Session,
         HandlerStep(s) \/ TimeoutStep(s) \/ ClientStep(s)
  PROVE  HandlerInv'
<1> USE DEF TypeInv, ServerTypeOK, HubTypeOK, HubPhase, HandlerPc, Goto, Shut
<1> USE DEF HandlerInv, SessionInv, LateInv
<1> USE DEF hubVars, registryVars, handlerVars, writerVars, runVars, queueVars, closeVars
<1>1. CASE WriteWelcome(s) \/ WriteWelcomeFail(s)
  <2>1. CASE WriteWelcome(s)
    BY <2>1 DEF WriteWelcome
  <2>2. CASE WriteWelcomeFail(s)
    BY <2>2 DEF WriteWelcomeFail
  <2>3. QED
    BY <1>1, <2>1, <2>2
<1>2. CASE TunnelInstall(s)
  BY <1>2 DEF TunnelInstall, RegisterInstall
<1>3. CASE TunnelEffect(s)
  BY <1>3 DEF TunnelEffect, RegisterEffect
<1>4. CASE TunnelRegistered(s)
  BY <1>4 DEF TunnelRegistered, RegisterReturn
<1>5. CASE TunnelRefused(s)
  BY <1>5 DEF TunnelRefused, RegisterRefuse
<1>6. CASE CloseRefused(s)
  BY <1>6 DEF CloseRefused
<1>7. CASE CheckStop(s)
  BY <1>7 DEF CheckStop, Stopped
<1>8. CASE ReadError(s)
  BY <1>8 DEF ReadError
<1>9. CASE WritePacket(s)
  BY <1>9 DEF WritePacket
<1>10. CASE WritePacketFail(s)
  BY <1>10 DEF WritePacketFail
<1>11. CASE TunnelUnregister(s)
  BY <1>11 DEF TunnelUnregister, Unregister
<1>12. CASE PeerCancel(s)
  BY <1>12 DEF PeerCancel, Cancel
<1>13. CASE CloseNow(s)
  BY <1>13 DEF CloseNow
<1>14. CASE ReadHelloFail(s)
  BY <1>14 DEF ReadHelloFail
<1>15. CASE ReadIdle(s)
  BY <1>15 DEF ReadIdle
<1>16. CASE RejectRequest(s)
  BY <1>16 DEF RejectRequest
<1>17. CASE AcceptRequest(s)
  BY <1>17 DEF AcceptRequest
<1>18. ASSUME NEW m \in HelloMTU, ReadHello(s, m) PROVE HandlerInv'
  BY <1>18 DEF ReadHello
<1>19. ASSUME NEW f \in Frame, ReadFrame(s, f) PROVE HandlerInv'
  <2>1. /\ pc[s] = "read"
        /\ pc' = [pc EXCEPT ![s] = "write"] \/ pc' = [pc EXCEPT ![s] = "unregister"]
        /\ UNCHANGED <<hub, writer, cancelled, conn, late>>
    BY <1>19, Zenon DEF ReadFrame
  <2>2. CASE pc' = [pc EXCEPT ![s] = "write"]
    BY <2>1, <2>2
  <2>3. CASE pc' = [pc EXCEPT ![s] = "unregister"]
    BY <2>1, <2>3
  <2>4. QED
    BY <2>1, <2>2, <2>3
<1>20. CASE ReadMalformed(s)
  BY <1>20 DEF ReadMalformed
<1>21. CASE ConnLost(s)
  BY <1>21 DEF ConnLost
<1>22. CASE WriterPingFail(s)
  BY <1>22 DEF WriterPingFail, WriterExit
<1>23. QED
  BY <1>1, <1>2, <1>3, <1>4, <1>5, <1>6, <1>7, <1>8, <1>9, <1>10, <1>11, <1>12, <1>13,
     <1>14, <1>15, <1>16, <1>17, <1>18, <1>19, <1>20, <1>21, <1>22
  DEF HandlerStep, TimeoutStep, ClientStep

LEMMA HandlerWriter ==
  ASSUME HubTypeOK, TypeInv, HandlerInv, NEW s \in Session, WriterStep(s)
  PROVE  HandlerInv'
<1> USE DEF TypeInv, ServerTypeOK, Shut, WriterExit
<1> USE DEF hubVars, registryVars, handlerVars
<1>1. /\ UNCHANGED <<pc, hub, late, cancelled>>
      /\ \A t \in Session : /\ writer'[t] = writer[t] \/ writer[t] # "off"
                            /\ conn'[t] = conn[t] \/ conn'[t] = "closed"
  <2>1. CASE WriterDone(s)
    BY <2>1 DEF WriterDone
  <2>2. CASE WriterTake(s)
    BY <2>2 DEF WriterTake, Receive
  <2>3. CASE WriterSend(s)
    BY <2>3 DEF WriterSend
  <2>4. CASE WriterSendFail(s)
    BY <2>4 DEF WriterSendFail
  <2>5. QED
    BY <2>1, <2>2, <2>3, <2>4 DEF WriterStep
<1>2. \A t \in Session : conn'[t] = conn[t] \/ pc[t] # "idle"
  <2>1. hub[s] # "out"
    BY DEF WriterStep, WriterDone, WriterTake, WriterSend, WriterSendFail, HandlerInv, SessionInv
  <2>2. pc[s] # "idle"
    BY <2>1 DEF HandlerInv, SessionInv
  <2>3. \A t \in Session \ {s} : conn'[t] = conn[t]
    BY DEF WriterStep, WriterDone, WriterTake, WriterSend, WriterSendFail
  <2>4. QED
    BY <2>2, <2>3
<1>3. QED
  BY <1>1, <1>2 DEF HandlerInv, SessionInv, LateInv

(* The pump and Run touch no handler; Run may cancel sessions. *)
LEMMA HandlerRun ==
  ASSUME HandlerInv,
         UNCHANGED <<pc, hub, late, writer, conn>>, cancelled \subseteq cancelled'
  PROVE  HandlerInv'
BY DEF HandlerInv, SessionInv, LateInv

LEMMA HandlerNext == HubTypeOK /\ TypeInv /\ HandlerInv /\ [ServerNext]_vars => HandlerInv'
<1> SUFFICES ASSUME HubTypeOK, TypeInv, HandlerInv, [ServerNext]_vars PROVE HandlerInv'
  OBVIOUS
<1> USE DEF hubVars, registryVars, handlerVars, writerVars
<1>1. ASSUME NEW s \in Session, HandlerStep(s) \/ TimeoutStep(s) \/ ClientStep(s)
      PROVE  HandlerInv'
  BY <1>1, HandlerHandler
<1>2. ASSUME NEW s \in Session, WriterStep(s) PROVE HandlerInv'
  BY <1>2, HandlerWriter
<1>3. ASSUME NEW p \in Packet, PumpDispatch(p) PROVE HandlerInv'
  BY <1>3, HandlerRun DEF PumpDispatch, DispatchLookup
<1>4. CASE PumpSend
  BY <1>4, HandlerRun DEF PumpSend, DispatchSend
<1>5. CASE RunStep
  <2>1. CASE RunCtxDone
    BY <2>1, HandlerRun DEF RunCtxDone, CloseAllSnapshot
  <2>2. ASSUME NEW s \in Session, RunCloseAll(s) PROVE HandlerInv'
    BY <2>2, HandlerRun DEF RunCloseAll, CloseAllCancel
  <2>3. CASE \/ ListenTunnel \/ ListenTunnelFail \/ ListenMetrics \/ ListenMetricsFail
             \/ RunShutdown \/ RunShutdownDone \/ RunCanceled \/ RunFailed
    BY <2>3, HandlerRun DEF ListenTunnel, ListenTunnelFail, ListenMetrics, ListenMetricsFail,
                RunShutdown, RunShutdownDone, RunCanceled, RunFailed
  <2>4. QED
    BY <1>5, <2>1, <2>2, <2>3 DEF RunStep
<1>6. CASE PumpFail \/ ServeFail \/ CancelRun
  BY <1>6, HandlerRun DEF PumpFail, ServeFail, CancelRun
<1>7. CASE Quiescent \/ UNCHANGED vars
  BY <1>7, HandlerRun DEF Quiescent, vars
<1>8. QED
  BY <1>1, <1>2, <1>3, <1>4, <1>5, <1>6, <1>7 DEF ServerNext

LEMMA HandlerInvariant == ServerSpec => []HandlerInv
BY TypeInvariant, HandlerInit, HandlerNext, ServerRegistryCorrect, PTL DEF ServerSpec

(* A handler that is done has left nothing behind. *)
THEOREM DoneHandlersAreClean == ServerSpec => []DoneIsClean
<1>1. HandlerInv /\ RoutesAreLive => DoneIsClean
  <2> SUFFICES ASSUME HandlerInv, RoutesAreLive, NEW s \in Session, pc[s] = "done"
               PROVE  /\ \A a \in Addr : peers[a] # s
                      /\ conn[s] # "open"
                      /\ writer[s] # "off" => s \in cancelled
    BY DEF DoneIsClean
  <2>1. hub[s] \in {"out", "refused", "left"} /\ conn[s] # "open"
    BY DEF HandlerInv, SessionInv
  <2>2. writer[s] # "off" => s \in cancelled
    BY DEF HandlerInv, SessionInv
  <2>3. \A a \in Addr : peers[a] # s
    BY <2>1, HubAssumption DEF RoutesAreLive, Member
  <2>4. QED
    BY <2>1, <2>2, <2>3
<1>2. QED
  BY <1>1, HandlerInvariant, ServerRegistryCorrect, PTL DEF RegistryInv

(* A cancelled session puts at most one more packet on the TUN. *)
THEOREM CancelledSessionsFallSilent == ServerSpec => []AtMostOneLatePacket
<1>1. HandlerInv => AtMostOneLatePacket
  BY DEF HandlerInv, LateInv, AtMostOneLatePacket
<1>2. QED
  BY <1>1, HandlerInvariant, PTL
-----------------------------------------------------------------------------
(* The write loops.  What a loop has written is what it has taken, except    *)
(* for the packet in its hands while it is sending; a loop that has ended    *)
(* may have kept that one.                                                   *)
AllWritten(s) == received[s] = wire[s]

AllButOneWritten(s) ==
  received[s] # <<>> /\ wire[s] = SubSeq(received[s], 1, Len(received[s]) - 1)

WireInv(s) ==
  /\ writer[s] \in {"off", "select"} => AllWritten(s)
  /\ writer[s] = "send" => AllButOneWritten(s)
  /\ writer[s] = "dead" => AllWritten(s) \/ AllButOneWritten(s)

WritersInv == \A s \in Session : WireInv(s)

LEMMA WritersInit == ServerInit => WritersInv
BY DEF ServerInit, HubInit, WritersInv, WireInv, AllWritten

(* A step that leaves what was received and written alone, and starts a      *)
(* write loop at most at the head of its select.                             *)
LEMMA WritersUntouched ==
  ASSUME WritersInv, UNCHANGED <<received, wire>>,
         \A s \in Session : \/ writer'[s] = writer[s]
                            \/ writer[s] \in {"off", "select"} /\ writer'[s] \in {"select", "dead"}
                            \/ writer[s] = "send" /\ writer'[s] = "dead"
  PROVE  WritersInv'
BY DEF WritersInv, WireInv, AllWritten, AllButOneWritten

LEMMA WritersHandler ==
  ASSUME TypeInv, WritersInv, NEW s \in Session,
         HandlerStep(s) \/ TimeoutStep(s) \/ ClientStep(s), SessionInv(s)
  PROVE  WritersInv'
<1> USE DEF hubVars, queueVars, writerVars
<1>1. CASE TunnelRegistered(s)
  <2>1. UNCHANGED <<received, wire>> /\ writer' = [writer EXCEPT ![s] = "select"]
    BY <1>1 DEF TunnelRegistered, RegisterReturn
  <2>2. writer \in [Session -> {"off", "select", "send", "dead"}] /\ writer[s] = "off"
    BY <1>1 DEF TunnelRegistered, RegisterReturn, SessionInv, TypeInv, ServerTypeOK
  <2>3. QED
    BY <2>1, <2>2, WritersUntouched
<1>2. CASE WriterPingFail(s)
  <2>1. UNCHANGED <<received, wire>> /\ writer' = [writer EXCEPT ![s] = "dead"] /\ writer[s] = "select"
    BY <1>2 DEF WriterPingFail, WriterExit
  <2>2. QED
    BY <2>1, WritersUntouched DEF TypeInv, ServerTypeOK
<1>3. ASSUME ~TunnelRegistered(s), ~WriterPingFail(s) PROVE UNCHANGED <<received, wire, writer>>
  <2>1. CASE HandlerStep(s)
    BY <1>3, <2>1 DEF HandlerStep, WriteWelcome, WriteWelcomeFail, TunnelInstall, RegisterInstall,
       TunnelEffect, RegisterEffect, TunnelRefused, RegisterRefuse, CloseRefused, CheckStop,
       ReadError, WritePacket, WritePacketFail, TunnelUnregister, Unregister, PeerCancel, Cancel,
       CloseNow
  <2>2. CASE TimeoutStep(s) \/ ClientStep(s)
    BY <1>3, <2>2 DEF TimeoutStep, ClientStep, ReadHelloFail, ReadIdle, RejectRequest,
       AcceptRequest, ReadHello, ReadFrame, ReadMalformed, ConnLost
  <2>3. QED
    BY <2>1, <2>2
<1>4. QED
  BY <1>1, <1>2, <1>3, WritersUntouched

LEMMA WritersWriter ==
  ASSUME HubTypeOK, TypeInv, WritersInv, NEW s \in Session, WriterStep(s)
  PROVE  WritersInv'
<1> USE DEF hubVars, queueVars
<1>1. /\ writer \in [Session -> {"off", "select", "send", "dead"}]
      /\ wire \in [Session -> Seq(Packet)]
      /\ received \in [Session -> Seq(Packet)] /\ sendq \in [Session -> Seq(Packet)]
  BY DEF TypeInv, ServerTypeOK, HubTypeOK
<1>2. CASE WriterDone(s) \/ WriterSendFail(s)
  <2>1. /\ UNCHANGED <<received, wire>> /\ writer' = [writer EXCEPT ![s] = "dead"]
        /\ writer[s] \in {"select", "send"}
    BY <1>2 DEF WriterDone, WriterSendFail, WriterExit
  <2>2. QED
    BY <1>1, <2>1, WritersUntouched
<1>3. CASE WriterTake(s)
  <2>1. /\ received' = [received EXCEPT ![s] = Append(@, Head(sendq[s]))]
        /\ sendq[s] # <<>> /\ wire' = wire
        /\ writer[s] = "select" /\ writer' = [writer EXCEPT ![s] = "send"]
    BY <1>3 DEF WriterTake, Receive
  <2>2. \A t \in Session \ {s} : WireInv(t)'
    BY <1>1, <2>1 DEF WritersInv, WireInv, AllWritten, AllButOneWritten
  <2>3. Head(sendq[s]) \in Packet /\ received'[s] = Append(received[s], Head(sendq[s]))
    BY <1>1, <2>1, HeadTailProperties
  <2>4. /\ received'[s] # <<>> /\ Len(received'[s]) - 1 = Len(received[s])
        /\ SubSeq(received'[s], 1, Len(received[s])) = received[s]
    <3>1. /\ received'[s] \in Seq(Packet) /\ received'[s] # <<>>
          /\ Len(received'[s]) = Len(received[s]) + 1
          /\ \A i \in 1..Len(received[s]) : received'[s][i] = received[s][i]
          /\ Len(received[s]) \in Nat
      <4> DEFINE r == received[s]
                 h == Head(sendq[s])
      <4>1. r \in Seq(Packet) /\ h \in Packet
        BY <1>1, <2>3
      <4>2. /\ Append(r, h) \in Seq(Packet) /\ Append(r, h) # <<>>
            /\ Len(Append(r, h)) = Len(r) + 1
            /\ \A i \in 1..Len(r) : Append(r, h)[i] = r[i]
        BY <4>1, AppendProperties
      <4>3. Len(r) \in Nat
        BY <4>1, LenProperties
      <4>4. QED
        BY <2>3, <4>2, <4>3
    <3>2. ASSUME NEW i \in 1..Len(received[s]) PROVE received'[s][i] \in Packet
      <4>1. received'[s][i] = received[s][i]
        BY <3>1
      <4>2. received[s] \in Seq(Packet)
        BY <1>1
      <4>3. QED
        BY <4>1, <4>2, ElementOfSeq
    <3>3. /\ SubSeq(received'[s], 1, Len(received[s])) \in Seq(Packet)
          /\ Len(SubSeq(received'[s], 1, Len(received[s]))) = Len(received[s])
          /\ \A i \in 1..Len(received[s]) :
               SubSeq(received'[s], 1, Len(received[s]))[i] = received'[s][i]
      <4>1. Len(received[s]) \in Int /\ 1 \in Int
        BY <3>1
      <4> DEFINE n == Len(received[s])
                 f == SubSeq(received'[s], 1, n)
      <4>2. /\ f \in Seq(Packet)
            /\ Len(f) = IF 1 <= n THEN n - 1 + 1 ELSE 0
            /\ \A i \in 1..(n - 1 + 1) : f[i] = received'[s][1 + i - 1]
        BY <3>2, <4>1, SubSeqProperties
      <4>3. QED
        BY <3>1, <4>2
    <3>4. QED
      BY <1>1, <3>1, <3>3, SeqEqual
  <2>5. wire'[s] = received[s] /\ writer'[s] = "send"
    BY <1>1, <2>1 DEF WritersInv, WireInv, AllWritten
  <2>6. WireInv(s)'
    BY <2>4, <2>5 DEF WireInv, AllButOneWritten
  <2>7. QED
    BY <2>2, <2>6 DEF WritersInv
<1>4. CASE WriterSend(s)
  <2>1. /\ received' = received /\ writer[s] = "send"
        /\ wire' = [wire EXCEPT ![s] = Append(@, received[s][Len(received[s])])]
        /\ writer' = [writer EXCEPT ![s] = "select"]
    BY <1>4 DEF WriterSend, InHand
  <2>2. \A t \in Session \ {s} : WireInv(t)'
    BY <1>1, <2>1 DEF WritersInv, WireInv, AllWritten, AllButOneWritten
  <2>3. AllButOneWritten(s) /\ Len(received[s]) \in Nat \ {0}
    BY <1>1, <2>1, EmptySeq DEF WritersInv, WireInv, AllButOneWritten
  <2>4. Append(wire[s], received[s][Len(received[s])]) = received[s]
    <3> DEFINE r == received[s]
               n == Len(received[s])
    <3>1. SubSeq(r, 1, n) = SubSeq(r, 1, n - 1) \o <<r[n]>>
      <4>1. r \in Seq(Packet) /\ 1 \in 1..n /\ n \in 1..n
        BY <1>1, <2>3
      <4>2. QED
        BY <4>1, SubSeqRecursiveSecond
    <3>2. SubSeq(r, 1, n) = r /\ wire[s] = SubSeq(r, 1, n - 1) /\ r[n] \in Packet
      BY <1>1, <2>3, SubSeqFull, ElementOfSeq DEF AllButOneWritten
    <3>3. Append(wire[s], r[n]) = wire[s] \o <<r[n]>>
      BY <1>1, <3>2, AppendIsConcat
    <3>4. QED
      BY <3>1, <3>2, <3>3
  <2>5. WireInv(s)'
    BY <1>1, <2>1, <2>4 DEF WireInv, AllWritten
  <2>6. QED
    BY <2>2, <2>5 DEF WritersInv
<1>5. QED
  BY <1>2, <1>3, <1>4 DEF WriterStep

(* The pump and Run take nothing from the queues and write nothing. *)
LEMMA WritersRun ==
  ASSUME RunStep \/ PumpSend \/ PumpFail \/ ServeFail \/ CancelRun \/ Quiescent
         \/ UNCHANGED vars \/ (\E p \in Packet : PumpDispatch(p))
  PROVE  UNCHANGED <<received, wire, writer>>
<1> USE DEF hubVars, queueVars, writerVars
<1>1. CASE RunStep
  BY <1>1 DEF RunStep, ListenTunnel, ListenTunnelFail, ListenMetrics, ListenMetricsFail, RunCtxDone,
     CloseAllSnapshot, RunCloseAll, CloseAllCancel, RunShutdown, RunShutdownDone, RunCanceled,
     RunFailed
<1>2. CASE PumpSend \/ PumpFail \/ ServeFail \/ CancelRun
  BY <1>2 DEF PumpSend, DispatchSend, PumpFail, ServeFail, CancelRun
<1>3. CASE Quiescent \/ UNCHANGED vars
  BY <1>3 DEF Quiescent, vars
<1>4. CASE \E p \in Packet : PumpDispatch(p)
  BY <1>4 DEF PumpDispatch, DispatchLookup
<1>5. QED
  BY <1>1, <1>2, <1>3, <1>4

LEMMA WritersNext ==
  HubTypeOK /\ TypeInv /\ HandlerInv /\ WritersInv /\ [ServerNext]_vars => WritersInv'
<1> SUFFICES ASSUME HubTypeOK, TypeInv, HandlerInv, WritersInv, [ServerNext]_vars
             PROVE  WritersInv'
  OBVIOUS
<1>1. ASSUME NEW s \in Session, HandlerStep(s) \/ TimeoutStep(s) \/ ClientStep(s)
      PROVE  WritersInv'
  BY <1>1, WritersHandler DEF HandlerInv
<1>2. ASSUME NEW s \in Session, WriterStep(s) PROVE WritersInv'
  BY <1>2, WritersWriter
<1>3. ASSUME UNCHANGED <<received, wire, writer>> PROVE WritersInv'
  BY <1>3, WritersUntouched
<1>4. QED
  BY <1>1, <1>2, <1>3, WritersRun DEF ServerNext

LEMMA WritersInvariant == ServerSpec => []WritersInv
BY TypeInvariant, WritersInit, WritersNext, HandlerInvariant, ServerRegistryCorrect, PTL
DEF ServerSpec

(* A write loop loses at most the packet in its hands (server.go:249-276). *)
THEOREM OnlyTheLastIsLost == ServerSpec => []LosesOnlyTheLast
<1>1. TypeInv /\ WritersInv => LosesOnlyTheLast
  BY DEF TypeInv, ServerTypeOK, WritersInv, WireInv, AllWritten, AllButOneWritten, LosesOnlyTheLast
<1>2. QED
  BY <1>1, TypeInvariant, WritersInvariant, PTL
(* What has been written to a session is the beginning of what it carries. *)
LEMMA WireIsCarried ==
  ASSUME HubTypeOK, TypeInv, WritersInv, NEW s \in Session, NEW i \in 1..Len(wire[s])
  PROVE  i \in 1..Len(Carried(s)) /\ wire[s][i] = Carried(s)[i]
<1>1. received[s] \in Seq(Packet) /\ sendq[s] \in Seq(Packet) /\ wire[s] \in Seq(Packet)
  BY DEF HubTypeOK, TypeInv, ServerTypeOK
<1>2. Len(received[s]) \in Nat /\ Len(sendq[s]) \in Nat /\ Len(wire[s]) \in Nat
  BY <1>1, LenProperties
<1>3. i \in 1..Len(received[s]) /\ wire[s][i] = received[s][i]
  <2>1. CASE AllWritten(s)
    BY <2>1 DEF AllWritten
  <2>2. CASE AllButOneWritten(s)
    <3> DEFINE n == Len(received[s]) - 1
               f == SubSeq(received[s], 1, n)
    <3>1. n \in Nat /\ wire[s] = f
      BY <1>1, <1>2, <2>2, EmptySeq DEF AllButOneWritten
    <3>2. \A j \in 1..n : received[s][j] \in Packet
      BY <1>1, <1>2, <3>1, ElementOfSeq
    <3>3. n \in Int /\ 1 \in Int
      BY <3>1
    <3>4. /\ Len(f) = IF 1 <= n THEN n - 1 + 1 ELSE 0
          /\ \A j \in 1..(n - 1 + 1) : f[j] = received[s][1 + j - 1]
      BY <3>2, <3>3, SubSeqProperties
    <3>5. i \in 1..n /\ n - 1 + 1 = n /\ 1 + i - 1 = i
      BY <1>2, <3>1, <3>4
    <3>6. QED
      BY <1>2, <3>1, <3>4, <3>5
  <2>3. QED
    BY <2>1, <2>2 DEF TypeInv, ServerTypeOK, WritersInv, WireInv
<1> DEFINE r == received[s]
           q == sendq[s]
<1>4. /\ Len(r \o q) = Len(r) + Len(q)
      /\ \A j \in 1..Len(r) + Len(q) : (r \o q)[j] = IF j <= Len(r) THEN r[j] ELSE q[j - Len(r)]
  BY <1>1, ConcatProperties
<1>5. i \in 1..Len(r) + Len(q) /\ i <= Len(r)
  <2>1. \A m, n \in Nat : \A k \in 1..m : k \in 1..m + n /\ k <= m
    OBVIOUS
  <2>2. QED
    BY <1>2, <1>3, <2>1
<1>6. Carried(s) = r \o q
  BY DEF Carried
<1>7. (r \o q)[i] = r[i]
  BY <1>4, <1>5
<1>8. i \in 1..Len(r \o q)
  BY <1>4, <1>5
<1>9. QED
  BY <1>3, <1>6, <1>7, <1>8

(* A packet reaches at most one client, the one with its destination, and    *)
(* the packets of a client come in order (server.go:123-146, 249-276).       *)
THEOREM DeliveryIsCorrect == ServerSpec => []Delivery
<1>1. HubTypeOK /\ TypeInv /\ WritersInv /\ DispatchInv => Delivery
  <2> SUFFICES ASSUME HubTypeOK, TypeInv, WritersInv, DispatchInv,
                      NEW s \in Session, NEW i \in 1..Len(wire[s])
               PROVE  /\ wire[s][i].dst = AddrOf[s]
                      /\ \A j \in 1..Len(wire[s]) : i < j => wire[s][i].id < wire[s][j].id
                      /\ \A t \in Session \ {s} : \A j \in 1..Len(wire[t]) :
                           wire[s][i].id # wire[t][j].id
    BY DEF Delivery
  <2>1. i \in 1..Len(Carried(s)) /\ wire[s][i] = Carried(s)[i]
    BY WireIsCarried
  <2>2. wire[s][i].dst = AddrOf[s]
    BY <2>1 DEF DispatchInv, CarriedInv
  <2>3. ASSUME NEW j \in 1..Len(wire[s]), i < j PROVE wire[s][i].id < wire[s][j].id
    <3>1. j \in 1..Len(Carried(s)) /\ wire[s][j] = Carried(s)[j]
      BY WireIsCarried
    <3>2. QED
      BY <2>1, <2>3, <3>1 DEF DispatchInv, DispatchCorrect, InOrder
  <2>4. ASSUME NEW t \in Session \ {s}, NEW j \in 1..Len(wire[t])
        PROVE  wire[s][i].id # wire[t][j].id
    <3>1. j \in 1..Len(Carried(t)) /\ wire[t][j] = Carried(t)[j]
      BY WireIsCarried
    <3>2. QED
      BY <2>1, <3>1 DEF DispatchInv, DisjointInv
  <2>5. QED
    BY <2>2, <2>3, <2>4
<1>2. ServerSpec => []DispatchInv
  BY HubInServer, DispatchInvariant, PTL
<1>3. QED
  BY <1>1, <1>2, TypeInvariant, WritersInvariant, ServerRegistryCorrect, PTL
-----------------------------------------------------------------------------
(* Run.  The pump's report of a cancelled context is in errCh only when the  *)
(* context is cancelled and the pump has ended, which is the only way Run    *)
(* returns without closing the device.                                       *)
ReportInv == "canceled" \in errCh => ctxDone /\ pump = "dead"

RunInv == ReportInv /\ DeviceReleased

LEMMA RunInit == ServerInit => RunInv
BY DEF ServerInit, RunInv, ReportInv, DeviceReleased

LEMMA RunNext == RunInv /\ [ServerNext]_vars => RunInv'
<1> SUFFICES ASSUME RunInv, [ServerNext]_vars PROVE RunInv'
  OBVIOUS
<1> USE DEF RunInv, ReportInv, DeviceReleased, runVars, Return
<1>1. ASSUME UNCHANGED <<run, ctxDone, devOpen, errCh, pump>> PROVE RunInv'
  BY <1>1
<1>2. ASSUME NEW s \in Session, HandlerStep(s) PROVE RunInv'
  BY <1>1, <1>2 DEF HandlerStep, WriteWelcome, WriteWelcomeFail, TunnelInstall, TunnelEffect,
     TunnelRegistered, TunnelRefused, CloseRefused, CheckStop, ReadError, WritePacket,
     WritePacketFail, TunnelUnregister, PeerCancel, CloseNow
<1>3. ASSUME NEW s \in Session, TimeoutStep(s) \/ ClientStep(s) PROVE RunInv'
  BY <1>1, <1>3 DEF TimeoutStep, ClientStep, ReadHelloFail, ReadIdle, RejectRequest,
     AcceptRequest, ReadHello, ReadFrame, ReadMalformed, ConnLost, WriterPingFail
<1>4. ASSUME NEW s \in Session, WriterStep(s) PROVE RunInv'
  BY <1>1, <1>4 DEF WriterStep, WriterDone, WriterTake, WriterSend, WriterSendFail
<1>5. ASSUME NEW p \in Packet, PumpDispatch(p) PROVE RunInv'
  BY <1>1, <1>5 DEF PumpDispatch
<1>6. CASE PumpSend
  BY <1>1, <1>6 DEF PumpSend
<1>7. CASE PumpFail
  BY <1>7 DEF PumpFail
<1>8. CASE RunStep
  <2>1. CASE ListenTunnel \/ ListenMetrics
    BY <2>1 DEF ListenTunnel, ListenMetrics
  <2>2. CASE ListenTunnelFail \/ ListenMetricsFail \/ RunShutdownDone
    BY <2>2 DEF ListenTunnelFail, ListenMetricsFail, RunShutdownDone
  <2>3. CASE RunCtxDone \/ RunShutdown
    BY <2>3 DEF RunCtxDone, RunShutdown
  <2>4. ASSUME NEW s \in Session, RunCloseAll(s) PROVE RunInv'
    BY <1>1, <2>4 DEF RunCloseAll
  <2>5. CASE RunCanceled
    BY <2>5 DEF RunCanceled
  <2>6. CASE RunFailed
    BY <2>6 DEF RunFailed
  <2>7. QED
    BY <1>8, <2>1, <2>2, <2>3, <2>4, <2>5, <2>6 DEF RunStep
<1>9. CASE ServeFail \/ CancelRun
  BY <1>9 DEF ServeFail, CancelRun
<1>10. CASE Quiescent \/ UNCHANGED vars
  BY <1>1, <1>10 DEF Quiescent, vars
<1>11. QED
  BY <1>2, <1>3, <1>4, <1>5, <1>6, <1>7, <1>8, <1>9, <1>10 DEF ServerNext

(* Run returns with the device open only after the pump has reported the     *)
(* cancelled context (server.go:103-120).                                    *)
THEOREM DeviceIsReleased == ServerSpec => []DeviceReleased
<1>1. RunInv => DeviceReleased
  BY DEF RunInv
<1>2. QED
  BY <1>1, RunInit, RunNext, PTL DEF ServerSpec
==============================================================================
