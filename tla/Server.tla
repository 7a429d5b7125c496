------------------------------- MODULE Server -------------------------------
(***************************************************************************)
(* The server of internal/server/server.go: one tunnel handler and one     *)
(* write loop per session, the TUN pump, and Server.Run with its shutdown  *)
(* paths, all sharing the Hub.  Every step of a goroutine that touches the *)
(* hub is the step of Hub that the call makes; the others leave the hub    *)
(* alone, so that all that holds of Hub holds here.                        *)
(*                                                                         *)
(* The WebSocket (coder/websocket), the TUN device and the HTTP server are *)
(* external: a Read may return a frame, fail because the connection is     *)
(* gone or the context ended, or time out; it may return a frame that was  *)
(* already there although its context has just been cancelled.             *)
(***************************************************************************)
EXTENDS Hub

CONSTANTS
  ServerMTU,   \* cfg.MTU
  HelloMTU,    \* the sizes clients propose in HELLO
  Frame,       \* the packets clients send on a session: records with src and len
  Faults       \* which of "signal", "listen", "serve" and "tun" may happen to Run

ASSUME ServerAssumption ==
  /\ ServerMTU \in Nat \ {0}
  /\ HelloMTU \subseteq Nat \ {0}
  /\ \A f \in Frame : f.src \in Addr /\ f.len \in Nat \ {0}
  /\ \A p \in Packet : p.len \in 1..ServerMTU

VARIABLES
  pc,          \* where the tunnel handler of each session is
  conn,        \* the WebSocket of each session
  mtu,         \* the MTU the server put in WELCOME
  payload,     \* length of the packet between Read and WritePacket, 0 if none
  late,        \* ghost: packets put on the TUN after the session was cancelled
  writer,      \* the goroutine running writeLoop
  writeErr,    \* sessions whose channel writeErr holds writeLoop's result
  wire,        \* ghost: packets written to the WebSocket, in order
  pump,        \* the goroutine running packetLoop
  run,         \* where Server.Run is
  accepting,   \* the tunnel listener is open
  ctxDone,     \* Run's context is cancelled
  devOpen,     \* the TUN device is open
  errCh        \* the errors in Run's channel errCh

handlerVars == <<pc, mtu, payload, late>>
writerVars  == <<writer, writeErr, wire>>
runVars     == <<run, accepting, ctxDone, devOpen, errCh>>
vars        == <<hubVars, handlerVars, conn, writerVars, pump, runVars>>

ServerInit ==
  /\ HubInit
  /\ pc = [s \in Session |-> "idle"]
  /\ conn = [s \in Session |-> "none"]
  /\ mtu = [s \in Session |-> 0]
  /\ payload = [s \in Session |-> 0]
  /\ late = [s \in Session |-> 0]
  /\ writer = [s \in Session |-> "off"]
  /\ writeErr = {}
  /\ wire = [s \in Session |-> <<>>]
  /\ pump = "running"
  /\ run = "start" /\ accepting = FALSE /\ ctxDone = FALSE
  /\ devOpen = TRUE /\ errCh = {}

Goto(s, label) == pc' = [pc EXCEPT ![s] = label]

Shut(s) == conn' = [conn EXCEPT ![s] = "closed"]
-----------------------------------------------------------------------------
(* The handshake: lines 149-199 of tunnel. *)

(* authenticate fails, or websocket.Accept does: no session comes of it. *)
RejectRequest(s) ==
  /\ pc[s] = "idle" /\ accepting
  /\ Goto(s, "done")
  /\ UNCHANGED <<hubVars, mtu, payload, late, conn, writerVars, pump, runVars>>

AcceptRequest(s) ==
  /\ pc[s] = "idle" /\ accepting
  /\ Goto(s, "hello")
  /\ conn' = [conn EXCEPT ![s] = "open"]
  /\ UNCHANGED <<hubVars, mtu, payload, late, writerVars, pump, runVars>>

ReadHello_Unclamped(s, m) ==
  /\ pc[s] = "hello" /\ conn[s] = "open"
  /\ Goto(s, "welcome")
  /\ mtu' = [mtu EXCEPT ![s] = m]
  /\ UNCHANGED <<hubVars, payload, late, conn, writerVars, pump, runVars>>

ReadHello(s, m) ==
  /\ pc[s] = "hello" /\ conn[s] = "open"
  /\ Goto(s, "welcome")
  /\ mtu' = [mtu EXCEPT ![s] = IF m < ServerMTU THEN m ELSE ServerMTU]
  /\ UNCHANGED <<hubVars, payload, late, conn, writerVars, pump, runVars>>

(* The handshake timeout, a lost connection, or a message that is no valid HELLO. *)
ReadHelloFail(s) ==
  /\ pc[s] = "hello"
  /\ Goto(s, "close")
  /\ UNCHANGED <<hubVars, mtu, payload, late, conn, writerVars, pump, runVars>>

WriteWelcome(s) ==
  /\ pc[s] = "welcome" /\ conn[s] = "open"
  /\ Goto(s, "register")
  /\ UNCHANGED <<hubVars, mtu, payload, late, conn, writerVars, pump, runVars>>

WriteWelcomeFail(s) ==
  /\ pc[s] = "welcome"
  /\ Goto(s, "close")
  /\ UNCHANGED <<hubVars, mtu, payload, late, conn, writerVars, pump, runVars>>
-----------------------------------------------------------------------------
(* Register and, if it succeeds, the start of the write loop: lines 201-213. *)

TunnelInstall(s) ==
  /\ pc[s] = "register"
  /\ RegisterInstall(s)
  /\ UNCHANGED <<handlerVars, conn, writerVars, pump, runVars>>

TunnelEffect(s) ==
  /\ pc[s] = "register"
  /\ RegisterEffect(s)
  /\ UNCHANGED <<handlerVars, conn, writerVars, pump, runVars>>

TunnelRegistered(s) ==
  /\ pc[s] = "register"
  /\ RegisterReturn(s)
  /\ Goto(s, "check")
  /\ writer' = [writer EXCEPT ![s] = "select"]
  /\ UNCHANGED <<mtu, payload, late, conn, writeErr, wire, pump, runVars>>

TunnelRefused(s) ==
  /\ pc[s] = "register"
  /\ RegisterRefuse(s)
  /\ Goto(s, "refused")
  /\ UNCHANGED <<mtu, payload, late, conn, writerVars, pump, runVars>>

(* conn.Close(StatusTryAgainLater, ...): the client already has its WELCOME. *)
CloseRefused(s) ==
  /\ pc[s] = "refused"
  /\ Goto(s, "cancel")
  /\ Shut(s)
  /\ UNCHANGED <<hubVars, mtu, payload, late, writerVars, pump, runVars>>
-----------------------------------------------------------------------------
(* The loop of the handler: lines 214-247 of tunnel. *)

Stopped_ContextOnly(s) == s \in cancelled

Stopped_WriterOnly(s) == s \in writeErr

(* The first two cases of the select at the head of the loop. *)
Stopped(s) == s \in cancelled \/ s \in writeErr

CheckStop(s) ==
  /\ pc[s] = "check"
  /\ Goto(s, IF Stopped(s) THEN "unregister" ELSE "read")
  /\ UNCHANGED <<hubVars, mtu, payload, late, conn, writerVars, pump, runVars>>

Acceptable(s, f) == f.src = AddrOf[s] /\ f.len <= ServerMTU

ReadFrame(s, f) ==
  /\ pc[s] = "read" /\ conn[s] = "open"
  /\ IF Acceptable(s, f)
     THEN Goto(s, "write") /\ payload' = [payload EXCEPT ![s] = f.len]
     ELSE Goto(s, "unregister") /\ UNCHANGED payload
  /\ UNCHANGED <<hubVars, mtu, late, conn, writerVars, pump, runVars>>

(* A text message, a frame Decode rejects or that is no PACKET, a payload that is no IPv4. *)
ReadMalformed(s) ==
  /\ pc[s] = "read" /\ conn[s] = "open"
  /\ Goto(s, "unregister")
  /\ UNCHANGED <<hubVars, mtu, payload, late, conn, writerVars, pump, runVars>>

ReadError_DetachedContext(s) ==
  /\ pc[s] = "read" /\ conn[s] = "closed"
  /\ Goto(s, "unregister")
  /\ UNCHANGED <<hubVars, mtu, payload, late, conn, writerVars, pump, runVars>>

(* The connection is gone, or the peer context ended; the latter closes it. *)
ReadError(s) ==
  /\ pc[s] = "read" /\ (conn[s] = "closed" \/ s \in cancelled)
  /\ Goto(s, "unregister")
  /\ Shut(s)
  /\ UNCHANGED <<hubVars, mtu, payload, late, writerVars, pump, runVars>>

(* readCtx ends after cfg.Idle. *)
ReadIdle(s) ==
  /\ pc[s] = "read"
  /\ Goto(s, "unregister")
  /\ Shut(s)
  /\ UNCHANGED <<hubVars, mtu, payload, late, writerVars, pump, runVars>>

(* WritePacket under writeMu, on an open device. *)
WritePacket(s) ==
  /\ pc[s] = "write" /\ devOpen
  /\ Goto(s, "check")
  /\ payload' = [payload EXCEPT ![s] = 0]
  /\ late' = IF s \in cancelled THEN [late EXCEPT ![s] = @ + 1] ELSE late
  /\ UNCHANGED <<hubVars, mtu, conn, writerVars, pump, runVars>>

WritePacketFail_Ignored(s) ==
  /\ pc[s] = "write"
  /\ Goto(s, "check")
  /\ payload' = [payload EXCEPT ![s] = 0]
  /\ UNCHANGED <<hubVars, mtu, late, conn, writerVars, pump, runVars>>

(* The device is closed or refuses the packet. *)
WritePacketFail(s) ==
  /\ pc[s] = "write"
  /\ Goto(s, "unregister")
  /\ payload' = [payload EXCEPT ![s] = 0]
  /\ UNCHANGED <<hubVars, mtu, late, conn, writerVars, pump, runVars>>
-----------------------------------------------------------------------------
(* The deferred calls, last deferred first: Unregister, peerCancel, CloseNow. *)

TunnelUnregister_Skipped(s) ==
  /\ pc[s] = "unregister"
  /\ Goto(s, "cancel")
  /\ UNCHANGED <<hubVars, mtu, payload, late, conn, writerVars, pump, runVars>>

TunnelUnregister(s) ==
  /\ pc[s] = "unregister"
  /\ Unregister(s)
  /\ Goto(s, "cancel")
  /\ UNCHANGED <<mtu, payload, late, conn, writerVars, pump, runVars>>

PeerCancel(s) ==
  /\ pc[s] = "cancel"
  /\ Cancel(s)
  /\ Goto(s, "close")
  /\ UNCHANGED <<mtu, payload, late, conn, writerVars, pump, runVars>>

CloseNow(s) ==
  /\ pc[s] = "close"
  /\ Goto(s, "done")
  /\ Shut(s)
  /\ UNCHANGED <<hubVars, mtu, payload, late, writerVars, pump, runVars>>

(* External: the client or the network ends the connection. *)
ConnLost(s) ==
  /\ conn[s] = "open"
  /\ Shut(s)
  /\ UNCHANGED <<hubVars, handlerVars, writerVars, pump, runVars>>
-----------------------------------------------------------------------------
(* writeLoop.  Its select picks any case that is ready. *)

WriterExit(s) ==
  /\ writer' = [writer EXCEPT ![s] = "dead"]
  /\ writeErr' = writeErr \cup {s}

WriterDone(s) ==
  /\ writer[s] = "select" /\ s \in cancelled
  /\ WriterExit(s)
  /\ UNCHANGED <<hubVars, handlerVars, conn, wire, pump, runVars>>

WriterTake(s) ==
  /\ writer[s] = "select"
  /\ Receive(s)
  /\ writer' = [writer EXCEPT ![s] = "send"]
  /\ UNCHANGED <<handlerVars, conn, writeErr, wire, pump, runVars>>

InHand(s) == received[s][Len(received[s])]

WriterSend(s) ==
  /\ writer[s] = "send" /\ conn[s] = "open"
  /\ wire' = [wire EXCEPT ![s] = Append(@, InHand(s))]
  /\ writer' = [writer EXCEPT ![s] = "select"]
  /\ UNCHANGED <<hubVars, handlerVars, conn, writeErr, pump, runVars>>

WriterSendFail_Continues(s) ==
  /\ writer[s] = "send"
  /\ writer' = [writer EXCEPT ![s] = "select"]
  /\ UNCHANGED <<hubVars, handlerVars, conn, writeErr, wire, pump, runVars>>

(* The 10 s timeout or an error; the connection may survive it. *)
WriterSendFail(s) ==
  /\ writer[s] = "send"
  /\ WriterExit(s)
  /\ Shut(s) \/ UNCHANGED conn
  /\ UNCHANGED <<hubVars, handlerVars, wire, pump, runVars>>

(* The ticker fires and Ping fails; a Ping that succeeds changes nothing. *)
WriterPingFail(s) ==
  /\ writer[s] = "select"
  /\ WriterExit(s)
  /\ Shut(s) \/ UNCHANGED conn
  /\ UNCHANGED <<hubVars, handlerVars, wire, pump, runVars>>
-----------------------------------------------------------------------------
(* packetLoop: the only goroutine that calls Dispatch.  Packets that are no  *)
(* IPv4 are skipped (and counted), which changes nothing here.               *)

PumpDispatch_SharedBuffer(p) ==
  /\ pump = "running" /\ devOpen
  /\ disp = Idle /\ p.id = lastId + 1
  /\ lastId' = p.id
  /\ sendq' = [s \in Session |-> [i \in 1..Len(sendq[s]) |-> p]]
  /\ disp' = IF peers[p.dst] = None THEN disp ELSE [peer |-> peers[p.dst], packet |-> p]
  /\ Dropped' = IF peers[p.dst] = None THEN Dropped + 1 ELSE Dropped
  /\ UNCHANGED <<registryVars, cancelled, received, closeVars>>
  /\ UNCHANGED <<handlerVars, conn, writerVars, pump, runVars>>

PumpDispatch(p) ==
  /\ pump = "running" /\ devOpen
  /\ DispatchLookup(p)
  /\ UNCHANGED <<handlerVars, conn, writerVars, pump, runVars>>

PumpSend ==
  /\ pump = "running"
  /\ DispatchSend
  /\ UNCHANGED <<handlerVars, conn, writerVars, pump, runVars>>

(* ReadPacket fails: the device has been closed, or it broke. *)
PumpFail ==
  /\ pump = "running" /\ disp = Idle
  /\ ~devOpen \/ "tun" \in Faults
  /\ pump' = "dead"
  /\ errCh' = errCh \cup {IF ctxDone THEN "canceled" ELSE "failed"}
  /\ UNCHANGED <<hubVars, handlerVars, conn, writerVars, run, accepting, ctxDone, devOpen>>
-----------------------------------------------------------------------------
(* Server.Run. *)

Return(deviceStaysOpen) ==
  /\ run' = "returned"
  /\ devOpen' = (devOpen /\ deviceStaysOpen)

ListenTunnel ==
  /\ run = "start"
  /\ run' = "listening" /\ accepting' = TRUE
  /\ UNCHANGED <<hubVars, handlerVars, conn, writerVars, pump, ctxDone, devOpen, errCh>>

ListenTunnelFail ==
  /\ run = "start" /\ "listen" \in Faults
  /\ Return(FALSE)
  /\ UNCHANGED <<hubVars, handlerVars, conn, writerVars, pump, accepting, ctxDone, errCh>>

ListenMetrics ==
  /\ run = "listening"
  /\ run' = "serving"
  /\ UNCHANGED <<hubVars, handlerVars, conn, writerVars, pump, accepting, ctxDone, devOpen, errCh>>

ListenMetricsFail_LeavesDevice ==
  /\ run = "listening" /\ "listen" \in Faults
  /\ accepting' = FALSE
  /\ Return(TRUE)
  /\ UNCHANGED <<hubVars, handlerVars, conn, writerVars, pump, ctxDone, errCh>>

(* httpServer.Close closes the listener, not the WebSockets taken from it. *)
ListenMetricsFail ==
  /\ run = "listening" /\ "listen" \in Faults
  /\ accepting' = FALSE
  /\ Return(FALSE)
  /\ UNCHANGED <<hubVars, handlerVars, conn, writerVars, pump, ctxDone, errCh>>

(* Serve of the tunnel or of the metrics server fails. *)
ServeFail ==
  /\ run \in {"listening", "serving"} /\ "serve" \in Faults
  /\ errCh' = errCh \cup {"failed"}
  /\ UNCHANGED <<hubVars, handlerVars, conn, writerVars, pump, run, accepting, ctxDone, devOpen>>

(* External: SIGINT or SIGTERM cancels the context of Run. *)
CancelRun ==
  /\ ~ctxDone /\ "signal" \in Faults
  /\ ctxDone' = TRUE
  /\ UNCHANGED <<hubVars, handlerVars, conn, writerVars, pump, run, accepting, devOpen, errCh>>

RunCtxDone ==
  /\ run = "serving" /\ ctxDone
  /\ CloseAllSnapshot
  /\ run' = "closing"
  /\ UNCHANGED <<handlerVars, conn, writerVars, pump, accepting, ctxDone, devOpen, errCh>>

RunCloseAll(s) ==
  /\ run = "closing"
  /\ CloseAllCancel(s)
  /\ UNCHANGED <<handlerVars, conn, writerVars, pump, runVars>>

(* CloseAll has returned; Shutdown closes the listener first. *)
RunShutdown ==
  /\ run = "closing" /\ closing = {}
  /\ run' = "draining" /\ accepting' = FALSE
  /\ UNCHANGED <<hubVars, handlerVars, conn, writerVars, pump, ctxDone, devOpen, errCh>>

RunShutdownDone_AwaitsSessions ==
  /\ run = "draining"
  /\ \A s \in Session : pc[s] \in {"idle", "done"}
  /\ Return(FALSE)
  /\ UNCHANGED <<hubVars, handlerVars, conn, writerVars, pump, accepting, ctxDone, errCh>>

(* Shutdown does not wait for hijacked connections: sessions may go on. *)
RunShutdownDone ==
  /\ run = "draining"
  /\ Return(FALSE)
  /\ UNCHANGED <<hubVars, handlerVars, conn, writerVars, pump, accepting, ctxDone, errCh>>

RunCanceled ==
  /\ run = "serving" /\ "canceled" \in errCh
  /\ errCh' = errCh \ {"canceled"}
  /\ Return(TRUE)
  /\ UNCHANGED <<hubVars, handlerVars, conn, writerVars, pump, accepting, ctxDone>>

RunFailed ==
  /\ run = "serving" /\ "failed" \in errCh
  /\ errCh' = errCh \ {"failed"}
  /\ accepting' = FALSE
  /\ Return(FALSE)
  /\ UNCHANGED <<hubVars, handlerVars, conn, writerVars, pump, ctxDone>>
-----------------------------------------------------------------------------
(* Steps of the handler that need neither the client nor a timeout. *)
HandlerStep(s) ==
  \/ WriteWelcome(s) \/ WriteWelcomeFail(s)
  \/ TunnelInstall(s) \/ TunnelEffect(s) \/ TunnelRegistered(s)
  \/ TunnelRefused(s) \/ CloseRefused(s)
  \/ CheckStop(s) \/ ReadError(s)
  \/ WritePacket(s) \/ WritePacketFail(s)
  \/ TunnelUnregister(s) \/ PeerCancel(s) \/ CloseNow(s)

TimeoutStep(s) == ReadHelloFail(s) \/ ReadIdle(s)

WriterStep(s) == WriterDone(s) \/ WriterTake(s) \/ WriterSend(s) \/ WriterSendFail(s)

ClientStep(s) ==
  \/ RejectRequest(s) \/ AcceptRequest(s)
  \/ \E m \in HelloMTU : ReadHello(s, m)
  \/ \E f \in Frame : ReadFrame(s, f)
  \/ ReadMalformed(s)
  \/ ConnLost(s)
  \/ WriterPingFail(s)

RunStep ==
  \/ ListenTunnel \/ ListenTunnelFail \/ ListenMetrics \/ ListenMetricsFail
  \/ RunCtxDone \/ (\E s \in Session : RunCloseAll(s)) \/ RunShutdown \/ RunShutdownDone
  \/ RunCanceled \/ RunFailed

(* No handler is running: the server may wait forever, or has returned. *)
Quiescent ==
  /\ \A s \in Session : pc[s] \in {"idle", "done"}
  /\ UNCHANGED vars

ServerNext ==
  \/ \E s \in Session : HandlerStep(s) \/ TimeoutStep(s) \/ WriterStep(s) \/ ClientStep(s)
  \/ \E p \in Packet : PumpDispatch(p)
  \/ PumpSend \/ PumpFail
  \/ RunStep
  \/ ServeFail \/ CancelRun
  \/ Quiescent

ServerSpec == ServerInit /\ [][ServerNext]_vars

(* Goroutines that can run are scheduled; nothing is assumed of the client,  *)
(* of the network or of timers.                                              *)
Scheduled ==
  /\ \A s \in Session : WF_vars(HandlerStep(s)) /\ WF_vars(WriterStep(s))
  /\ WF_vars(PumpSend)
  /\ WF_vars(RunStep)

(* The handshake timeout and the idle timeout fire: context.WithTimeout at   *)
(* lines 169 and 222.                                                        *)
Timers == \A s \in Session : WF_vars(TimeoutStep(s))

ServerScheduledSpec == ServerSpec /\ Scheduled

ServerFairSpec == ServerSpec /\ Scheduled /\ Timers
-----------------------------------------------------------------------------
HandlerPc == {"idle", "hello", "welcome", "register", "refused", "check", "read",
              "write", "unregister", "cancel", "close", "done"}

(* Types of the server's own state. *)
ServerTypeOK ==
  /\ pc \in [Session -> HandlerPc]
  /\ conn \in [Session -> {"none", "open", "closed"}]
  /\ mtu \in [Session -> 0..ServerMTU]
  /\ payload \in [Session -> 0..ServerMTU]
  /\ late \in [Session -> Nat]
  /\ writer \in [Session -> {"off", "select", "send", "dead"}]
  /\ writeErr \subseteq Session
  /\ wire \in [Session -> Seq(Packet)]
  /\ pump \in {"running", "dead"}
  /\ run \in {"start", "listening", "serving", "closing", "draining", "returned"}
  /\ accepting \in BOOLEAN /\ ctxDone \in BOOLEAN /\ devOpen \in BOOLEAN
  /\ errCh \subseteq {"canceled", "failed"}

(* Whatever way a handler ends, and whatever happened to its address in the  *)
(* meantime, it leaves nothing behind: the map does not hold its peer, its   *)
(* connection is closed, and if it started a write loop that loop's context  *)
(* is cancelled (the deferred calls of tunnel, server.go:161-166, 202, 208). *)
DoneIsClean ==
  \A s \in Session : pc[s] = "done" =>
    /\ \A a \in Addr : peers[a] # s
    /\ conn[s] # "open"
    /\ writer[s] # "off" => s \in cancelled

(* A packet read from the TUN reaches at most one client, the one with its   *)
(* destination address, and a client gets its packets in the order of the    *)
(* TUN, across replacements, full queues and failing writes                  *)
(* (server.go:123-146, 249-276).                                             *)
Delivery ==
  \A s \in Session :
    /\ \A i \in 1..Len(wire[s]) :
         /\ wire[s][i].dst = AddrOf[s]
         /\ \A j \in 1..Len(wire[s]) : i < j => wire[s][i].id < wire[s][j].id
         /\ \A t \in Session \ {s} : \A j \in 1..Len(wire[t]) :
              wire[s][i].id # wire[t][j].id

(* A write loop that goes on has written everything it took from the queue;  *)
(* only the packet in its hands when it ends can be lost on the way.         *)
LosesOnlyTheLast ==
  \A s \in Session :
    \/ received[s] = wire[s]
    \/ /\ writer[s] \in {"send", "dead"}
       /\ received[s] # <<>>
       /\ wire[s] = SubSeq(received[s], 1, Len(received[s]) - 1)

(* A session that has been replaced, or cancelled by a shutdown, puts at     *)
(* most one more packet on the TUN: the one it had read, or was reading,     *)
(* when it was cancelled (server.go:215-246).                                *)
AtMostOneLatePacket == \A s \in Session : late[s] <= 1

(* When Run has returned the TUN device is closed, unless Run was cancelled  *)
(* and the pump had ended: then Run may have returned on the pump's report   *)
(* of the cancelled context, on which it closes nothing (server.go:112-115). *)
DeviceReleased ==
  run = "returned" => ~devOpen \/ (ctxDone /\ pump = "dead")

(* A session that has lost its address to another one, or has been cancelled *)
(* by a shutdown, ends, although its client may keep the connection open and *)
(* silent, and without waiting for the idle timeout: the cancellation that   *)
(* follows the unlock of Register comes, and interrupts Read and Write       *)
(* (hub.go:37-41, server.go:214-227).                                        *)
CancelledEnds ==
  \A s \in Session :
    (s \in cancelled \/ (Member(s) /\ peers[AddrOf[s]] # s)) ~> pc[s] = "done"

(* When the write loop has failed the session does not stay half alive: its  *)
(* handler ends, after the idle timeout at the latest, even if the client    *)
(* keeps sending (server.go:217-219).                                        *)
WriterFailureEndsSession ==
  \A s \in Session : writer[s] = "dead" ~> pc[s] = "done"

(* A cancelled Run returns, whatever the sessions and their clients do.      *)
ShutdownReturns == ctxDone ~> run = "returned"

(* Once Run has returned and closed the device, the sessions it did not      *)
(* cancel (registered after CloseAll, or all of them on a fatal error) end   *)
(* too: the next packet fails to be written, or the session times out.       *)
LeftoverSessionsEnd ==
  (run = "returned" /\ ~devOpen) ~> [](\A s \in Session : pc[s] \in {"idle", "done"})

(* docs/PROTOCOL.md: "Packet size must not exceed the negotiated MTU."       *)
(* Neither direction of a session carries a packet longer than the MTU of    *)
(* its WELCOME.                                                              *)
NegotiatedMTUHolds ==
  \A s \in Session :
    /\ payload[s] <= mtu[s]
    /\ \A i \in 1..Len(wire[s]) : wire[s][i].len <= mtu[s]
==============================================================================
