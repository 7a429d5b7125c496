------------------------------- MODULE Client -------------------------------
(***************************************************************************)
(* The client of internal/client/client.go: the reconnect loop of Run with *)
(* its deferred cleanup, the goroutine readTun that outlives the sessions, *)
(* and the two goroutines of runSession for each connection.  Goroutines   *)
(* of an ended session may still run while the next one is set up; they    *)
(* share the channel outbound and the TUN device with it.                  *)
(*                                                                         *)
(* The server, the network, the TUN device and platform.SetupClient are    *)
(* external.  A packet is the number of its read from the TUN.             *)
(***************************************************************************)
EXTENDS Integers, Sequences, FiniteSets

CONSTANTS
  MaxConns,    \* bound: connections the client establishes
  MaxPackets,  \* bound: packets readTun accepts
  OutCap,      \* capacity of outbound (512 in the code)
  ErrCap,      \* capacity of runSession's errCh (2 in the code)
  Params,      \* tunnel parameters a WELCOME may carry: address, gateway, MTU
  NoParams     \* no WELCOME yet

ASSUME ClientAssumption ==
  /\ MaxConns \in Nat \ {0} /\ MaxPackets \in Nat
  /\ OutCap \in Nat \ {0} /\ ErrCap \in Nat \ {0}
  /\ NoParams \notin Params

VARIABLES
  run,        \* where Run is
  ctxDone,    \* Run's context is cancelled
  cur,        \* number of connections established; the current one
  conn,       \* the WebSocket of each connection
  welcome,    \* the parameters of the last WELCOME
  params,     \* assigned, gateway, effectiveMTU: set by the first WELCOME
  dev,        \* the TUN device
  routes,     \* the routes of SetupClient are in place (cleanup # nil)
  tun,        \* the goroutine readTun
  lastRead,   \* number of packets readTun has accepted; the last one
  outbound,   \* the channel outbound
  ended,      \* connections whose runSession has cancelled sessionCtx
  writer,     \* first goroutine of each runSession
  hand,       \* the packet each writer has taken and not written, 0 if none
  reader,     \* second goroutine of each runSession
  errs,       \* number of errors in each errCh
  wire,       \* ghost: packets written to a WebSocket, in order
  late        \* ghost: packets a reader put on the TUN after its CloseNow

Conn == 1..MaxConns

runVars     == <<run, cur, welcome, params, dev, routes>>
tunVars     == <<tun, lastRead>>
sessionVars == <<ended, writer, hand, reader, errs>>
ghostVars   == <<wire, late>>
vars        == <<runVars, ctxDone, conn, tunVars, outbound, sessionVars, ghostVars>>

Init ==
  /\ run = "resolve" /\ ctxDone = FALSE /\ cur = 0
  /\ conn = [k \in Conn |-> "none"]
  /\ welcome = NoParams /\ params = NoParams
  /\ dev = "none" /\ routes = FALSE
  /\ tun = "off" /\ lastRead = 0 /\ outbound = <<>>
  /\ ended = {}
  /\ writer = [k \in Conn |-> "off"] /\ hand = [k \in Conn |-> 0]
  /\ reader = [k \in Conn |-> "off"] /\ errs = [k \in Conn |-> 0]
  /\ wire = <<>> /\ late = [k \in Conn |-> 0]

Shut(k) == conn' = [conn EXCEPT ![k] = "closed"]

(* External: SIGINT or SIGTERM. *)
CancelCtx ==
  /\ ~ctxDone
  /\ ctxDone' = TRUE
  /\ UNCHANGED <<runVars, conn, tunVars, outbound, sessionVars, ghostVars>>
-----------------------------------------------------------------------------
(* Run. *)

(* resolveServerIPv4; when it fails Run returns before the defer. *)
Resolve ==
  /\ run = "resolve"
  /\ run' \in {"connect", "returned"}
  /\ UNCHANGED <<ctxDone, cur, welcome, params, dev, routes, conn, tunVars, outbound, sessionVars, ghostVars>>

(* connect: the dial, HELLO, and a WELCOME that echoes the session ID. *)
Connect(w) ==
  /\ run = "connect" /\ cur < MaxConns
  /\ cur' = cur + 1
  /\ conn' = [conn EXCEPT ![cur + 1] = "open"]
  /\ welcome' = w
  /\ run' = "welcomed"
  /\ UNCHANGED <<ctxDone, params, dev, routes, tunVars, outbound, sessionVars, ghostVars>>

ConnectFail ==
  /\ run = "connect"
  /\ run' = IF ctxDone THEN "cleanup" ELSE "sleep"
  /\ UNCHANGED <<ctxDone, cur, welcome, params, dev, routes, conn, tunVars, outbound, sessionVars, ghostVars>>

(* closeNowWithError: the connection is closed and Run returns. *)
Abort ==
  /\ run' = "cleanup"
  /\ Shut(cur)

(* An address or gateway in WELCOME that is no IPv4 address. *)
BadWelcome ==
  /\ run = "welcomed"
  /\ Abort
  /\ UNCHANGED <<ctxDone, cur, welcome, params, dev, routes, tunVars, outbound, sessionVars, ghostVars>>

OpenDevice ==
  /\ run = "welcomed" /\ dev = "none"
  /\ params' = welcome
  /\ \/ dev' = "open" /\ run' = "setup" /\ UNCHANGED conn
     \/ Abort /\ UNCHANGED dev
  /\ UNCHANGED <<ctxDone, cur, welcome, routes, tunVars, outbound, sessionVars, ghostVars>>

StartSession ==
  /\ run' = "session"
  /\ writer' = [writer EXCEPT ![cur] = "select"]
  /\ reader' = [reader EXCEPT ![cur] = "read"]

SetupRoutes ==
  /\ run = "setup"
  /\ routes' = TRUE
  /\ tun' = "reading"
  /\ StartSession
  /\ UNCHANGED <<ctxDone, cur, welcome, params, dev, conn, lastRead, outbound, ended, hand, errs, ghostVars>>

(* dev.Name or SetupClient fails; the latter has undone its own changes. *)
SetupFail ==
  /\ run = "setup"
  /\ Abort
  /\ UNCHANGED <<ctxDone, cur, welcome, params, dev, routes, tunVars, outbound, sessionVars, ghostVars>>

Unchanged_Unchecked == TRUE

(* The parameters of a reconnect are those the device was set up with. *)
Unchanged == welcome = params

Resume ==
  /\ run = "welcomed" /\ dev # "none" /\ Unchanged
  /\ StartSession
  /\ UNCHANGED <<ctxDone, cur, welcome, params, dev, routes, conn, tunVars, outbound, ended, hand, errs, ghostVars>>

ParamsChanged ==
  /\ run = "welcomed" /\ dev # "none" /\ ~Unchanged
  /\ Abort
  /\ UNCHANGED <<ctxDone, cur, welcome, params, dev, routes, tunVars, outbound, sessionVars, ghostVars>>

(* runSession receives the first error and cancels sessionCtx. *)
SessionEnds ==
  /\ run = "session" /\ errs[cur] > 0
  /\ errs' = [errs EXCEPT ![cur] = @ - 1]
  /\ ended' = ended \cup {cur}
  /\ run' = "closenow"
  /\ UNCHANGED <<ctxDone, cur, welcome, params, dev, routes, conn, tunVars, outbound, writer, hand, reader, ghostVars>>

CloseNow_Skipped ==
  /\ run = "closenow"
  /\ run' = IF ctxDone THEN "cleanup" ELSE "sleep"
  /\ UNCHANGED <<ctxDone, cur, welcome, params, dev, routes, conn, tunVars, outbound, sessionVars, ghostVars>>

CloseNow_DropsRoutes ==
  /\ run = "closenow"
  /\ Shut(cur)
  /\ routes' = FALSE
  /\ run' = IF ctxDone THEN "cleanup" ELSE "sleep"
  /\ UNCHANGED <<ctxDone, cur, welcome, params, dev, tunVars, outbound, sessionVars, ghostVars>>

CloseNow ==
  /\ run = "closenow"
  /\ Shut(cur)
  /\ run' = IF ctxDone THEN "cleanup" ELSE "sleep"
  /\ UNCHANGED <<ctxDone, cur, welcome, params, dev, routes, tunVars, outbound, sessionVars, ghostVars>>

(* sleepContext: its select picks either case when both are ready. *)
Sleep ==
  /\ run = "sleep"
  /\ run' = "connect" \/ (ctxDone /\ run' = "cleanup")
  /\ UNCHANGED <<ctxDone, cur, welcome, params, dev, routes, conn, tunVars, outbound, sessionVars, ghostVars>>

(* The deferred function: routes first, then the device.  External: that the *)
(* commands of cleanup and the Close of the device succeed; their errors are *)
(* reported, not handled.                                                    *)
Cleanup ==
  /\ run = "cleanup"
  /\ routes' = FALSE
  /\ run' = "closedev"
  /\ UNCHANGED <<ctxDone, cur, welcome, params, dev, conn, tunVars, outbound, sessionVars, ghostVars>>

CloseDevice_OnlyAfterSetup ==
  /\ run = "closedev"
  /\ dev' = IF tun # "off" THEN "closed" ELSE dev
  /\ run' = "returned"
  /\ UNCHANGED <<ctxDone, cur, welcome, params, routes, conn, tunVars, outbound, sessionVars, ghostVars>>

CloseDevice ==
  /\ run = "closedev"
  /\ dev' = IF dev = "open" THEN "closed" ELSE dev
  /\ run' = "returned"
  /\ UNCHANGED <<ctxDone, cur, welcome, params, routes, conn, tunVars, outbound, sessionVars, ghostVars>>
-----------------------------------------------------------------------------
(* readTun.  Packets that are too long, no IPv4 or from another source are   *)
(* skipped, which changes nothing.                                           *)

TunRead ==
  /\ tun = "reading" /\ dev = "open" /\ lastRead < MaxPackets
  /\ lastRead' = lastRead + 1
  /\ tun' = "holding"
  /\ UNCHANGED <<runVars, ctxDone, conn, outbound, sessionVars, ghostVars>>

(* The device is closed or fails: the goroutine ends without a report. *)
TunFail ==
  /\ tun = "reading"
  /\ tun' = "dead"
  /\ UNCHANGED <<runVars, ctxDone, conn, lastRead, outbound, sessionVars, ghostVars>>

OutboundHasRoom_Unbounded == TRUE

OutboundHasRoom == Len(outbound) < OutCap

TunPush ==
  /\ tun = "holding" /\ OutboundHasRoom
  /\ outbound' = Append(outbound, lastRead)
  /\ tun' = "reading"
  /\ UNCHANGED <<runVars, ctxDone, conn, lastRead, sessionVars, ghostVars>>

TunStop ==
  /\ tun = "holding" /\ ctxDone
  /\ tun' = "dead"
  /\ UNCHANGED <<runVars, ctxDone, conn, lastRead, outbound, sessionVars, ghostVars>>
-----------------------------------------------------------------------------
(* The writing goroutine of runSession. *)

SessionDone_Detached(k) == k \in ended

SessionDone(k) == ctxDone \/ k \in ended

WriterDone(k) ==
  /\ writer[k] = "select" /\ SessionDone(k)
  /\ writer' = [writer EXCEPT ![k] = "report"]
  /\ UNCHANGED <<runVars, ctxDone, conn, tunVars, outbound, ended, hand, reader, errs, ghostVars>>

WriterTake(k) ==
  /\ writer[k] = "select" /\ outbound # <<>>
  /\ hand' = [hand EXCEPT ![k] = Head(outbound)]
  /\ outbound' = Tail(outbound)
  /\ writer' = [writer EXCEPT ![k] = "send"]
  /\ UNCHANGED <<runVars, ctxDone, conn, tunVars, ended, reader, errs, ghostVars>>

WriterSend(k) ==
  /\ writer[k] = "send" /\ conn[k] = "open"
  /\ wire' = Append(wire, hand[k])
  /\ hand' = [hand EXCEPT ![k] = 0]
  /\ writer' = [writer EXCEPT ![k] = "select"]
  /\ UNCHANGED <<runVars, ctxDone, conn, tunVars, outbound, ended, reader, errs, late>>

WriterSendFail_Continues(k) ==
  /\ writer[k] = "send"
  /\ hand' = [hand EXCEPT ![k] = 0]
  /\ writer' = [writer EXCEPT ![k] = "select"]
  /\ UNCHANGED <<runVars, ctxDone, conn, tunVars, outbound, ended, reader, errs, ghostVars>>

(* The write times out or fails: the packet is lost. *)
WriterSendFail(k) ==
  /\ writer[k] = "send"
  /\ hand' = [hand EXCEPT ![k] = 0]
  /\ writer' = [writer EXCEPT ![k] = "report"]
  /\ Shut(k) \/ UNCHANGED conn
  /\ UNCHANGED <<runVars, ctxDone, tunVars, outbound, ended, reader, errs, ghostVars>>

WriterPingFail(k) ==
  /\ writer[k] = "select"
  /\ writer' = [writer EXCEPT ![k] = "report"]
  /\ Shut(k) \/ UNCHANGED conn
  /\ UNCHANGED <<runVars, ctxDone, tunVars, outbound, ended, hand, reader, errs, ghostVars>>

ErrHasRoom_Unbuffered(k) == run = "session" /\ k = cur /\ errs[k] = 0

(* A send on errCh does not block. *)
ErrHasRoom(k) == errs[k] < ErrCap

WriterReport(k) ==
  /\ writer[k] = "report" /\ ErrHasRoom(k)
  /\ errs' = [errs EXCEPT ![k] = @ + 1]
  /\ writer' = [writer EXCEPT ![k] = "dead"]
  /\ UNCHANGED <<runVars, ctxDone, conn, tunVars, outbound, ended, hand, reader, ghostVars>>
-----------------------------------------------------------------------------
(* The reading goroutine of runSession. *)

ReaderRead(k) ==
  /\ reader[k] = "read" /\ conn[k] = "open"
  /\ reader' = [reader EXCEPT ![k] = "write"]
  /\ UNCHANGED <<runVars, ctxDone, conn, tunVars, outbound, ended, writer, hand, errs, ghostVars>>

(* The connection is gone, or the session's context ended, which closes it. *)
ReaderFail(k) ==
  /\ reader[k] = "read" /\ (conn[k] = "closed" \/ SessionDone(k))
  /\ reader' = [reader EXCEPT ![k] = "report"]
  /\ Shut(k)
  /\ UNCHANGED <<runVars, ctxDone, tunVars, outbound, ended, writer, hand, errs, ghostVars>>

(* The 90 s timeout, which closes the connection, or a message that is no    *)
(* valid PACKET for this client.                                             *)
ReaderReject(k) ==
  /\ reader[k] = "read"
  /\ reader' = [reader EXCEPT ![k] = "report"]
  /\ Shut(k) \/ UNCHANGED conn
  /\ UNCHANGED <<runVars, ctxDone, tunVars, outbound, ended, writer, hand, errs, ghostVars>>

ClosedByRun(k) == k < cur \/ run \in {"sleep", "connect", "cleanup", "closedev", "returned"}

ReaderDeliver(k) ==
  /\ reader[k] = "write" /\ dev = "open"
  /\ late' = IF ClosedByRun(k) THEN [late EXCEPT ![k] = @ + 1] ELSE late
  /\ reader' = [reader EXCEPT ![k] = "read"]
  /\ UNCHANGED <<runVars, ctxDone, conn, tunVars, outbound, ended, writer, hand, errs, wire>>

ReaderDeliverFail(k) ==
  /\ reader[k] = "write"
  /\ reader' = [reader EXCEPT ![k] = "report"]
  /\ UNCHANGED <<runVars, ctxDone, conn, tunVars, outbound, ended, writer, hand, errs, ghostVars>>

ReaderReport(k) ==
  /\ reader[k] = "report" /\ ErrHasRoom(k)
  /\ errs' = [errs EXCEPT ![k] = @ + 1]
  /\ reader' = [reader EXCEPT ![k] = "dead"]
  /\ UNCHANGED <<runVars, ctxDone, conn, tunVars, outbound, ended, writer, hand, ghostVars>>

(* External: the server or the network ends the connection. *)
ConnLost(k) ==
  /\ conn[k] = "open"
  /\ Shut(k)
  /\ UNCHANGED <<runVars, ctxDone, tunVars, outbound, sessionVars, ghostVars>>
-----------------------------------------------------------------------------
RunStep ==
  \/ Resolve \/ (\E w \in Params : Connect(w)) \/ ConnectFail \/ BadWelcome
  \/ OpenDevice \/ SetupRoutes \/ SetupFail \/ Resume \/ ParamsChanged
  \/ SessionEnds \/ CloseNow \/ Sleep \/ Cleanup \/ CloseDevice

WriterStep(k) ==
  \/ WriterDone(k) \/ WriterTake(k) \/ WriterSend(k) \/ WriterSendFail(k) \/ WriterReport(k)

ReaderStep(k) ==
  \/ ReaderFail(k) \/ ReaderDeliver(k) \/ ReaderDeliverFail(k) \/ ReaderReport(k)

ExternalStep(k) ==
  \/ WriterPingFail(k) \/ ReaderRead(k) \/ ReaderReject(k) \/ ConnLost(k)

(* Run has returned: nothing more need happen. *)
Returned == run = "returned" /\ UNCHANGED vars

Next ==
  \/ RunStep
  \/ CancelCtx
  \/ TunRead \/ TunFail \/ TunPush \/ TunStop
  \/ \E k \in Conn : WriterStep(k) \/ ReaderStep(k) \/ ExternalStep(k)
  \/ Returned

Spec == Init /\ [][Next]_vars

(* Goroutines that can run are scheduled, blocking calls return (each has a  *)
(* timeout; ReadPacket returns when the device is closed), and a select does *)
(* not neglect a case forever: Go picks among the ready cases at random.     *)
Fairness ==
  /\ WF_vars(RunStep)
  /\ WF_vars(TunPush \/ TunStop)
  /\ WF_vars(dev = "closed" /\ TunFail)
  /\ \A k \in Conn : WF_vars(WriterStep(k)) /\ SF_vars(WriterDone(k)) /\ WF_vars(ReaderStep(k))

FairSpec == Spec /\ Fairness
-----------------------------------------------------------------------------
Packets == 1..MaxPackets

(* Types, with the bounds of the two channels. *)
TypeOK ==
  /\ run \in {"resolve", "connect", "welcomed", "setup", "session", "closenow",
              "sleep", "cleanup", "closedev", "returned"}
  /\ ctxDone \in BOOLEAN /\ cur \in 0..MaxConns
  /\ conn \in [Conn -> {"none", "open", "closed"}]
  /\ welcome \in Params \cup {NoParams} /\ params \in Params \cup {NoParams}
  /\ dev \in {"none", "open", "closed"} /\ routes \in BOOLEAN
  /\ tun \in {"off", "reading", "holding", "dead"} /\ lastRead \in 0..MaxPackets
  /\ outbound \in Seq(Packets) /\ Len(outbound) <= OutCap
  /\ ended \subseteq 1..cur
  /\ writer \in [Conn -> {"off", "select", "send", "report", "dead"}]
  /\ hand \in [Conn -> {0} \cup Packets]
  /\ reader \in [Conn -> {"off", "read", "write", "report", "dead"}]
  /\ errs \in [Conn -> 0..ErrCap]
  /\ wire \in Seq(Packets) /\ late \in [Conn -> Nat]

(* The kill switch: from the moment the routes are set up until Run's        *)
(* deferred cleanup they stay, through every lost connection, failed dial    *)
(* and pause (client.go:51-64, 66-123; docs/ARCHITECTURE.md "A disconnected  *)
(* client keeps the full-tunnel routes during reconnect").                   *)
FailClosed == tun # "off" => routes \/ run \in {"closedev", "returned"}

(* Whatever ends Run, and provided the commands of its cleanup succeed, it   *)
(* leaves no route, no open device and no open connection, and every session *)
(* it started is cancelled (client.go:51-64 and every return below it).      *)
CleanReturn ==
  run = "returned" =>
    /\ ~routes /\ dev # "open"
    /\ \A k \in Conn : conn[k] # "open"
    /\ \A k \in Conn : writer[k] # "off" => k \in ended

(* Packets go up in the order in which the TUN gave them and none twice,     *)
(* also when the writer of a dead session is still running beside the next   *)
(* session's (client.go:111, 236-248).                                       *)
UplinkInOrder == \A i, j \in 1..Len(wire) : i < j => wire[i] < wire[j]

Elements(q) == {q[i] : i \in 1..Len(q)}

Lost ==
  (1..lastRead) \ (Elements(wire) \cup Elements(outbound) \cup {hand[k] : k \in Conn}
                   \cup (IF tun = "holding" THEN {lastRead} ELSE {}))

(* A reconnect costs at most one accepted packet: each writer loses only the *)
(* one in its hands when it ends, and readTun only the one it held when the  *)
(* context was cancelled; the rest waits in outbound for the next session.   *)
OneLossPerConnection ==
  Cardinality(Lost) <=
    Cardinality({k \in Conn : writer[k] \in {"report", "dead"}})
      + (IF tun = "dead" THEN 1 ELSE 0)

(* A session that Run has closed puts at most one more packet on the TUN.    *)
OneLateDelivery == \A k \in Conn : late[k] <= 1

(* While a session runs, the device and the routes are in place and have     *)
(* the parameters of the WELCOME of that very connection.                    *)
SessionMatchesDevice ==
  run = "session" => dev = "open" /\ routes /\ welcome = params

(* A signal ends the client, wherever Run is and whatever the server does.   *)
SignalReturns == ctxDone ~> run = "returned"

(* The goroutines of an ended session end: neither blocks for ever on errCh, *)
(* from which runSession receives only once (client.go:227, 289).  After a   *)
(* signal readTun ends too, even when it is blocked on a full channel that   *)
(* no session drains any more (client.go:216-220).  When Run has returned on *)
(* its own readTun ends as well, or rests for good with one packet on a full *)
(* outbound; it never goes on reading a device that is closed.               *)
GoroutinesEnd ==
  /\ \A k \in Conn : k \in ended ~> (writer[k] = "dead" /\ reader[k] = "dead")
  /\ ctxDone ~> [](tun \in {"off", "dead"})
  /\ run = "returned" ~>
       [](tun \in {"off", "dead"} \/ (tun = "holding" /\ ~OutboundHasRoom))
==============================================================================
