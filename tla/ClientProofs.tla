---------------------------- MODULE ClientProofs ----------------------------
(***************************************************************************)
(* Proofs about Client, for any number of connections and packets and any  *)
(* channel capacities: types, routes that fail closed, a clean return, the *)
(* order of packets, and how many of them a reconnect costs.               *)
(***************************************************************************)
EXTENDS Client, FiniteSetTheorems, SequenceTheorems, TLAPS

(* What the types rest on: a goroutine that holds a packet holds a real one, *)
(* and Run has a current connection when it uses one.                        *)
HoldInv ==
  /\ tun = "holding" => lastRead # 0
  /\ \A k \in Conn : writer[k] = "send" => hand[k] # 0
  /\ run \in {"welcomed", "setup", "session", "closenow"} => cur # 0

TypeInv == TypeOK /\ HoldInv

LEMMA TypeInit == Init => TypeInv
<1> SUFFICES ASSUME Init PROVE TypeInv
  OBVIOUS
<1> USE ClientAssumption DEF Init, Conn, Packets
<1>1. /\ run \in {"resolve", "connect", "welcomed", "setup", "session", "closenow",
                  "sleep", "cleanup", "closedev", "returned"}
      /\ cur \in 0..MaxConns /\ lastRead \in 0..MaxPackets
      /\ welcome \in Params \cup {NoParams} /\ params \in Params \cup {NoParams}
      /\ dev \in {"none", "open", "closed"} /\ tun \in {"off", "reading", "holding", "dead"}
      /\ ended \subseteq 1..cur
  OBVIOUS
<1>2. ctxDone \in BOOLEAN /\ routes \in BOOLEAN
  OBVIOUS
<1>3. /\ conn \in [Conn -> {"none", "open", "closed"}]
      /\ writer \in [Conn -> {"off", "select", "send", "report", "dead"}]
      /\ hand \in [Conn -> {0} \cup Packets]
      /\ reader \in [Conn -> {"off", "read", "write", "report", "dead"}]
      /\ errs \in [Conn -> 0..ErrCap] /\ late \in [Conn -> Nat]
  OBVIOUS
<1>4. outbound \in Seq(Packets) /\ Len(outbound) <= OutCap /\ wire \in Seq(Packets)
  OBVIOUS
<1>5. HoldInv
  BY DEF HoldInv
<1>6. QED
  BY <1>1, <1>2, <1>3, <1>4, <1>5 DEF TypeInv, TypeOK

LEMMA TypeRun ==
  ASSUME TypeInv, RunStep \/ CancelCtx
  PROVE  TypeInv'
<1> USE ClientAssumption DEF TypeInv, TypeOK, HoldInv, Conn, Packets, Shut, Abort, StartSession
<1> USE DEF runVars, tunVars, sessionVars, ghostVars
<1>1. CASE Resolve
  BY <1>1 DEF Resolve
<1>2. ASSUME NEW w \in Params, Connect(w) PROVE TypeInv'
  BY <1>2 DEF Connect
<1>3. CASE ConnectFail
  BY <1>3 DEF ConnectFail
<1>4. CASE BadWelcome
  BY <1>4 DEF BadWelcome
<1>5. CASE OpenDevice
  BY <1>5 DEF OpenDevice
<1>6. CASE SetupRoutes
  BY <1>6 DEF SetupRoutes
<1>7. CASE SetupFail
  BY <1>7 DEF SetupFail
<1>8. CASE Resume
  BY <1>8 DEF Resume
<1>9. CASE ParamsChanged
  BY <1>9 DEF ParamsChanged
<1>10. CASE SessionEnds
  BY <1>10 DEF SessionEnds
<1>11. CASE CloseNow
  BY <1>11 DEF CloseNow
<1>12. CASE Sleep
  BY <1>12 DEF Sleep
<1>13. CASE Cleanup
  BY <1>13 DEF Cleanup
<1>14. CASE CloseDevice
  BY <1>14 DEF CloseDevice
<1>15. CASE CancelCtx
  BY <1>15 DEF CancelCtx
<1>16. QED
  BY <1>1, <1>2, <1>3, <1>4, <1>5, <1>6, <1>7, <1>8, <1>9, <1>10, <1>11, <1>12, <1>13,
     <1>14, <1>15 DEF RunStep

LEMMA TypeTun ==
  ASSUME TypeInv, TunRead \/ TunFail \/ TunPush \/ TunStop
  PROVE  TypeInv'
<1> USE ClientAssumption DEF TypeInv, TypeOK, HoldInv, Conn, Packets
<1> USE DEF runVars, tunVars, sessionVars, ghostVars
<1>1. CASE TunRead
  BY <1>1 DEF TunRead
<1>2. CASE TunFail
  BY <1>2 DEF TunFail
<1>3. CASE TunPush
  <2>1. lastRead \in Packets
    BY <1>3 DEF TunPush
  <2>2. outbound' \in Seq(Packets) /\ Len(outbound') <= OutCap
    BY <1>3, <2>1 DEF TunPush, OutboundHasRoom
  <2>3. QED
    BY <1>3, <2>2 DEF TunPush
<1>4. CASE TunStop
  BY <1>4 DEF TunStop
<1>5. QED
  BY <1>1, <1>2, <1>3, <1>4

LEMMA PacketsArePositive == \A p \in Packets : p # 0
BY ClientAssumption DEF Packets

LEMMA TypeWriter ==
  ASSUME TypeInv, NEW k \in Conn, WriterStep(k) \/ WriterPingFail(k)
  PROVE  TypeInv'
<1> USE DEF TypeInv, TypeOK, HoldInv, Shut
<1> USE DEF runVars, tunVars, sessionVars, ghostVars
<1>1. CASE WriterDone(k)
  BY <1>1 DEF WriterDone
<1>2. CASE WriterTake(k)
  <2>1. Head(outbound) \in Packets /\ Tail(outbound) \in Seq(Packets)
        /\ Len(Tail(outbound)) <= OutCap
    BY <1>2, ClientAssumption DEF WriterTake
  <2>2. QED
    BY <1>2, <2>1, PacketsArePositive DEF WriterTake
<1>3. CASE WriterSend(k)
  <2>1. hand[k] \in Packets
    BY <1>3 DEF WriterSend
  <2>2. wire' \in Seq(Packets)
    BY <1>3, <2>1 DEF WriterSend
  <2>3. QED
    BY <1>3, <2>2 DEF WriterSend
<1>4. CASE WriterSendFail(k)
  BY <1>4 DEF WriterSendFail
<1>5. CASE WriterReport(k)
  <2>1. errs[k] + 1 \in 0..ErrCap
    BY <1>5, ClientAssumption DEF WriterReport, ErrHasRoom
  <2>2. QED
    BY <1>5, <2>1 DEF WriterReport
<1>6. CASE WriterPingFail(k)
  <2>1. CASE Shut(k)
    BY <1>6, <2>1 DEF WriterPingFail
  <2>2. CASE UNCHANGED conn
    BY <1>6, <2>2 DEF WriterPingFail
  <2>3. QED
    BY <1>6, <2>1, <2>2 DEF WriterPingFail
<1>7. QED
  BY <1>1, <1>2, <1>3, <1>4, <1>5, <1>6 DEF WriterStep

LEMMA TypeReader ==
  ASSUME TypeInv, NEW k \in Conn,
         ReaderStep(k) \/ ReaderRead(k) \/ ReaderReject(k) \/ ConnLost(k)
  PROVE  TypeInv'
<1> USE DEF TypeInv, TypeOK, HoldInv, Shut
<1> USE DEF runVars, tunVars, sessionVars, ghostVars
<1>1. CASE ReaderFail(k)
  BY <1>1 DEF ReaderFail
<1>2. CASE ReaderDeliver(k)
  BY <1>2 DEF ReaderDeliver
<1>3. CASE ReaderDeliverFail(k)
  BY <1>3 DEF ReaderDeliverFail
<1>4. CASE ReaderReport(k)
  <2>1. errs[k] + 1 \in 0..ErrCap
    BY <1>4, ClientAssumption DEF ReaderReport, ErrHasRoom
  <2>2. QED
    BY <1>4, <2>1 DEF ReaderReport
<1>5. CASE ReaderRead(k)
  BY <1>5 DEF ReaderRead
<1>6. CASE ReaderReject(k)
  <2>1. CASE Shut(k)
    BY <1>6, <2>1 DEF ReaderReject
  <2>2. CASE UNCHANGED conn
    BY <1>6, <2>2 DEF ReaderReject
  <2>3. QED
    BY <1>6, <2>1, <2>2 DEF ReaderReject
<1>7. CASE ConnLost(k)
  BY <1>7 DEF ConnLost
<1>8. QED
  BY <1>1, <1>2, <1>3, <1>4, <1>5, <1>6, <1>7 DEF ReaderStep

LEMMA TypeStutter == ASSUME TypeInv, Returned \/ UNCHANGED vars PROVE TypeInv'
<1>1. UNCHANGED vars
  BY DEF Returned
<1>2. QED
  BY <1>1 DEF TypeInv, TypeOK, HoldInv, vars, runVars, tunVars, sessionVars, ghostVars

LEMMA TypeNext == TypeInv /\ [Next]_vars => TypeInv'
BY TypeRun, TypeTun, TypeWriter, TypeReader, TypeStutter DEF Next, ExternalStep

(* Type correctness and the bounds of the client's channels. *)
THEOREM ClientTypeCorrect == Spec => []TypeOK
<1>1. Spec => []TypeInv
  BY TypeInit, TypeNext, PTL DEF Spec
<1>2. QED
  BY <1>1, PTL DEF TypeInv
-----------------------------------------------------------------------------
(* What each stage of Run guarantees of the device and the routes. *)
StageInv ==
  /\ run = "resolve" => ~routes /\ dev = "none"
  /\ run \in {"closedev", "returned"} => ~routes
  /\ run = "setup" => dev = "open" /\ welcome = params
  /\ dev = "open" => routes \/ run \in {"setup", "cleanup", "closedev"}
  /\ dev = "closed" => run = "returned"
  /\ FailClosed
  /\ SessionMatchesDevice

(* Only the current connection is open, and only while Run uses it; the      *)
(* goroutines of every other session belong to a cancelled one.              *)
ConnInv ==
  /\ \A k \in Conn : conn[k] = "open" =>
       k = cur /\ run \in {"welcomed", "setup", "session", "closenow"}
  /\ \A k \in Conn : writer[k] # "off" \/ reader[k] # "off" =>
       k \in ended \/ (k = cur /\ run = "session")
  /\ run = "resolve" => cur = 0
  /\ run = "returned" => dev # "open"

LifeInv == TypeInv /\ StageInv /\ ConnInv

LEMMA StageStep == ASSUME LifeInv, [Next]_vars PROVE StageInv'
<1> USE DEF LifeInv, StageInv, FailClosed, SessionMatchesDevice
<1> USE DEF vars, runVars, tunVars, sessionVars, ghostVars
<1>1. CASE Resolve
  BY <1>1 DEF Resolve
<1>2. ASSUME NEW w \in Params, Connect(w) PROVE StageInv'
  BY <1>2 DEF Connect
<1>3. CASE ConnectFail
  BY <1>3 DEF ConnectFail
<1>4. CASE BadWelcome
  BY <1>4 DEF BadWelcome, Abort
<1>5. CASE OpenDevice
  BY <1>5 DEF OpenDevice, Abort
<1>6. CASE SetupRoutes
  BY <1>6 DEF SetupRoutes, StartSession
<1>7. CASE SetupFail
  BY <1>7 DEF SetupFail, Abort
<1>8. CASE Resume
  BY <1>8 DEF Resume, Unchanged, StartSession, TypeInv, TypeOK
<1>9. CASE ParamsChanged
  BY <1>9 DEF ParamsChanged, Abort
<1>10. CASE SessionEnds
  BY <1>10 DEF SessionEnds
<1>11. CASE CloseNow
  BY <1>11 DEF CloseNow
<1>12. CASE Sleep
  BY <1>12 DEF Sleep
<1>13. CASE Cleanup
  BY <1>13 DEF Cleanup
<1>14. CASE CloseDevice
  BY <1>14 DEF CloseDevice, TypeInv, TypeOK
<1>15. CASE CancelCtx \/ UNCHANGED vars
  BY <1>15 DEF CancelCtx
<1>16. CASE TunRead \/ TunFail \/ TunPush \/ TunStop
  BY <1>16 DEF TunRead, TunFail, TunPush, TunStop
<1>17. ASSUME NEW k \in Conn, WriterStep(k) \/ ReaderStep(k) \/ ExternalStep(k)
       PROVE  StageInv'
  <2>1. UNCHANGED <<runVars, tunVars>>
    BY <1>17 DEF WriterStep, ReaderStep, ExternalStep, WriterDone, WriterTake, WriterSend,
       WriterSendFail, WriterReport, ReaderFail, ReaderDeliver, ReaderDeliverFail,
       ReaderReport, WriterPingFail, ReaderRead, ReaderReject, ConnLost
  <2>2. QED
    BY <2>1
<1>18. QED
  BY <1>1, <1>2, <1>3, <1>4, <1>5, <1>6, <1>7, <1>8, <1>9, <1>10, <1>11, <1>12, <1>13,
     <1>14, <1>15, <1>16, <1>17 DEF Next, RunStep, Returned

LEMMA ConnStep == ASSUME LifeInv, [Next]_vars PROVE ConnInv'
<1> USE DEF LifeInv, ConnInv, TypeInv, TypeOK, Shut
<1> USE DEF vars, runVars, tunVars, sessionVars, ghostVars
<1>1. CASE Resolve
  BY <1>1 DEF Resolve, StageInv
<1>2. ASSUME NEW w \in Params, Connect(w) PROVE ConnInv'
  BY <1>2, ClientAssumption DEF Connect, Conn
<1>3. CASE ConnectFail
  BY <1>3 DEF ConnectFail
<1>4. CASE BadWelcome
  BY <1>4 DEF BadWelcome, Abort
<1>5. CASE OpenDevice
  BY <1>5 DEF OpenDevice, Abort
<1>6. CASE SetupRoutes
  BY <1>6 DEF SetupRoutes, StartSession
<1>7. CASE SetupFail
  BY <1>7 DEF SetupFail, Abort
<1>8. CASE Resume
  BY <1>8 DEF Resume, Unchanged, StartSession
<1>9. CASE ParamsChanged
  BY <1>9 DEF ParamsChanged, Abort
<1>10. CASE SessionEnds
  BY <1>10 DEF SessionEnds
<1>11. CASE CloseNow
  BY <1>11 DEF CloseNow
<1>12. CASE Sleep
  BY <1>12 DEF Sleep
<1>13. CASE Cleanup
  BY <1>13 DEF Cleanup
<1>14. CASE CloseDevice
  BY <1>14 DEF CloseDevice
<1>15. CASE CancelCtx \/ UNCHANGED vars
  BY <1>15 DEF CancelCtx
<1>16. CASE TunRead \/ TunFail \/ TunPush \/ TunStop
  BY <1>16 DEF TunRead, TunFail, TunPush, TunStop
<1>17. ASSUME NEW k \in Conn, WriterStep(k) \/ ReaderStep(k) \/ ExternalStep(k)
       PROVE  ConnInv'
  <2>1. UNCHANGED <<run, cur, dev, ended>>
    BY <1>17 DEF WriterStep, ReaderStep, ExternalStep, WriterDone, WriterTake, WriterSend,
       WriterSendFail, WriterReport, ReaderFail, ReaderDeliver, ReaderDeliverFail,
       ReaderReport, WriterPingFail, ReaderRead, ReaderReject, ConnLost
  <2>2. \A j \in Conn : conn'[j] = "open" => conn[j] = "open"
    BY <1>17 DEF WriterStep, ReaderStep, ExternalStep, WriterDone, WriterTake, WriterSend,
       WriterSendFail, WriterReport, ReaderFail, ReaderDeliver, ReaderDeliverFail,
       ReaderReport, WriterPingFail, ReaderRead, ReaderReject, ConnLost
  <2>3. \A j \in Conn : writer'[j] # "off" \/ reader'[j] # "off"
                          => writer[j] # "off" \/ reader[j] # "off"
    BY <1>17 DEF WriterStep, ReaderStep, ExternalStep, WriterDone, WriterTake, WriterSend,
       WriterSendFail, WriterReport, ReaderFail, ReaderDeliver, ReaderDeliverFail,
       ReaderReport, WriterPingFail, ReaderRead, ReaderReject, ConnLost
  <2>4. QED
    BY <2>1, <2>2, <2>3
<1>18. QED
  BY <1>1, <1>2, <1>3, <1>4, <1>5, <1>6, <1>7, <1>8, <1>9, <1>10, <1>11, <1>12, <1>13,
     <1>14, <1>15, <1>16, <1>17 DEF Next, RunStep, Returned

LEMMA LifeCorrect == Spec => []LifeInv
<1>1. Init => LifeInv
  BY TypeInit DEF Init, LifeInv, StageInv, ConnInv, FailClosed, SessionMatchesDevice
<1>2. LifeInv /\ [Next]_vars => LifeInv'
  BY TypeNext, StageStep, ConnStep DEF LifeInv
<1>3. QED
  BY <1>1, <1>2, PTL DEF Spec

(* The kill switch holds through any number of reconnects. *)
THEOREM RoutesFailClosed == Spec => []FailClosed
<1>1. LifeInv => FailClosed
  BY DEF LifeInv, StageInv
<1>2. QED
  BY <1>1, LifeCorrect, PTL

(* Every exit of Run leaves no route, device, connection or live session. *)
THEOREM ReturnIsClean == Spec => []CleanReturn
<1>1. LifeInv => CleanReturn
  BY DEF LifeInv, StageInv, ConnInv, CleanReturn
<1>2. QED
  BY <1>1, LifeCorrect, PTL

(* A session runs only over the device and routes its own WELCOME describes. *)
THEOREM SessionsMatchTheDevice == Spec => []SessionMatchesDevice
<1>1. LifeInv => SessionMatchesDevice
  BY DEF LifeInv, StageInv
<1>2. QED
  BY <1>1, LifeCorrect, PTL
-----------------------------------------------------------------------------
(* A late delivery is a session's last: its connection stays closed, so its  *)
(* reader never has a packet again.                                          *)
LateInv ==
  \A k \in Conn :
    \/ late[k] = 0
    \/ /\ late[k] = 1 /\ k <= cur /\ ClosedByRun(k)
       /\ reader[k] # "write" /\ conn[k] # "open"

LEMMA LateStep == ASSUME LifeInv, LateInv, [Next]_vars PROVE LateInv'
<1> USE DEF LifeInv, TypeInv, TypeOK, LateInv, ClosedByRun, Shut
<1> USE DEF vars, runVars, tunVars, sessionVars, ghostVars
<1>1. CASE Resolve
  BY <1>1 DEF Resolve
<1>2. ASSUME NEW w \in Params, Connect(w) PROVE LateInv'
  BY <1>2, ClientAssumption DEF Connect, Conn
<1>3. CASE ConnectFail \/ Sleep \/ Cleanup \/ CloseDevice
  BY <1>3 DEF ConnectFail, Sleep, Cleanup, CloseDevice
<1>4. CASE BadWelcome \/ OpenDevice \/ SetupFail \/ ParamsChanged
  BY <1>4 DEF BadWelcome, OpenDevice, SetupFail, ParamsChanged, Abort
<1>5. CASE SetupRoutes \/ Resume
  BY <1>5 DEF SetupRoutes, Resume, StartSession
<1>6. CASE SessionEnds \/ CloseNow
  BY <1>6 DEF SessionEnds, CloseNow
<1>7. CASE CancelCtx \/ UNCHANGED vars \/ TunRead \/ TunFail \/ TunPush \/ TunStop
  BY <1>7 DEF CancelCtx, TunRead, TunFail, TunPush, TunStop
<1>8. ASSUME NEW k \in Conn, WriterStep(k) \/ ReaderStep(k) \/ ExternalStep(k), ~ReaderDeliver(k)
      PROVE  LateInv'
  <2>1. UNCHANGED <<run, cur, late>>
    BY <1>8 DEF WriterStep, ReaderStep, ExternalStep, WriterDone, WriterTake, WriterSend,
       WriterSendFail, WriterReport, ReaderFail, ReaderDeliverFail,
       ReaderReport, WriterPingFail, ReaderRead, ReaderReject, ConnLost
  <2>2. \A j \in Conn : (reader'[j] = "write" => reader[j] = "write" \/ conn[j] = "open")
                          /\ (conn'[j] = "open" => conn[j] = "open")
    BY <1>8 DEF WriterStep, ReaderStep, ExternalStep, WriterDone, WriterTake, WriterSend,
       WriterSendFail, WriterReport, ReaderFail, ReaderDeliverFail,
       ReaderReport, WriterPingFail, ReaderRead, ReaderReject, ConnLost
  <2>3. QED
    BY <2>1, <2>2
<1>9. ASSUME NEW k \in Conn, ReaderDeliver(k) PROVE LateInv'
  <2>1. /\ UNCHANGED <<run, cur, conn>> /\ reader[k] = "write"
        /\ reader' = [reader EXCEPT ![k] = "read"]
    BY <1>9 DEF ReaderDeliver
  <2>2. CASE ClosedByRun(k)
    <3>1. late' = [late EXCEPT ![k] = @ + 1]
      BY <1>9, <2>2 DEF ReaderDeliver
    <3>2. conn[k] # "open" /\ k <= cur /\ late[k] = 0
      BY <2>1, <2>2, ClientAssumption DEF ConnInv, Conn
    <3>3. QED
      BY <2>1, <2>2, <3>1, <3>2
  <2>3. CASE ~ClosedByRun(k)
    BY <1>9, <2>1, <2>3 DEF ReaderDeliver
  <2>4. QED
    BY <2>2, <2>3
<1>10. QED
  BY <1>1, <1>2, <1>3, <1>4, <1>5, <1>6, <1>7, <1>8, <1>9
  DEF Next, RunStep, Returned

(* A session Run has closed delivers at most one packet more. *)
THEOREM AtMostOneLateDelivery == Spec => []OneLateDelivery
<1>1. Init => LateInv
  BY DEF Init, LateInv
<1>2. LifeInv /\ LateInv /\ [Next]_vars => LateInv'
  BY LateStep
<1>3. LifeInv /\ LateInv => OneLateDelivery
  BY DEF LateInv, OneLateDelivery
<1>4. QED
  BY <1>1, <1>2, <1>3, LifeCorrect, PTL DEF Spec
-----------------------------------------------------------------------------
(* Every packet that has left readTun's hands is older than the one in them. *)
Read(p) == p <= lastRead /\ (tun = "holding" => p < lastRead)

(* The order the packets keep on their way up: wire, then the hand that may  *)
(* still be written, then outbound, then readTun.  A writer whose connection *)
(* is gone may hold a packet older than some on the wire; it cannot send it. *)
OrderInv ==
  /\ \A i \in DOMAIN outbound : Read(outbound[i])
  /\ \A i, j \in DOMAIN outbound : i < j => outbound[i] < outbound[j]
  /\ \A k \in Conn : writer[k] = "send" =>
       /\ Read(hand[k])
       /\ \A j \in DOMAIN outbound : hand[k] < outbound[j]
  /\ \A i \in DOMAIN wire : Read(wire[i])
  /\ \A i \in DOMAIN wire, j \in DOMAIN outbound : wire[i] < outbound[j]
  /\ \A i \in DOMAIN wire, k \in Conn :
       writer[k] = "send" /\ conn[k] = "open" => wire[i] < hand[k]
  /\ \A i, j \in DOMAIN wire : i < j => wire[i] < wire[j]

LEMMA PacketsAreNumbers ==
  /\ Packets \subseteq Int
  /\ \A q \in Seq(Packets) : \A i \in DOMAIN q : q[i] \in Int
BY ClientAssumption DEF Packets

LEMMA OrderTun ==
  ASSUME TypeInv, OrderInv, TunRead \/ TunFail \/ TunPush \/ TunStop
  PROVE  OrderInv'
<1> USE DEF TypeInv, TypeOK, OrderInv, Read
<1> USE DEF runVars, tunVars, sessionVars, ghostVars
<1>1. CASE TunRead
  <2>1. /\ UNCHANGED <<outbound, wire, hand, writer, conn>>
        /\ lastRead' = lastRead + 1 /\ lastRead \in Int /\ tun # "holding"
    BY <1>1, ClientAssumption DEF TunRead
  <2>2. \A p \in Int : Read(p) => Read(p)'
    BY <2>1
  <2>3. \A k \in Conn : hand[k] \in Int
    <3>1. {0} \cup Packets \subseteq Int
      BY PacketsAreNumbers
    <3>2. QED
      BY <3>1
  <2>4. QED
    BY <2>1, <2>2, <2>3, PacketsAreNumbers
<1>2. CASE TunFail \/ TunStop
  BY <1>2 DEF TunFail, TunStop
<1>3. CASE TunPush
  <2>1. /\ UNCHANGED <<wire, hand, writer, conn, lastRead>>
        /\ outbound' = Append(outbound, lastRead) /\ tun = "holding" /\ tun' = "reading"
    BY <1>3 DEF TunPush
  <2>2. /\ DOMAIN outbound' = 1..(Len(outbound) + 1) /\ DOMAIN outbound = 1..Len(outbound)
        /\ Len(outbound) \in Nat
        /\ \A i \in DOMAIN outbound : outbound'[i] = outbound[i]
        /\ outbound'[Len(outbound) + 1] = lastRead
    BY <2>1
  <2>3. lastRead \in Int
    BY ClientAssumption
  <2>4. \A i \in DOMAIN outbound' : Read(outbound[i])'
    BY <2>1, <2>2, <2>3, PacketsAreNumbers
  <2>5. \A i, j \in DOMAIN outbound' : i < j => outbound'[i] < outbound'[j]
    BY <2>1, <2>2, <2>3, PacketsAreNumbers
  <2>6. \A k \in Conn : writer'[k] = "send" =>
          Read(hand[k])' /\ \A j \in DOMAIN outbound' : hand'[k] < outbound'[j]
    BY <2>1, <2>2
  <2>7. \A i \in DOMAIN wire' : Read(wire[i])' /\ \A j \in DOMAIN outbound' : wire'[i] < outbound'[j]
    BY <2>1, <2>2
  <2>8. QED
    BY <2>1, <2>4, <2>5, <2>6, <2>7
<1>4. QED
  BY <1>1, <1>2, <1>3

LEMMA OrderTake ==
  ASSUME TypeInv, OrderInv, NEW k \in Conn, WriterTake(k)
  PROVE  OrderInv'
<1> USE DEF TypeInv, TypeOK, OrderInv, Read
<1>1. /\ UNCHANGED <<wire, conn, tun, lastRead>>
      /\ outbound' = Tail(outbound) /\ outbound # <<>>
      /\ hand' = [hand EXCEPT ![k] = Head(outbound)]
      /\ writer' = [writer EXCEPT ![k] = "send"]
  BY DEF WriterTake, runVars, tunVars, sessionVars, ghostVars
<1>2. /\ Len(outbound) \in Nat \ {0} /\ DOMAIN outbound = 1..Len(outbound)
      /\ DOMAIN outbound' = 1..(Len(outbound) - 1)
      /\ \A i \in DOMAIN outbound' : outbound'[i] = outbound[i + 1]
      /\ Head(outbound) = outbound[1]
  BY <1>1
<1>3. /\ \A i \in DOMAIN outbound' : i + 1 \in DOMAIN outbound
      /\ 1 \in DOMAIN outbound
      /\ \A i \in DOMAIN outbound' : outbound[1] < outbound[i + 1]
  <2>1. /\ \A i \in DOMAIN outbound' : i + 1 \in DOMAIN outbound /\ 1 < i + 1
        /\ 1 \in DOMAIN outbound
    BY <1>2
  <2>2. QED
    BY <2>1
<1>4. /\ \A i \in DOMAIN outbound' : Read(outbound[i])'
      /\ \A i, j \in DOMAIN outbound' : i < j => outbound'[i] < outbound'[j]
      /\ \A i \in DOMAIN wire', j \in DOMAIN outbound' : wire'[i] < outbound'[j]
  BY <1>1, <1>2, <1>3
<1>5. \A j \in Conn : writer'[j] = "send" =>
        Read(hand[j])' /\ \A i \in DOMAIN outbound' : hand'[j] < outbound'[i]
  BY <1>1, <1>2, <1>3
<1>6. \A i \in DOMAIN wire', j \in Conn :
        writer'[j] = "send" /\ conn'[j] = "open" => wire'[i] < hand'[j]
  BY <1>1, <1>2, <1>3
<1>7. QED
  BY <1>1, <1>4, <1>5, <1>6

LEMMA OrderSend ==
  ASSUME LifeInv, OrderInv, NEW k \in Conn, WriterSend(k)
  PROVE  OrderInv'
<1> USE DEF LifeInv, TypeInv, TypeOK, OrderInv, Read
<1>1. /\ UNCHANGED <<outbound, conn, tun, lastRead, cur, run>>
      /\ wire' = Append(wire, hand[k]) /\ writer[k] = "send" /\ conn[k] = "open"
      /\ hand' = [hand EXCEPT ![k] = 0]
      /\ writer' = [writer EXCEPT ![k] = "select"]
  BY DEF WriterSend, runVars, tunVars, sessionVars, ghostVars
<1>2. hand[k] \in Packets
  BY <1>1 DEF HoldInv
<1>3. /\ Len(wire) \in Nat /\ DOMAIN wire = 1..Len(wire)
      /\ DOMAIN wire' = 1..(Len(wire) + 1)
      /\ \A i \in DOMAIN wire : wire'[i] = wire[i]
      /\ wire'[Len(wire) + 1] = hand[k]
  BY <1>1, <1>2
<1>4. \A j \in Conn : writer'[j] = "send" => writer[j] = "send" /\ hand'[j] = hand[j] /\ j # k
  BY <1>1
<1>5. \A j \in Conn : writer'[j] = "send" => conn'[j] # "open"
  BY <1>1, <1>4 DEF ConnInv
<1>6. /\ \A i \in DOMAIN wire' : Read(wire[i])'
      /\ \A i \in DOMAIN wire', j \in DOMAIN outbound' : wire'[i] < outbound'[j]
      /\ \A i, j \in DOMAIN wire' : i < j => wire'[i] < wire'[j]
  BY <1>1, <1>3
<1>7. QED
  BY <1>1, <1>4, <1>5, <1>6

(* Steps that take packets from hands or close connections keep the order. *)
LEMMA OrderKept ==
  ASSUME OrderInv, UNCHANGED <<outbound, wire, lastRead>>, tun' = "holding" => tun = "holding",
         \A k \in Conn : writer'[k] = "send" => writer[k] = "send" /\ hand'[k] = hand[k],
         \A k \in Conn : conn'[k] = "open" => conn[k] = "open"
  PROVE  OrderInv'
<1>1. \A p : Read(p) => p <= lastRead' /\ (tun' = "holding" => p < lastRead')
  BY DEF Read
<1>2. \A i \in DOMAIN outbound' : Read(outbound[i])'
  BY <1>1 DEF OrderInv, Read
<1>3. \A i \in DOMAIN wire' : Read(wire[i])'
  BY <1>1 DEF OrderInv, Read
<1>4. \A k \in Conn : writer'[k] = "send" => Read(hand[k])'
  BY <1>1 DEF OrderInv, Read
<1>5. QED
  BY <1>2, <1>3, <1>4 DEF OrderInv

LEMMA OrderStep == ASSUME LifeInv, OrderInv, [Next]_vars PROVE OrderInv'
<1> USE DEF LifeInv, TypeInv, TypeOK, Shut
<1> USE DEF vars, runVars, tunVars, sessionVars, ghostVars
<1>1. ASSUME NEW w \in Params, Connect(w) PROVE OrderInv'
  <2>1. cur + 1 \in Conn /\ writer[cur + 1] = "off"
    BY <1>1, ClientAssumption DEF Connect, Conn, ConnInv
  <2>2. QED
    BY <1>1, <2>1 DEF Connect, OrderInv, Read
<1>2. ASSUME RunStep, \A w \in Params : ~Connect(w) PROVE OrderInv'
  <2>1. UNCHANGED <<outbound, wire, lastRead>> /\ UNCHANGED hand
    BY <1>2 DEF RunStep, Resolve, ConnectFail, BadWelcome, OpenDevice, SetupRoutes, SetupFail,
       Resume, ParamsChanged, SessionEnds, CloseNow, Sleep, Cleanup, CloseDevice, StartSession, Abort
  <2>2. tun' = "holding" => tun = "holding"
    BY <1>2 DEF RunStep, Resolve, ConnectFail, BadWelcome, OpenDevice, SetupRoutes, SetupFail,
       Resume, ParamsChanged, SessionEnds, CloseNow, Sleep, Cleanup, CloseDevice, StartSession, Abort
  <2>3. \A k \in Conn : writer'[k] = "send" => writer[k] = "send" /\ hand'[k] = hand[k]
    BY <1>2, <2>1 DEF RunStep, Resolve, ConnectFail, BadWelcome, OpenDevice, SetupRoutes, SetupFail,
       Resume, ParamsChanged, SessionEnds, CloseNow, Sleep, Cleanup, CloseDevice, StartSession, Abort
  <2>4. \A k \in Conn : conn'[k] = "open" => conn[k] = "open"
    BY <1>2 DEF RunStep, Resolve, ConnectFail, BadWelcome, OpenDevice, SetupRoutes, SetupFail,
       Resume, ParamsChanged, SessionEnds, CloseNow, Sleep, Cleanup, CloseDevice, StartSession, Abort
  <2>5. QED
    BY <2>1, <2>2, <2>3, <2>4, OrderKept, Zenon
<1>3. CASE CancelCtx \/ UNCHANGED vars
  BY <1>3 DEF CancelCtx, OrderInv, Read
<1>4. ASSUME NEW k \in Conn, WriterStep(k) \/ ReaderStep(k) \/ ExternalStep(k),
             ~WriterTake(k), ~WriterSend(k)
      PROVE  OrderInv'
  <2>1. UNCHANGED <<outbound, wire, lastRead>> /\ UNCHANGED tun
    BY <1>4 DEF WriterStep, ReaderStep, ExternalStep, WriterDone,
       WriterSendFail, WriterReport, ReaderFail, ReaderDeliver, ReaderDeliverFail,
       ReaderReport, WriterPingFail, ReaderRead, ReaderReject, ConnLost
  <2>2. \A j \in Conn : writer'[j] = "send" => writer[j] = "send" /\ hand'[j] = hand[j]
    BY <1>4 DEF WriterStep, ReaderStep, ExternalStep, WriterDone,
       WriterSendFail, WriterReport, ReaderFail, ReaderDeliver, ReaderDeliverFail,
       ReaderReport, WriterPingFail, ReaderRead, ReaderReject, ConnLost
  <2>3. \A j \in Conn : conn'[j] = "open" => conn[j] = "open"
    BY <1>4 DEF WriterStep, ReaderStep, ExternalStep, WriterDone,
       WriterSendFail, WriterReport, ReaderFail, ReaderDeliver, ReaderDeliverFail,
       ReaderReport, WriterPingFail, ReaderRead, ReaderReject, ConnLost
  <2>4. QED
    BY <2>1, <2>2, <2>3, OrderKept, Zenon
<1>5. QED
  BY <1>1, <1>2, <1>3, <1>4, OrderTun, OrderTake, OrderSend DEF Next, Returned

(* The order on the wire, for any capacity and any number of reconnects. *)
THEOREM UplinkKeepsOrder == Spec => []UplinkInOrder
<1>1. Init => OrderInv
  BY DEF Init, OrderInv
<1>2. LifeInv /\ OrderInv /\ [Next]_vars => OrderInv'
  BY OrderStep
<1>3. LifeInv /\ OrderInv => UplinkInOrder
  BY DEF LifeInv, TypeInv, TypeOK, OrderInv, UplinkInOrder
<1>4. QED
  BY <1>1, <1>2, <1>3, LifeCorrect, PTL DEF Spec
-----------------------------------------------------------------------------
(* Losses.  A writer holds a packet only while it is sending; readTun is     *)
(* started once, and so is the writer of each connection: a goroutine that   *)
(* has ended, and pays for a lost packet, never runs again.                  *)
HandsInv == \A k \in Conn : writer[k] # "send" => hand[k] = 0

StartInv ==
  /\ dev = "none" \/ run = "setup" => tun = "off"
  /\ run \in {"welcomed", "setup", "session"} => cur \notin ended

LossInv == HandsInv /\ StartInv /\ OneLossPerConnection

(* The accepted packets that are not lost, and the writers that have ended. *)
Kept ==
  Elements(wire) \cup Elements(outbound) \cup {hand[k] : k \in Conn}
    \cup (IF tun = "holding" THEN {lastRead} ELSE {})

EndedWriters == {k \in Conn : writer[k] \in {"report", "dead"}}

LossCounts ==
  /\ Lost = (1..lastRead) \ Kept
  /\ IsFiniteSet(Lost) /\ Cardinality(Lost) \in Nat
  /\ IsFiniteSet(EndedWriters) /\ Cardinality(EndedWriters) \in Nat

LEMMA LossFinite == TypeInv => LossCounts
<1> SUFFICES ASSUME TypeInv PROVE LossCounts
  OBVIOUS
<1>1. Lost = (1..lastRead) \ Kept
  BY DEF Lost, Kept
<1>2. lastRead \in Int /\ MaxConns \in Int
  BY ClientAssumption DEF TypeInv, TypeOK
<1>3. IsFiniteSet(1..lastRead) /\ IsFiniteSet(1..MaxConns)
  BY <1>2, FS_Interval
<1>4. Lost \in SUBSET (1..lastRead) /\ EndedWriters \in SUBSET (1..MaxConns)
  BY <1>1 DEF EndedWriters, Conn
<1>5. IsFiniteSet(Lost) /\ IsFiniteSet(EndedWriters)
  BY <1>3, <1>4, FS_Subset
<1>6. QED
  BY <1>1, <1>5, FS_CardinalityType DEF LossCounts

(* A step on which no packet is lost and no goroutine comes back to life. *)
LEMMA NoLoss ==
  ASSUME LossCounts, LossCounts', OneLossPerConnection,
         Lost' \subseteq Lost, EndedWriters \subseteq EndedWriters', tun = "dead" => tun' = "dead"
  PROVE  OneLossPerConnection'
<1>1. Cardinality(Lost') <= Cardinality(Lost)
  BY FS_Subset DEF LossCounts
<1>2. Cardinality(EndedWriters) <= Cardinality(EndedWriters')
  BY FS_Subset DEF LossCounts
<1>3. Cardinality(Lost) <= Cardinality(EndedWriters) + (IF tun = "dead" THEN 1 ELSE 0)
  BY DEF OneLossPerConnection, EndedWriters
<1>4. Cardinality(Lost') <= Cardinality(EndedWriters') + (IF tun' = "dead" THEN 1 ELSE 0)
  BY <1>1, <1>2, <1>3 DEF LossCounts
<1>5. QED
  BY <1>4 DEF OneLossPerConnection, EndedWriters

LEMMA GrowsByOne ==
  ASSUME NEW S, NEW T, NEW x, IsFiniteSet(S), T \subseteq S \cup {x}
  PROVE  Cardinality(T) <= Cardinality(S) + 1
<1>1. IsFiniteSet(S \cup {x})
  BY FS_AddElement
<1>2. Cardinality(S \cup {x}) = Cardinality(S) \/ Cardinality(S \cup {x}) = Cardinality(S) + 1
  BY FS_AddElement
<1>3. IsFiniteSet(T) /\ Cardinality(T) <= Cardinality(S \cup {x})
  BY <1>1, FS_Subset
<1>4. Cardinality(T) \in Nat /\ Cardinality(S) \in Nat
  BY <1>3, FS_CardinalityType
<1>5. QED
  BY <1>2, <1>3, <1>4

(* A step on which one packet is lost by a writer that ends, *)
LEMMA WriterLoss ==
  ASSUME LossCounts, LossCounts', OneLossPerConnection, NEW p, NEW k \in Conn,
         Lost' \subseteq Lost \cup {p}, k \notin EndedWriters,
         EndedWriters' = EndedWriters \cup {k}, tun' = tun
  PROVE  OneLossPerConnection'
<1>1. Cardinality(Lost') <= Cardinality(Lost) + 1
  BY GrowsByOne DEF LossCounts
<1>2. Cardinality(EndedWriters') = Cardinality(EndedWriters) + 1
  BY FS_AddElement DEF LossCounts
<1>3. Cardinality(Lost) <= Cardinality(EndedWriters) + (IF tun = "dead" THEN 1 ELSE 0)
  BY DEF OneLossPerConnection, EndedWriters
<1>4. Cardinality(Lost') <= Cardinality(EndedWriters') + (IF tun' = "dead" THEN 1 ELSE 0)
  BY <1>1, <1>2, <1>3 DEF LossCounts
<1>5. QED
  BY <1>4 DEF OneLossPerConnection, EndedWriters

(* or by readTun when it ends. *)
LEMMA TunLoss ==
  ASSUME LossCounts, LossCounts', OneLossPerConnection, NEW p,
         Lost' \subseteq Lost \cup {p}, EndedWriters' = EndedWriters,
         tun # "dead", tun' = "dead"
  PROVE  OneLossPerConnection'
<1>1. Cardinality(Lost') <= Cardinality(Lost) + 1
  BY GrowsByOne DEF LossCounts
<1>2. Cardinality(Lost) <= Cardinality(EndedWriters)
  BY DEF OneLossPerConnection, EndedWriters, LossCounts
<1>3. Cardinality(Lost') <= Cardinality(EndedWriters') + (IF tun' = "dead" THEN 1 ELSE 0)
  BY <1>1, <1>2 DEF LossCounts
<1>4. QED
  BY <1>3 DEF OneLossPerConnection, EndedWriters

LEMMA LossTun ==
  ASSUME TypeInv, LossCounts, LossCounts', LossInv, TunRead \/ TunFail \/ TunPush \/ TunStop
  PROVE  LossInv'
<1> USE DEF runVars, sessionVars, ghostVars
<1>1. /\ UNCHANGED <<writer, hand, wire, dev, run, cur, ended>> /\ tun # "off"
      /\ EndedWriters' = EndedWriters
  BY DEF TunRead, TunFail, TunPush, TunStop, EndedWriters
<1>2. HandsInv' /\ StartInv'
  BY <1>1 DEF LossInv, HandsInv, StartInv
<1>3. CASE TunRead
  <2>1. /\ lastRead' = lastRead + 1 /\ tun' = "holding" /\ outbound' = outbound
        /\ tun = "reading" /\ lastRead \in Nat
    BY <1>3, ClientAssumption DEF TunRead, TypeInv, TypeOK
  <2>2. \A n \in Kept : n \in Kept'
    BY <1>1, <2>1 DEF Kept
  <2>3. lastRead + 1 \in Kept'
    BY <2>1 DEF Kept
  <2>4. Lost' \subseteq Lost
    BY <2>1, <2>2, <2>3 DEF LossCounts
  <2>5. QED
    BY <1>1, <1>2, <2>1, <2>4, NoLoss DEF LossInv
<1>4. CASE TunFail
  <2>1. UNCHANGED <<lastRead, outbound>> /\ tun = "reading" /\ tun' = "dead"
    BY <1>4 DEF TunFail
  <2>2. Kept' = Kept
    BY <1>1, <2>1 DEF Kept
  <2>3. Lost' \subseteq Lost
    BY <2>1, <2>2 DEF LossCounts
  <2>4. QED
    BY <1>1, <1>2, <2>1, <2>3, NoLoss DEF LossInv
<1>5. CASE TunPush
  <2>1. /\ UNCHANGED lastRead /\ tun = "holding" /\ tun' = "reading"
        /\ outbound' = Append(outbound, lastRead)
        /\ outbound \in Seq(Packets) /\ lastRead \in Packets
    BY <1>5, ClientAssumption DEF TunPush, TypeInv, TypeOK, HoldInv, Packets
  <2>2. /\ Len(outbound) \in Nat /\ Len(outbound') = Len(outbound) + 1
        /\ \A i \in 1..Len(outbound) : outbound'[i] = outbound[i]
        /\ outbound'[Len(outbound) + 1] = lastRead
    BY <2>1, AppendProperties, LenProperties
  <2>3. /\ \A i \in 1..Len(outbound) : i \in 1..Len(outbound')
        /\ Len(outbound) + 1 \in 1..Len(outbound')
    BY <2>2
  <2>4. Elements(outbound) \subseteq Elements(outbound') /\ lastRead \in Elements(outbound')
    BY <2>2, <2>3 DEF Elements
  <2>5. Kept \subseteq Kept'
    BY <1>1, <2>1, <2>4 DEF Kept
  <2>6. Lost' \subseteq Lost
    BY <2>1, <2>5 DEF LossCounts
  <2>7. QED
    BY <1>1, <1>2, <2>1, <2>6, NoLoss DEF LossInv
<1>6. CASE TunStop
  <2>1. UNCHANGED <<lastRead, outbound>> /\ tun = "holding" /\ tun' = "dead"
    BY <1>6 DEF TunStop
  <2>2. Kept \subseteq Kept' \cup {lastRead}
    BY <1>1, <2>1 DEF Kept
  <2>3. Lost' \subseteq Lost \cup {lastRead}
    BY <2>1, <2>2 DEF LossCounts
  <2>4. QED
    BY <1>1, <1>2, <2>1, <2>3, TunLoss DEF LossInv
<1>7. QED
  BY <1>3, <1>4, <1>5, <1>6
LEMMA LossWriter ==
  ASSUME TypeInv, LossCounts, LossCounts', LossInv, NEW k \in Conn,
         WriterStep(k) \/ WriterPingFail(k)
  PROVE  LossInv'
<1> USE DEF runVars, tunVars, ghostVars
<1>1. /\ UNCHANGED <<tun, lastRead, dev, run, cur, ended>>
      /\ writer \in [Conn -> {"off", "select", "send", "report", "dead"}]
      /\ hand \in [Conn -> {0} \cup Packets]
      /\ outbound \in Seq(Packets) /\ wire \in Seq(Packets)
  BY DEF WriterStep, WriterDone, WriterTake, WriterSend, WriterSendFail, WriterReport,
         WriterPingFail, TypeInv, TypeOK
<1>2. StartInv'
  BY <1>1 DEF LossInv, StartInv
<1>3. CASE WriterDone(k) \/ WriterPingFail(k) \/ WriterReport(k)
  <2>1. /\ UNCHANGED <<hand, wire, outbound>>
        /\ writer[k] \in {"select", "report"}
        /\ writer' = [writer EXCEPT ![k] = "report"] \/ writer' = [writer EXCEPT ![k] = "dead"]
    BY <1>3 DEF WriterDone, WriterPingFail, WriterReport
  <2>2. HandsInv' /\ EndedWriters \subseteq EndedWriters'
    BY <1>1, <2>1 DEF LossInv, HandsInv, EndedWriters
  <2>3. Lost' \subseteq Lost
    <3>1. Kept' = Kept
      BY <1>1, <2>1 DEF Kept
    <3>2. QED
      BY <1>1, <3>1 DEF LossCounts
  <2>4. QED
    BY <1>1, <1>2, <2>2, <2>3, NoLoss DEF LossInv
<1>4. CASE WriterTake(k)
  <2>1. /\ wire' = wire /\ outbound # <<>> /\ outbound' = Tail(outbound)
        /\ hand' = [hand EXCEPT ![k] = Head(outbound)]
        /\ writer[k] = "select" /\ writer' = [writer EXCEPT ![k] = "send"]
    BY <1>4 DEF WriterTake
  <2>2. HandsInv' /\ EndedWriters' = EndedWriters
    BY <1>1, <2>1 DEF LossInv, HandsInv, EndedWriters
  <2>3. hand[k] = 0
    BY <2>1 DEF LossInv, HandsInv
  <2>4. /\ Len(outbound) \in Nat \ {0} /\ Len(Tail(outbound)) = Len(outbound) - 1
        /\ \A i \in 1..Len(Tail(outbound)) : Tail(outbound)[i] = outbound[i + 1]
        /\ Head(outbound) = outbound[1]
    BY <1>1, <2>1, HeadTailProperties, EmptySeq
  <2>5. ASSUME NEW i \in 1..Len(outbound)
        PROVE  outbound[i] = hand'[k] \/ outbound[i] \in Elements(outbound')
    <3>1. CASE i = 1
      BY <1>1, <2>1, <2>4, <3>1
    <3>2. CASE i # 1
      <4>1. i - 1 \in 1..Len(Tail(outbound)) /\ Tail(outbound)[i - 1] = outbound[i]
        BY <2>4, <3>2
      <4>2. QED
        BY <2>1, <4>1 DEF Elements
    <3>3. QED
      BY <3>1, <3>2
  <2>6. \A j \in Conn \ {k} : hand'[j] = hand[j]
    BY <1>1, <2>1
  <2>7. \A n \in Kept : n = 0 \/ n \in Kept'
    <3> SUFFICES ASSUME NEW n \in Kept, n # 0 PROVE n \in Kept'
      OBVIOUS
    <3>1. CASE \E i \in 1..Len(outbound) : n = outbound[i]
      BY <2>5, <3>1 DEF Kept
    <3>2. CASE \E j \in Conn : n = hand[j]
      BY <2>3, <2>6, <3>2 DEF Kept
    <3>3. CASE n \in Elements(wire) \/ (tun = "holding" /\ n = lastRead)
      BY <1>1, <2>1, <3>3 DEF Kept
    <3>4. QED
      BY <3>1, <3>2, <3>3 DEF Kept, Elements
  <2>8. Lost' \subseteq Lost
    BY <1>1, <2>7 DEF LossCounts
  <2>9. QED
    BY <1>1, <1>2, <2>2, <2>8, NoLoss DEF LossInv
<1>5. CASE WriterSend(k)
  <2>1. /\ outbound' = outbound /\ wire' = Append(wire, hand[k])
        /\ hand' = [hand EXCEPT ![k] = 0] /\ hand[k] \in Packets
        /\ writer[k] = "send" /\ writer' = [writer EXCEPT ![k] = "select"]
    BY <1>1, <1>5 DEF WriterSend, TypeInv, HoldInv
  <2>2. HandsInv' /\ EndedWriters' = EndedWriters
    BY <1>1, <2>1 DEF LossInv, HandsInv, EndedWriters
  <2>3. /\ Len(wire) \in Nat /\ Len(wire') = Len(wire) + 1
        /\ \A i \in 1..Len(wire) : wire'[i] = wire[i]
        /\ wire'[Len(wire) + 1] = hand[k]
    BY <1>1, <2>1, AppendProperties, LenProperties
  <2>4. /\ \A i \in 1..Len(wire) : i \in 1..Len(wire')
        /\ Len(wire) + 1 \in 1..Len(wire')
    BY <2>3
  <2>5. Elements(wire) \subseteq Elements(wire') /\ hand[k] \in Elements(wire')
    BY <2>3, <2>4 DEF Elements
  <2>6. \A j \in Conn \ {k} : hand'[j] = hand[j]
    BY <1>1, <2>1
  <2>7. Kept \subseteq Kept'
    BY <1>1, <2>1, <2>5, <2>6 DEF Kept
  <2>8. Lost' \subseteq Lost
    BY <1>1, <2>7 DEF LossCounts
  <2>9. QED
    BY <1>1, <1>2, <2>2, <2>8, NoLoss DEF LossInv
<1>6. CASE WriterSendFail(k)
  <2>1. /\ UNCHANGED <<outbound, wire>> /\ hand' = [hand EXCEPT ![k] = 0]
        /\ writer[k] = "send" /\ writer' = [writer EXCEPT ![k] = "report"]
    BY <1>6 DEF WriterSendFail
  <2>2. /\ HandsInv' /\ EndedWriters' = EndedWriters \cup {k} /\ k \notin EndedWriters
    BY <1>1, <2>1 DEF LossInv, HandsInv, EndedWriters
  <2>3. \A j \in Conn \ {k} : hand'[j] = hand[j]
    BY <1>1, <2>1
  <2>4. Kept \subseteq Kept' \cup {hand[k]}
    BY <1>1, <2>1, <2>3 DEF Kept
  <2>5. Lost' \subseteq Lost \cup {hand[k]}
    BY <1>1, <2>4 DEF LossCounts
  <2>6. QED
    BY <1>1, <1>2, <2>2, <2>5, WriterLoss DEF LossInv
<1>7. QED
  BY <1>3, <1>4, <1>5, <1>6 DEF WriterStep

(* Run starts goroutines and never restarts one that has ended. *)
LEMMA LossRun ==
  ASSUME LifeInv, LossCounts, LossCounts', LossInv, RunStep
  PROVE  LossInv'
<1> USE DEF tunVars, sessionVars, ghostVars
<1>1. UNCHANGED <<hand, wire, outbound, lastRead>>
  BY DEF RunStep, Resolve, Connect, ConnectFail, BadWelcome, OpenDevice, SetupRoutes, SetupFail,
     Resume, ParamsChanged, SessionEnds, CloseNow, Sleep, Cleanup, CloseDevice
<1>2. /\ writer \in [Conn -> {"off", "select", "send", "report", "dead"}]
      /\ cur \in 0..MaxConns /\ ended \subseteq 1..cur
  BY DEF LifeInv, TypeInv, TypeOK
<1>3. /\ HandsInv' /\ EndedWriters \subseteq EndedWriters'
      /\ UNCHANGED tun \/ (tun = "off" /\ tun' = "reading")
  <2>1. CASE UNCHANGED <<writer, tun>>
    BY <1>1, <2>1 DEF LossInv, HandsInv, EndedWriters
  <2>2. CASE SetupRoutes \/ Resume
    <3>1. run \in {"setup", "welcomed"} /\ writer' = [writer EXCEPT ![cur] = "select"]
      BY <2>2 DEF SetupRoutes, Resume, StartSession
    <3>2. cur \in Conn /\ writer[cur] = "off"
      BY <1>2, <3>1, ClientAssumption
      DEF LifeInv, TypeInv, HoldInv, ConnInv, Conn, LossInv, StartInv
    <3>3. HandsInv' /\ EndedWriters \subseteq EndedWriters'
      BY <1>1, <1>2, <3>1, <3>2 DEF LossInv, HandsInv, EndedWriters
    <3>4. UNCHANGED tun \/ (tun = "off" /\ tun' = "reading")
      BY <2>2 DEF SetupRoutes, Resume, LossInv, StartInv
    <3>5. QED
      BY <3>3, <3>4
  <2>3. QED
    BY <2>1, <2>2 DEF RunStep, Resolve, Connect, ConnectFail, BadWelcome, OpenDevice, SetupFail,
       ParamsChanged, SessionEnds, CloseNow, Sleep, Cleanup, CloseDevice
<1>4. Kept' = Kept
  BY <1>1, <1>3 DEF Kept
<1>5. Lost' \subseteq Lost
  BY <1>1, <1>4 DEF LossCounts
<1>6. StartInv'
  <2>1. ASSUME NEW w \in Params, Connect(w) PROVE StartInv'
    BY <1>2, <2>1, ClientAssumption DEF Connect, LossInv, StartInv
  <2>2. CASE SetupRoutes
    BY <2>2 DEF SetupRoutes, StartSession, LossInv, StartInv, LifeInv, StageInv
  <2>3. CASE OpenDevice
    BY <2>3 DEF OpenDevice, Abort, LossInv, StartInv
  <2>4. CASE CloseDevice
    BY <2>4 DEF CloseDevice, LossInv, StartInv
  <2>5. CASE \/ Resolve \/ ConnectFail \/ BadWelcome \/ SetupFail \/ Resume \/ ParamsChanged
             \/ SessionEnds \/ CloseNow \/ Sleep \/ Cleanup
    BY <2>5 DEF Resolve, ConnectFail, BadWelcome, SetupFail, Resume, ParamsChanged, SessionEnds,
       CloseNow, Sleep, Cleanup, Abort, StartSession, LossInv, StartInv
  <2>6. QED
    BY <2>1, <2>2, <2>3, <2>4, <2>5 DEF RunStep
<1>7. QED
  BY <1>3, <1>5, <1>6, NoLoss DEF LossInv

LEMMA LossStep == LifeInv /\ LossCounts /\ LossCounts' /\ LossInv /\ [Next]_vars => LossInv'
<1> SUFFICES ASSUME LifeInv, LossCounts, LossCounts', LossInv, [Next]_vars PROVE LossInv'
  OBVIOUS
<1> USE DEF LifeInv
<1>1. CASE RunStep
  BY <1>1, LossRun
<1>2. CASE TunRead \/ TunFail \/ TunPush \/ TunStop
  BY <1>2, LossTun
<1>3. ASSUME NEW k \in Conn, WriterStep(k) \/ WriterPingFail(k) PROVE LossInv'
  BY <1>3, LossWriter
<1>4. ASSUME UNCHANGED <<writer, hand, wire, outbound, tun, lastRead, dev, run, cur, ended>>
      PROVE  LossInv'
  <2>1. Lost' = Lost /\ EndedWriters' = EndedWriters
    BY <1>4 DEF Lost, EndedWriters
  <2>2. HandsInv' /\ StartInv'
    BY <1>4 DEF LossInv, HandsInv, StartInv
  <2>3. QED
    BY <1>4, <2>1, <2>2, NoLoss DEF LossInv
<1>5. ASSUME NEW k \in Conn, ReaderStep(k) \/ ReaderRead(k) \/ ReaderReject(k) \/ ConnLost(k)
      PROVE  LossInv'
  BY <1>4, <1>5 DEF ReaderStep, ReaderFail, ReaderDeliver, ReaderDeliverFail, ReaderReport,
     ReaderRead, ReaderReject, ConnLost, runVars, tunVars, sessionVars, ghostVars
<1>6. CASE CancelCtx \/ Returned \/ UNCHANGED vars
  BY <1>4, <1>6 DEF CancelCtx, Returned, vars, runVars, tunVars, sessionVars, ghostVars
<1>7. QED
  BY <1>1, <1>2, <1>3, <1>5, <1>6 DEF Next, ExternalStep

LEMMA LossInit == Init => LossInv
<1> SUFFICES ASSUME Init PROVE LossInv
  OBVIOUS
<1>1. HandsInv /\ StartInv
  BY DEF Init, HandsInv, StartInv
<1>2. LossCounts /\ Lost = {}
  BY TypeInit, LossFinite DEF Init, Lost
<1>3. Cardinality(Lost) = 0
  BY <1>2, FS_EmptySet
<1>4. OneLossPerConnection
  BY <1>2, <1>3 DEF OneLossPerConnection, LossCounts, EndedWriters
<1>5. QED
  BY <1>1, <1>4 DEF LossInv

(* A reconnect costs at most one packet, for any number of reconnects and    *)
(* any capacity of outbound (client.go:207-248).                             *)
THEOREM OnePacketLostPerConnection == Spec => []OneLossPerConnection
<1>1. LifeInv => LossCounts
  BY LossFinite DEF LifeInv
<1>2. LossInv => OneLossPerConnection
  BY DEF LossInv
<1>3. QED
  BY <1>1, <1>2, LossInit, LossStep, LifeCorrect, PTL DEF Spec
==============================================================================
