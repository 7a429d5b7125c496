# Verification of Veilink

Veilink is a small IPv4 VPN: a server and a client, each with a TUN device,
exchange packets over one TLS WebSocket per session. This directory holds TLA+
models of its concurrent core, of the host set-up on Linux and Windows, of its
wire format and of its start from a configuration file, the TLC runs that check
them, and TLAPS proofs of the safety results. File and line references are to the
repository's `internal/` packages. `PROJECT.json` maps every definition to the lines it models and lists
the runs, mutants, findings, hazards and theorems.

    tlc -workers 2 -config Hub.cfg MCHub      # one run; the others alike
    tlapm HubProofs.tla                       # the proofs of one module

## 1. The system

| Component | State | Operations | Interacts with |
| --- | --- | --- | --- |
| `core` (hub.go) | map address → peer under a RWMutex; a queue of 256 packets and a cancel function per peer | Register, Unregister, Dispatch, CloseAll | called by handlers, TUN pump and Run of the server; updates metrics |
| `server` (server.go) | per session: WebSocket, contexts, write loop, `writeErr`; TUN pump; listeners, `errCh`, context of Run | tunnel handler, writeLoop, packetLoop, Run | hub, TUN device, HTTP server, clients |
| `client` (client.go) | WebSocket, device, routes (`cleanup`), negotiated parameters; `outbound` (512); per session two goroutines and `errCh` (2) | Run, connect, readTun, runSession | platform, TUN device, server |
| `platform` | the host's addresses, routes, DNS | SetupClient with rollback, SetupServer, Cleanup | `ip`, `resolvectl`, PowerShell; called by Run of the client and by `cmd/veilink` |
| `protocol` | none | Encode, Decode, control messages, IPv4SourceDestination | |
| `config`, `auth` | none | loading, defaults and validation; digests of tokens | |
| `cmd/veilink` | what one command holds: device, address, logger | server, client, validate, token | all of the above |
| `metrics`, `device`, `logging` | counters (metrics); otherwise none | exposition, TUN wrapper, logger | |

What is hard to get right:

* **Replacement.** A second session for an address takes it from the first. The
  map is changed under the lock; cancelling the old session and counting the new
  one happen after the unlock, and the old handler's deferred Unregister runs at
  any later time.
* **Use after unlock.** Dispatch looks a peer up, releases the lock, then
  enqueues; CloseAll cancels a snapshot.
* **Several goroutines per session.** The write loop and the handler end
  independently and learn of each other by a context and a channel of capacity
  one. In the client the goroutines of a dead session may still run beside those
  of the next; they share `outbound` and the TUN.
* **Shutdown and failure paths.** Run of the server may return because of a
  signal, a listener, a server or the device; sessions in their handshake may
  register after CloseAll. Run of the client must keep the routes while it
  reconnects and remove them on every way out.
* **Waits.** Full queues, `errCh` read once and written twice, readTun blocked on
  a channel nobody drains, a handler blocked in Read with a silent client.
* **A host that outlives the client.** SetupClient changes the host in up to ten
  commands; each may fail or be killed, the client may crash and start again on
  another uplink, and the undo commands may fail unheard.
* **Two ends, two checks.** Each end of a session decides by itself what it
  sends and what it takes, and ends the session on a mismatch.
* **Old connections.** The server learns later than the client that a connection
  is dead; handlers of several connections of one client overlap.

What makes each component correct: the registry behaves as if each operation
were atomic and its gauge is exact; a handler leaves nothing behind, delivers in
order and only to the owner of the address, and falls silent when cancelled;
Run releases what it opened; the client fails closed, cleans up, keeps order,
loses at most one packet per connection, and ends when told to; the host set-up
is a transaction and the next run repairs what a crash left; a frame has one
encoding and only well-formed packets with the session's address reach a TUN;
validation accepts exactly the sound configurations; client and server find back
together after any failures.

## 2. Modules

| Module | Models |
| --- | --- |
| `SessionRegistry` | What the hub promises, each operation one step. |
| `Hub` | `core/hub.go`: the critical section and what follows the unlock are separate steps. |
| `Server` | `server/server.go`, composed with `Hub` by EXTENDS: every action either takes the step of `Hub` its call makes or leaves `hubVars` alone. |
| `Client` | `client/client.go`. |
| `System` | One client and the server's handlers of all its connections, with the registry as one step per operation. |
| `LinuxSetup` | `platform/client_linux.go`: SetupClient, its rollback, and the cleanup and close deferred by Run of the client. |
| `WindowsSetup` | `platform/client_windows.go`, the same for the PowerShell scripts. |
| `Protocol` | `protocol/frame.go` and `control.go` as operators over byte strings. |
| `Datapath` | The senders and receivers of both ends, byte for byte, over `Protocol`. |
| `Config` | `config/config.go` and `auth.ParseHash` as operators. |
| `Startup` | `cmd/veilink`: validate, server, client; SetupServer; `server.New`; over `Config`. |
| `MC...` | Instances for TLC, one per specification. |
| `HubProofs`, `ServerProofs`, `ClientProofs`, `SystemProofs`, `LinuxSetupProofs`, `WindowsSetupProofs`, `DatapathProofs`, `StartupProofs` | Theorems about the module in their name. |

Definitions with an underscore in their name (`NoRoom_OffByOne`,
`CloseNow_Skipped`, ...) are mutants: plausible bugs that replace the definition
after them to show that a property notices. No specification uses them.

### Hub

A *session* is one `*core.Peer`. `hub[s]` says where its handler is in its calls:
`out` → `installed` (map changed, lock released) → `counted` (old peer cancelled,
or gauge incremented) → `in` (Register returned true) → `left`; or `refused`.
`old` is Register's local variable, `disp` is Dispatch between its lookup and its
send, `closing` what is left of CloseAll's slice. `received`, the packets taken
from the queue, and `lastId`, the number of calls of Dispatch, are ghosts. A
packet is its number and destination (in the server, also its length).

### Server

`pc[s]` walks through `tunnel`: `idle`, `hello`, `welcome`, `register` (the three
steps of Register), `check` (the select at the head of the loop), `read`, `write`,
then the deferred calls in reverse order `unregister`, `cancel`, `close`, and
`done`. `writer` is the goroutine of writeLoop and `writeErr` its channel; `pump`
is packetLoop; `run`, `accepting`, `ctxDone`, `devOpen` and `errCh` belong to Run.

External, modelled by how the code uses them: a WebSocket read returns a frame,
fails, or times out, and may still return a frame that had arrived when its
context was cancelled; when a context ends during a read the library closes the
connection; a failed write or ping may or may not close it; `Shutdown` and
`Close` of the HTTP server close the listener and not hijacked connections; the
TUN gives no packet longer than its MTU (`ServerAssumption`). The constant
`Faults` selects which of a signal, a listen error, a serve error and a device
error may happen to Run.

### Client

`run` walks through Run: `resolve`, `connect`, `welcomed`, `setup`, `session`,
`closenow`, `sleep`, and the deferred `cleanup` and `closedev`, then `returned`.
For each connection k, `writer[k]`, `hand[k]`, `reader[k]`, `errs[k]` are the two
goroutines of its runSession, the packet the first one holds and the content of
`errCh`; they may live on when `cur` has moved to the next connection. The dial
with HELLO and WELCOME is one step that succeeds or fails: until it has returned
nothing else sees the connection. SetupClient is one external step that succeeds
or fails without a trace, and the commands of the cleanup are assumed to succeed;
`LinuxSetup` and `WindowsSetup` show how far that is true.

### System

`client` walks through Run: `dial`, `greet` (HELLO sent), `session`, `pause`.
`handler[k]` is where `tunnel` is for connection k: `hello`, `register` (WELCOME
sent), `serve`, `leave`, and `off` before and after. A handler goes on with a
connection the client has given up until it notices: it may still read the
HELLO, register and evict the client's newer connection. `owner` and `evicted`
are the registry's, with the steps of `SessionRegistry`, which `Hub` implements;
the goroutines behind each step are in `Client` and `Server`. Connection numbers
are used again, so behaviours need not end. Faults (a failed dial, an abandoned or silently cut connection, an idle
timeout, a restart of the server) are counted against `MaxFaults`; another client
may take or leave a place at any time.

### LinuxSetup and WindowsSetup

`table` is what the host knows: entries with a key (`server` is the /32 route to
the VDS, `gateway` the /32 route to the tunnel gateway, `low` and `high` the two
halves of the IPv4 space, `low6` and `high6` those of IPv6, `addr`, `link`, `dns`,
`domain`) and the way they lead, the TUN or an uplink. One action is one command
(Linux) or one statement of a script (Windows). On Linux replace overwrites the
entry with the same key, `completed` is the list of undo functions, and a command
whose context ends may be killed after its effect (`torn`). On Windows New-NetRoute
adds, and fails on an entry that exists; the undo is the catch block of the
script, which a kill skips. External: entries that lead to the TUN go away with it; the host may change its
uplink at any time, and on Linux the kernel may drop the routes of an uplink that
went down; crashes.

### Protocol and Datapath

Byte strings are sequences of 0..255; sizes and constants are those of the code
and a function that may return an error is a set with at most one element.
`Datapath` takes one packet, control message, frame or other byte string at a
time through `Takes`, `Encode`, `Decode` and `Accepts`. A control message is a
string of the length of its JSON.

### Config and Startup

An IPv4 address is its number, a prefix its base and length, so masks, reserved
addresses and the /16 to /30 limits are computed as in the code. A text that is
only matched against a form (listeners, path, URL, interface, token) is unset,
good or bad. A file has the platform of its host: its mode is not looked at on
Windows (config.go:100), and SetupServer fails on every platform but Linux. A hash
is a digest and a spelling. A duration is in milliseconds and
may be negative, as time.ParseDuration allows. `Startup` runs one command after
another on a file: the loop of Server.Validate is one action per client, and
runServer goes on to the TUN, SetupServer, New, Run and the deferred cleanup.

## 3. Runs

| Run | Bounds | What it shows |
| --- | --- | --- |
| `hub` | 3 sessions (two on one address), 2 addresses, limit 1, queue 2, 3 packets; symmetry | Gauge, limit, fate of displaced sessions and routing table (`RegistryInv`), order and accounting of packets, how a replacement divides them (`ReplacementSplitsStream`); `Hub` implements `SessionRegistry`. |
| `server_replace` | 2 sessions on one address, 2 packets, queue 1, a signal; symmetry | Replacement and shutdown in every state of both sessions. |
| `server_cancel` | 2 sessions on one address, a signal, no packets down; scheduling fairness | A replaced session ends, and the sessions of a signalled server, and Run returns, with no help from clients or timers. |
| `server_shutdown` | 2 sessions on 2 addresses, limit 1, all faults, no packets down; scheduling and timers | The refusal after WELCOME; startup failures and shutdown against running sessions; half-dead and left-over sessions end. |
| `server_mtu` (violated) | 2 sessions on one address; lengths 1 and 2 | Finding 1. |
| `client` | 2 connections, 3 packets, `outbound` 1, `errCh` 2, 2 parameter sets; fairness | Kill switch, cleanup, order, loss, late deliveries, parameters. A signal ends Run and readTun; when Run returns on its own readTun ends or rests; ended sessions' goroutines end. |
| `linux_setup` | 2 uplinks and none, host routes of its own, IPv6 and DNS, 2 starts; fairness | No loop through the tunnel, no trace after a failure, repair after a crash; a signal anywhere ends with the TUN closed. |
| `linux_own` (violated) | as `linux_setup` | Finding 2. |
| `windows_setup` | 2 uplinks and none, host routes to the server, IPv6 and DNS, 3 starts | Left-overs never make a later start fail; what a run may leave; repair. |
| `datapath` | sizes around 20, 60, 256, 576, 1280, 1500, 4096, 65535; 3 client MTUs, server MTU 1280 | Round trip, unique encoding, both ends agree, only own packets reach a TUN. |
| `startup` | some 3,000 files: each field at and beside its limits, 11 networks, 8 gateways, 16 addresses, pairs and triples of clients, files of any mode on each platform | Tokens lead to their own address, validation is exact, startup releases what it took. |
| `system` | 3 connections, limit 1, 4 faults; fairness | A serving handler is reachable; a WELCOME without registration does not last; client and server end in a stable session when the failures end and the place is free. |

**Why the bounds are enough.** Every race in the hub is between sessions of one
address (two of them) and a session of another address that competes for the
last place (the third). A queue of one or two is full after one or two packets,
and three packets make a reorder, a loss and a drop visible in one behaviour. In
the client two connections are what it takes for goroutines of two sessions to
overlap; the capacity 1 of `outbound` makes it full, and 3 packets put one in
every place (wire, hand, channel). `errCh` keeps its real capacity. Every fault
occurs in some run. The set-up needs two starts for a crash and its repair, on
Windows a third for a repair of what two runs left on two uplinks, and two uplinks
for a move. Three connections of one client are the current one, one that is about
to register late, and one that is leaving; four faults put each of them there.
`Datapath` and `Config` use the constants of the code and inputs on both sides of
every limit.

**Symmetry** is used in `hub` and `server_replace`, which check safety only, and
permutes sessions with the same address, which the specifications do not tell apart.

**Fairness.** Weak fairness of goroutines that can run: the Go scheduler starves
none, and each blocking call has a timeout. `Scheduled` assumes nothing of
clients, the network or timers; `Timers` adds the handshake and idle timeouts
(server.go:169, 222). The client's writer gets strong fairness for `WriterDone`:
its select may always find a packet in `outbound` too, and Go chooses among the
ready cases at random, so the context is not neglected for ever.
Nothing is assumed of a connection, a dial or a server answering. In `LinuxSetup`
a command that was started ends or is killed, and Run ends once its context has.
In `System` a client step and a step of each handler that stays possible is taken,
because every read, write and ping has a timeout; faults are finite, and no fairness is
assumed of them or of the other client.

**Deadlock** is checked in every run; the stuttering disjuncts `Quiescent` and
`Returned` say where the system may rest (no handler is running; Run of the
client has returned), and `Settled` that a client in a working session need do
nothing. The hosts of the set-up modules may always change their uplink.

## 4. Findings

1. *The negotiated MTU is not enforced* (`server_mtu`). docs/PROTOCOL.md:55
   against server.go:184, 234 and 256-262.
2. *Cleanup removes a route the host had* (`linux_own`). docs/ARCHITECTURE.md:43
   says shutdown "removes only the routes and addresses created by Veilink";
   client_linux.go:44 replaces and 48 deletes.

Smaller differences between documents and code, which the models contain as the
code has them:

* docs/ARCHITECTURE.md:46 says a new session cancels the old one "atomically";
  Register cancels it after the unlock (hub.go:37-40). `ImplementsRegistry` and
  `CancelledEnds` show what is true: the eviction is decided in the critical
  section, and the displaced session ends.
* docs/PROTOCOL.md:56 says "a later authenticated session replaces the earlier
  one"; the order is that of registration, which waits for HELLO (server.go:149,
  204). `NoBlackHole` and `Converges` show that the client recovers.
* docs/ARCHITECTURE.md:27 says a /32 route "keeps the VDS connection on the
  original gateway"; it is made once, and after the uplink went down and came back
  nothing makes it again. `NoLoop` names this exception (`moved`).
* docs/ARCHITECTURE.md:22 calls the set-up transactional; on Windows a killed
  script has no catch, and undecodable output returns no cleanup
  (client_windows.go:67-74). `OnlyServerRouteLeaks` shows that the route to the
  server is all that can stay, `NoConflict` that it does no harm to the next run.
* main.go:151 prints "configuration is valid" for a file whose log level
  logging.New refuses; `ValidationIsExact` shows that this is the only such case.
* README.md:27 says IPv6 fails closed "by default"; `block_ipv6` is false when the
  file leaves it out (config.go:53, 163-188), and only the example sets it.
* Run of the server may return on a signal through the pump's `context.Canceled`
  without CloseAll and without closing the device (server.go:112-115). This is the
  exception in `DeviceReleased`.
* docs/PROTOCOL.md:28-29 says frames above 65,535 bytes are rejected; the limit of
  Encode and Decode is on the payload, so a frame of 65,543 bytes passes them
  (frame.go). The receivers reject it afterwards, by MTU or by the size of a control
  message.

## 5. Proofs

Every safety property that a passing run checks is also proved, for every value
of the constants that satisfies the assumptions:

* `HubAssumption`, `ServerAssumption`, `ClientAssumption`, `SystemAssumption`:
  finite sets of sessions and addresses, positive capacities and limits, packets
  with a number, a destination and a length within the TUN's MTU, and values that
  stand for nil;
* `LinuxAssumption`, `WindowsAssumption`: no entry of the host leads to the TUN
  before it exists, and "tun" and "no uplink" are not uplinks;
* `DatapathAssumption`: packets, messages and payloads are sequences of bytes, of
  any content and length, types are bytes, flags are 16 bits, MTUs are naturals;
* `StartupAssumption`: files hold configurations with the fields and types of the
  code's structs (any numbers, any number of clients, any texts and hashes).

| Theorem | Statement |
| --- | --- |
| `HubTypeCorrect` | `HubSpec => []HubTypeOK` |
| `RegistryCorrect` | `HubSpec => []RegistryInv`: gauge, limit, no orphan, live routes |
| `DispatchIsCorrect` | `HubSpec => []DispatchCorrect`: order and accounting of packets |
| `StreamsAreSplit` | `HubSpec => []ReplacementSplitsStream`: a replacement cuts an address's packets in two |
| `HubImplementsRegistry` | `HubSpec => Registry!Spec` |
| `ServerRegistryCorrect` | `ServerSpec => [](HubTypeOK /\ RegistryInv)` |
| `ServerTypeCorrect` | `ServerSpec => []ServerTypeOK` |
| `DoneHandlersAreClean` | `ServerSpec => []DoneIsClean` |
| `CancelledSessionsFallSilent` | `ServerSpec => []AtMostOneLatePacket` |
| `DeliveryIsCorrect`, `OnlyTheLastIsLost`, `DeviceIsReleased` | `Delivery`, `LosesOnlyTheLast`, `DeviceReleased` |
| `ClientTypeCorrect` | `Spec => []TypeOK` |
| `RoutesFailClosed`, `ReturnIsClean`, `SessionsMatchTheDevice` | `FailClosed`, `CleanReturn`, `SessionMatchesDevice` |
| `AtMostOneLateDelivery` | `Spec => []OneLateDelivery` |
| `UplinkKeepsOrder` | `Spec => []UplinkInOrder` |
| `OnePacketLostPerConnection` | `Spec => []OneLossPerConnection` |
| `SystemTypeCorrect`, `ServingHandlersAreReached` | `TypeOK`, `NoBlackHole` of `System` |
| `TunnelNeverLoops`, `SetupIsTransactional`, `NextRunRepairs` | `NoLoop`, `Transactional`, `RepairsCrash` of `LinuxSetup` |
| `NothingConflicts`, `OnlyServerRouteRemains` | `NoConflict`, `OnlyServerRouteLeaks` of `WindowsSetup` |
| `EncodingIsUnique`, `TheEndsAgree`, `OnlyOwnPacketsPass` | `OneEncoding`, `EndsAgree`, `OnlyOwnPackets` of `Datapath` |
| `StartReleasesWhatItTook`, `TokensLeadToTheirOwn`, `ValidateSaysWhatIs` | `StartupReleases`, `TokensSeparate`, `ValidationIsExact` of `Startup` |

*Hub.* The four registry invariants are inductive only together: the gauge moves
in Unregister only if the map holds this very peer, which needs `RoutesAreLive`
to know that the peer has been counted or is `Uncounted`; `NoOrphan` needs the
routing table to know whom a Register displaces. The refinement maps `owner` to
the map, `evicted` to the sessions cancelled or held in some Register's `old`,
and `count` to the gauge plus the Register calls that have not incremented it
yet; the critical section of Register becomes `Acquire`, what follows stutters.
`DispatchInv` adds to order and accounting that what two sessions carry is
disjoint and that the packet between lookup and send is the latest of all; the
accounting is a statement about cardinalities, kept step by step from that.
`StreamInv` is about the peer that Dispatch holds after its unlock (`HeldIsNewest`):
it carries the newest packets of its address, and if it has been replaced since the
lookup, its successor carries nothing yet. This holds because one goroutine calls
Dispatch.

*Server.* Each action takes a step of Hub or leaves the hub alone, by its
definition; the lemma `HubInServer` turns this into `ServerSpec => HubSpec`, by
which the hub theorems carry over without repeating their proofs. The handler's
invariant `SessionInv` ties `pc` to `hub`; it is needed because "done" says
nothing of the map by itself: the map may only hold members (`RoutesAreLive`),
and a done handler is not one. `LateInv`: a session that wrote a packet after its
cancellation is at a place from which it does not reach `read` again. `WritersInv`
compares what a write loop took from the queue with what it wrote: all of it, or
all but the last while it is sending or after it ended; `Delivery` follows from it
and the hub's `DispatchCorrect`. `ReportInv`: the cancelled context is in `errCh`
only once the pump is dead.

*Client.* `LifeInv` adds to the types what each stage of Run guarantees of
device and routes (`StageInv`) and that only the current connection is open and
all other sessions' goroutines are cancelled (`ConnInv`). `LateInv` and `OrderInv`
build on it. `OrderInv` orders the packets on their way: wire, the hand that can
still be written, `outbound`, readTun. A writer of a dead session may hold a
packet older than some on the wire, and that is harmless only because just one
connection is open. `LossInv` counts: a writer or readTun that ends pays for the
packet it held, and is never started again (`StartInv`).

*System.* `ReachInv` joins `NoBlackHole` with the types and with `OwnerIsOn`, that
the owner's handler has not returned; it is inductive. `OwnerIsOn` is what makes a reused connection safe (Dial starts only a handler
the registry does not know), and `NoBlackHole` what makes Leave harmless to others.

*LinuxSetup.* `SetupInv` ties the list of undo functions to the table. The second
of them is that of the route to the server and all others lead to the TUN
(`RecordedInv`); a half of the default route has its undo function behind the
second (`HalvesRecorded`), and the route to the server is there as long as the
second is recorded (`ServerRoutePresent`): as the list is undone from its end,
these two give `NoLoop`. `OwnAdditions` and `ServerRoutes` say which entries a run
may have added and that its own route to the server replaced every other.

*WindowsSetup.* `ScriptInv`: nothing leads to a TUN that is new (`TunIsNew`), the
first Remove of every list is that of the route to the server
(`ServerRouteRemoved`), and the list of what is still to be made is disjoint from
the table (`StillToMake`), because its entries differ from each other.

*Datapath.* `DecodeEncode` and `EncodeDecode` are lemmas about `Protocol` for any
frame and any byte string; they rest on two bytes being exactly the numbers up to
65535, the limit of Encode. `HeaderChecked` shows that what
IPv4SourceDestination accepts is well-formed. `PathInv` carries the origin of a
message and the sender's check to the receiver.

*Startup.* `HeldInv` says what runServer holds at each stage. `LoopInv` is the
invariant of the loop in Server.Validate: the three maps are those of the clients
seen so far, and there is no error exactly when these are sound and pairwise
different (`ErrorFree`); the maps can tell that only of clients found sound before
(`MapsTell`), because a hash that does not parse leaves no digest. `LoadInv` carries the result to server.New, whose map
from digests therefore overwrites nothing. `ServerExact` and `ClientExact` show,
for any configuration, that defaults followed by validation accept what
`LegalServer` and `LegalClient` describe; for each prefix length from 16 to 30 the
masked addresses are the block of that size (`Block`).

*Only model-checked:* the liveness properties (`CancelledEnds`,
`ShutdownReturns`, `WriterFailureEndsSession`, `LeftoverSessionsEnd`,
`SignalReturns`, `GoroutinesEnd`, `SignalRestores`, `BlackHoleEnds`,
`Converges`), because fairness is outside the prover's reach, and the two
properties that runs show violated.

## 6. Not modelled

* Counters other than ActiveSessions, Accepted and Dropped; the metrics text.
* Decoy page, health and readiness endpoints, security headers: no state.
* TLS, certificate checks, redirect refusal, HTTP; the random tokens and session
  IDs, base64, SHA-256 and the constant-time comparison: a token is its digest
  (`Startup`) or the address it maps to (`Server`).
* The text of URLs, paths, listeners, interface names and JSON; flag parsing; the
  commands token, version and help.
* What netip, the kernel, PowerShell, systemd-resolved, the TUN driver and the
  WebSocket library do beyond the behaviour described in section 2.
* Deployment files (systemd, Caddy, nftables, sysctl, scripts): configuration of
  other programs. Logging output.
* Two hazards have no property, because the code does nothing about them: readTun
  ends silently when a read of the TUN fails and is not restarted (client.go:205;
  `TunFail` of `Client`), and the default route is read once, before the first
  session (client_linux.go:21; `Roam` of `LinuxSetup`).

## 7. Plan

The specifications cover the parts of the system that keep state, and their
safety properties are proved. What may still be added are theorems that no run
needs:

1. `System` takes the steps of `SessionRegistry`, as its comments say: a
   refinement with `owner` and `evicted` mapped directly.
2. The safety side of the liveness results: no goroutine of the client and no
   handler can be blocked by a full `errCh` or `writeErr`.
3. Action properties of the set-up modules: which entries a single step may add
   or remove.
