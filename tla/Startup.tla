------------------------------ MODULE Startup -------------------------------
(***************************************************************************)
(* The commands of cmd/veilink on one configuration file: validate, server *)
(* and client.  runServer loads and validates the file, opens the TUN,     *)
(* calls SetupServer (internal/platform/client_linux.go) and server.New,   *)
(* runs the server and releases on every path what it has taken.  The loop *)
(* of Server.Validate over the clients is one action per client; it goes   *)
(* on after an error and reports all of them.                              *)
(*                                                                         *)
(* External: the file, the kernel, and what becomes of the running server  *)
(* (module Server) and client (module Client).                             *)
(***************************************************************************)
EXTENDS Config

CONSTANTS
  Files,    \* configuration files, each with the platform (runtime.GOOS) of its host
  Digests   \* SHA-256 digests; each stands for the one token that has it

Text == {"unset", "good", "bad"}

Prefix == [base : Int, bits : 0..32]

TokenHash == [digest : Digests, case : STRING]

ClientEntry == [name : STRING, address : Int, hash : TokenHash]

ServerConfig ==
  [listen : Text, metrics : Text, path : Text, interface : Text, network : Prefix,
   gateway : Int, mtu : Int, max : Int, handshake : Int, idle : Int, log : Text,
   clients : Seq(ClientEntry)]

ClientConfig ==
  [url : Text, token : Text, interface : Text, dns : Text, mtu : Int, dial : Int,
   keepalive : Int, reconnect : Int, log : Text]

GOOS == {"linux", "windows", "other"}

FilesOf(kind, configs) ==
  [kind : {kind}, goos : GOOS, exists : BOOLEAN, perm : SUBSET STRING, decodes : BOOLEAN,
   documents : Nat, cfg : configs]

ASSUME StartupAssumption ==
  Files \subseteq FilesOf("server", ServerConfig) \cup FilesOf("client", ClientConfig)

VARIABLES
  file,        \* the file on disk
  command,     \* the command that is running
  pc,          \* where it is
  cfg,         \* the configuration it has decoded
  i,           \* clients the loop of Validate has seen
  errs,        \* Validate has found an error
  seenNames, seenIPs, seenHashes,
  dev,         \* the TUN device
  addr,        \* the TUN has the server's address
  ident,       \* Server.ident
  ranClean,    \* ghost: Run of the server closed the device
  said,        \* ghost: what commands have reported of the file
  undone       \* ghost: every deletion of the address worked

loopVars == <<i, errs, seenNames, seenIPs, seenHashes>>
hostVars == <<dev, addr, undone>>
vars     == <<file, command, pc, cfg, loopVars, hostVars, ident, ranClean, said>>

(* ident knows no digest. *)
NoIdent == [d \in Digests |-> Unset]

Init ==
  /\ file \in Files
  /\ command = "none" /\ pc = "idle" /\ cfg = file.cfg
  /\ i = 0 /\ errs = FALSE /\ seenNames = {} /\ seenIPs = {} /\ seenHashes = {}
  /\ dev = "none" /\ addr = FALSE /\ undone = TRUE /\ ident = NoIdent
  /\ ranClean = TRUE /\ said = {}

(* A command is started; in the end its process is gone, and what it held. *)
Begin(c) ==
  /\ pc = "idle" /\ c \in {"validate", file.kind}
  /\ command' = c /\ pc' = "load" /\ cfg' = file.cfg
  /\ i' = 0 /\ errs' = FALSE /\ seenNames' = {} /\ seenIPs' = {} /\ seenHashes' = {}
  /\ dev' = "none" /\ addr' = FALSE /\ undone' = TRUE /\ ident' = NoIdent /\ ranClean' = TRUE
  /\ UNCHANGED <<file, said>>

Report(what) ==
  /\ pc' = "returned"
  /\ said' = said \cup {<<command, what>>}

LoadFail ==
  /\ pc = "load"
  /\ ~loadStrict(file, IF file.kind = "server" THEN ServerPerm ELSE ClientPerm)
  /\ Report("invalid")
  /\ UNCHANGED <<file, command, cfg, loopVars, hostVars, ident, ranClean>>

LoadServer ==
  /\ pc = "load" /\ file.kind = "server" /\ loadStrict(file, ServerPerm)
  /\ cfg' = applyServerDefaults(cfg)
  /\ errs' = ~scalarsValid(cfg')
  /\ pc' = "clients"
  /\ UNCHANGED <<file, command, i, seenNames, seenIPs, seenHashes, hostVars, ident, ranClean, said>>

seen_BySpelling(c) ==
  \/ c.name \in seenNames \/ c.address \in seenIPs
  \/ \E k \in 1..i : cfg.clients[k].hash = c.hash

(* An earlier client has the name, the address or the digest. *)
seen(c) ==
  \/ c.name \in seenNames \/ c.address \in seenIPs
  \/ ParseHash(c.hash) \subseteq seenHashes

(* One iteration of the loop of Server.Validate.  A hash that does not parse *)
(* is an error by itself.                                                    *)
ValidateClient ==
  /\ pc = "clients" /\ i < Len(cfg.clients)
  /\ LET c == cfg.clients[i + 1]
     IN  /\ errs' = \/ errs \/ seen(c)
                    \/ c.name = "" \/ ~addressValid(cfg, c.address) \/ ParseHash(c.hash) = {}
         /\ seenNames' = seenNames \cup {c.name}
         /\ seenIPs' = seenIPs \cup {c.address}
         /\ seenHashes' = seenHashes \cup ParseHash(c.hash)
  /\ i' = i + 1
  /\ UNCHANGED <<file, command, pc, cfg, hostVars, ident, ranClean, said>>

serverRejected == errs \/ cfg.clients = <<>>

(* Validate returns; runValidate reports it, runServer makes a logger. *)
Validated ==
  /\ pc = "clients" /\ i = Len(cfg.clients)
  /\ IF serverRejected THEN Report("invalid")
     ELSE IF command = "validate" THEN Report("valid")
     ELSE pc' = "log" /\ UNCHANGED said
  /\ UNCHANGED <<file, command, cfg, loopVars, hostVars, ident, ranClean>>

LoadClient ==
  /\ pc = "load" /\ file.kind = "client" /\ loadStrict(file, ClientPerm)
  /\ cfg' = applyClientDefaults(cfg)
  /\ IF ~clientValid(cfg') THEN Report("invalid")
     ELSE IF command = "validate" THEN Report("valid")
     ELSE pc' = "log" /\ UNCHANGED said
  /\ UNCHANGED <<file, command, loopVars, hostVars, ident, ranClean>>

(* logging.New knows four levels and two formats. *)
NewLogger ==
  /\ pc = "log"
  /\ IF cfg.log = "bad" THEN Report("invalid")
     ELSE pc' = (IF command = "client" THEN "client" ELSE "open") /\ UNCHANGED said
  /\ UNCHANGED <<file, command, cfg, loopVars, hostVars, ident, ranClean>>

(* Client.Run has opened its own device and returns. *)
ClientReturns ==
  /\ pc = "client"
  /\ Report("ran")
  /\ UNCHANGED <<file, command, cfg, loopVars, hostVars, ident, ranClean>>
-----------------------------------------------------------------------------
(* runServer after the configuration. *)

OpenDevice ==
  /\ pc = "open"
  /\ \/ dev' = "open" /\ pc' = "addr" /\ UNCHANGED said
     \/ Report("failed") /\ UNCHANGED dev
  /\ UNCHANGED <<file, command, cfg, loopVars, addr, undone, ident, ranClean>>

(* SetupServer: ip addr replace.  When the 15 s of setupCtx end it may be    *)
(* killed after its effect; an error there is returned without a cleanup.    *)
SetAddr ==
  /\ pc = "addr" /\ file.goos = "linux"
  /\ \/ addr' = TRUE /\ pc' = "link"
     \/ addr' \in BOOLEAN /\ pc' = "abort"
  /\ UNCHANGED <<file, command, cfg, loopVars, dev, undone, ident, ranClean, said>>

(* SetupServer of the other platforms: server mode is for Linux only. *)
SetupServerUnsupported ==
  /\ pc = "addr" /\ file.goos # "linux"
  /\ pc' = "abort"
  /\ UNCHANGED <<file, command, cfg, loopVars, hostVars, ident, ranClean, said>>

(* ip link set, then the check of net.ipv4.ip_forward. *)
SetLink ==
  /\ pc = "link"
  /\ pc' \in {"new", "delete"}
  /\ UNCHANGED <<file, command, cfg, loopVars, hostVars, ident, ranClean, said>>

(* ip addr del, whose failure is ignored; the address is gone with its TUN. *)
DeleteAddr ==
  \/ addr' = FALSE /\ UNCHANGED undone
  \/ undone' = (undone /\ ~addr) /\ UNCHANGED addr

SetupServerFails ==
  /\ pc = "delete"
  /\ DeleteAddr
  /\ pc' = "abort"
  /\ UNCHANGED <<file, command, cfg, loopVars, dev, ident, ranClean, said>>

AbortSetup_LeavesDevice ==
  /\ pc = "abort"
  /\ Report("failed")
  /\ UNCHANGED <<file, command, cfg, loopVars, hostVars, ident, ranClean>>

(* runServer closes the device and returns the error of SetupServer. *)
AbortSetup ==
  /\ pc = "abort"
  /\ dev' = "closed" /\ addr' = FALSE
  /\ Report("failed")
  /\ UNCHANGED <<file, command, cfg, loopVars, undone, ident, ranClean>>

(* server.New validates again what LoadServer has accepted, and fills ident: *)
(* a digest that occurs twice would keep its last client.                    *)
NewServer ==
  /\ pc = "new"
  /\ ident' = [d \in Digests |->
       LET clients == {k \in 1..Len(cfg.clients) : d \in ParseHash(cfg.clients[k].hash)}
       IN  IF clients = {} THEN Unset
           ELSE cfg.clients[CHOOSE k \in clients : \A l \in clients : l <= k].address]
  /\ pc' = "serving"
  /\ UNCHANGED <<file, command, cfg, loopVars, hostVars, ranClean, said>>

(* Run returns.  It has closed the device unless the pump's cancelled        *)
(* context was the first thing it saw (module Server, RunCanceled).          *)
RunReturns ==
  /\ pc = "serving"
  /\ \/ dev' = "closed" /\ addr' = FALSE /\ UNCHANGED ranClean
     \/ ranClean' = FALSE /\ UNCHANGED <<dev, addr>>
  /\ pc' = "cleanup"
  /\ UNCHANGED <<file, command, cfg, loopVars, undone, ident, said>>

(* The deferred cleanup. *)
ServerCleanup ==
  /\ pc = "cleanup"
  /\ DeleteAddr
  /\ Report("ran")
  /\ UNCHANGED <<file, command, cfg, loopVars, dev, ident, ranClean>>

(* External: the process has ended and the next command may be given. *)
Exit ==
  /\ pc = "returned"
  /\ pc' = "idle"
  /\ UNCHANGED <<file, command, cfg, loopVars, hostVars, ident, ranClean, said>>

Next ==
  \/ \E c \in {"validate", "server", "client"} : Begin(c)
  \/ LoadFail \/ LoadServer \/ ValidateClient \/ Validated \/ LoadClient
  \/ NewLogger \/ ClientReturns
  \/ OpenDevice \/ SetAddr \/ SetupServerUnsupported \/ SetLink \/ SetupServerFails \/ AbortSetup
  \/ NewServer \/ RunReturns \/ ServerCleanup \/ Exit

Spec == Init /\ [][Next]_vars
-----------------------------------------------------------------------------
(* authenticate: the address the bearer of a token is given. *)
authenticate(token) == ident[token]

(* Every token opens its own client's tunnel and no other: while the server  *)
(* serves, the token of each configured client is mapped to that client's    *)
(* address, and no two clients share one.  It takes Validate's comparison of *)
(* digests, not of their spelling, and of parsed addresses, because New      *)
(* would silently let a later client overwrite an earlier one                *)
(* (config.go:232-236, server.go:46-53).                                     *)
TokensSeparate ==
  pc = "serving" =>
    \A k, l \in 1..Len(cfg.clients) :
      /\ authenticate(cfg.clients[k].hash.digest) = cfg.clients[k].address
      /\ k # l => cfg.clients[k].address # cfg.clients[l].address

(* The addresses of a network that hosts may have: strictly between the      *)
(* first and the last.                                                       *)
Usable(p) == (p.base + 1)..(p.base + 2^(32 - p.bits) - 2)

Injective(f) == \A k, l \in DOMAIN f : f[k] = f[l] => k = l

(* The configurations the program should accept, said of the file itself:    *)
(* what is left out counts as its default.  Windows has no modes to limit    *)
(* (config.go:100).                                                          *)
LegalServer(c) ==
  LET net == IF c.network.base = Unset THEN DefaultNetwork ELSE c.network
      gw  == IF c.gateway = Unset THEN DefaultGateway ELSE c.gateway
      n   == Len(c.clients)
  IN  /\ "bad" \notin {c.listen, c.metrics, c.path, c.interface}
      /\ net.base # Bad /\ IsPrivate(net.base)
      /\ 16 <= net.bits /\ net.bits <= 30 /\ net.base % 2^(32 - net.bits) = 0
      /\ gw \in net.base..(net.base + 2^(32 - net.bits) - 1)
      /\ c.mtu = 0 \/ (576 <= c.mtu /\ c.mtu <= 1500)
      /\ 0 <= c.max /\ c.max <= 65535
      /\ c.handshake = 0 \/ c.handshake >= 1000
      /\ c.idle = 0 \/ c.idle >= 10000
      /\ n > 0
      /\ \A k \in 1..n : c.clients[k].name # "" /\ c.clients[k].hash.case # "bad"
      /\ \A k \in 1..n : c.clients[k].address \in Usable(net) \ {gw}
      /\ Injective([k \in 1..n |-> c.clients[k].name])
      /\ Injective([k \in 1..n |-> c.clients[k].address])
      /\ Injective([k \in 1..n |-> c.clients[k].hash.digest])

LegalClient(c) ==
  /\ c.url = "good" /\ c.token = "good" /\ c.interface # "bad" /\ c.dns # "bad"
  /\ c.mtu = 0 \/ (576 <= c.mtu /\ c.mtu <= 1500)
  /\ c.dial = 0 \/ c.dial >= 1000
  /\ c.keepalive = 0 \/ c.keepalive >= 5000
  /\ c.reconnect = 0 \/ c.reconnect >= 1000

Legal ==
  /\ file.exists /\ file.decodes /\ file.documents = 1
  /\ \/ file.goos = "windows"
     \/ file.perm \subseteq IF file.kind = "server" THEN ServerPerm ELSE ClientPerm
  /\ IF file.kind = "server" THEN LegalServer(file.cfg) ELSE LegalClient(file.cfg)

(* On every platform, veilink validate calls a file valid exactly when it is *)
(* one by the rules above: the loop over the clients with its three maps     *)
(* accepts the topologies in which names, addresses and digests are pairwise *)
(* different and the addresses are usable, and every default passes the      *)
(* validation that follows it (config.go:75-119,121-188,190-269).  The       *)
(* command a legal file is for accepts it too, unless it is the logger that  *)
(* refuses it, whose settings validate does not look at                      *)
(* (main.go:74-77,117-120).                                                  *)
ValidationIsExact ==
  /\ <<"validate", "valid">> \in said => Legal
  /\ <<"validate", "invalid">> \in said => ~Legal
  /\ <<file.kind, "invalid">> \in said => ~Legal \/ file.cfg.log = "bad"

(* On every path out of runServer the device is closed and its address gone, *)
(* except when Run did not close the device (main.go:87-100).                *)
StartupReleases ==
  pc = "returned" /\ command = "server" =>
    /\ dev # "open" \/ ~ranClean
    /\ addr => ~ranClean /\ ~undone
=============================================================================
