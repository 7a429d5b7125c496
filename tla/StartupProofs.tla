---------------------------- MODULE StartupProofs ---------------------------
(***************************************************************************)
(* Proofs about Startup, for any set of configuration files: what          *)
(* runServer takes it releases on every path, the loop of Server.Validate  *)
(* accepts exactly the topologies whose clients are sound and pairwise     *)
(* different, so that server.New gives every token its own address, and    *)
(* validate says of a file what it is.                                     *)
(***************************************************************************)
EXTENDS Startup, SequenceTheorems, TLAPS

(* What runServer holds at each of its stages. *)
HeldInv ==
  /\ addr \in BOOLEAN /\ undone \in BOOLEAN /\ ranClean \in BOOLEAN
  /\ pc \in {"load", "clients", "log", "client", "open"} => dev # "open" /\ ~addr
  /\ pc \notin {"idle", "cleanup", "returned"} => ranClean
  /\ pc = "cleanup" => ~ranClean \/ (dev # "open" /\ ~addr)
  /\ StartupReleases

LEMMA HeldInit == Init => HeldInv
  BY DEF Init, HeldInv, StartupReleases

LEMMA HeldStep == HeldInv /\ [Next]_vars => HeldInv'
  <1> SUFFICES ASSUME HeldInv, [Next]_vars PROVE HeldInv'
    OBVIOUS
  <1> USE DEF HeldInv, StartupReleases, hostVars, loopVars
  <1>1. ASSUME NEW c \in {"validate", "server", "client"}, Begin(c) PROVE HeldInv'
    BY <1>1 DEF Begin
  <1>2. CASE LoadFail
    BY <1>2 DEF LoadFail, Report
  <1>3. CASE LoadServer
    BY <1>3 DEF LoadServer
  <1>4. CASE ValidateClient
    BY <1>4 DEF ValidateClient
  <1>5. CASE Validated
    BY <1>5 DEF Validated, Report
  <1>6. CASE LoadClient
    BY <1>6 DEF LoadClient, Report
  <1>7. CASE NewLogger
    BY <1>7 DEF NewLogger, Report
  <1>8. CASE ClientReturns
    BY <1>8 DEF ClientReturns, Report
  <1>9. CASE OpenDevice
    BY <1>9 DEF OpenDevice, Report
  <1>10. CASE SetAddr
    BY <1>10 DEF SetAddr
  <1>10a. CASE SetupServerUnsupported
    BY <1>10a DEF SetupServerUnsupported
  <1>11. CASE SetLink
    BY <1>11 DEF SetLink
  <1>12. CASE SetupServerFails
    BY <1>12 DEF SetupServerFails, DeleteAddr
  <1>13. CASE AbortSetup
    BY <1>13 DEF AbortSetup, Report
  <1>14. CASE NewServer
    BY <1>14 DEF NewServer
  <1>15. CASE RunReturns
    BY <1>15 DEF RunReturns
  <1>16. CASE ServerCleanup
    <2>1. pc = "cleanup" /\ pc' = "returned" /\ dev' = dev /\ ranClean' = ranClean
      BY <1>16 DEF ServerCleanup, Report
    <2>2. CASE addr' = FALSE /\ UNCHANGED undone
      BY <2>1, <2>2
    <2>3. CASE undone' = (undone /\ ~addr) /\ UNCHANGED addr
      <3>1. CASE addr
        BY <2>1, <2>3, <3>1
      <3>2. CASE ~addr
        BY <2>1, <2>3, <3>2
      <3> QED
        BY <3>1, <3>2
    <2> QED
      BY <1>16, <2>2, <2>3 DEF ServerCleanup, DeleteAddr
  <1>17. CASE Exit
    BY <1>17 DEF Exit
  <1>18. CASE UNCHANGED vars
    BY <1>18 DEF vars
  <1> QED
    BY <1>1, <1>2, <1>3, <1>4, <1>5, <1>6, <1>7, <1>8, <1>9, <1>10, <1>10a, <1>11, <1>12,
       <1>13, <1>14, <1>15, <1>16, <1>17, <1>18 DEF Next

(* Every path out of runServer has closed the device and removed the address *)
(* it took, except when Run did not close the device (main.go:87-100).       *)
THEOREM StartReleasesWhatItTook == Spec => []StartupReleases
  <1>1. HeldInv => StartupReleases
    BY DEF HeldInv
  <1> QED
    BY <1>1, HeldInit, HeldStep, PTL DEF Spec
-----------------------------------------------------------------------------
(* The loop of Server.Validate.  What it collects from the first n clients,  *)
(* and what it finds of them when it finds no error.                         *)

Names(c, n)     == {c.clients[k].name : k \in 1..n}
Addresses(c, n) == {c.clients[k].address : k \in 1..n}
Hashes(c, n)    == UNION {ParseHash(c.clients[k].hash) : k \in 1..n}

SoundClient(c, e) == e.name # "" /\ addressValid(c, e.address) /\ e.hash.case # "bad"

Different(d, e) == d.name # e.name /\ d.address # e.address /\ d.hash.digest # e.hash.digest

AllDifferent(c, n) == \A k, l \in 1..n : k # l => Different(c.clients[k], c.clients[l])

AllSound(c, n) == \A k \in 1..n : SoundClient(c, c.clients[k])

ErrorFree(c, n) == scalarsValid(c) /\ AllSound(c, n) /\ AllDifferent(c, n)

Accepted(c) == c.clients # <<>> /\ ErrorFree(c, Len(c.clients))

(* The next client is new to the three maps. *)
NewTo(c, n, e) ==
  e.name \notin Names(c, n) /\ e.address \notin Addresses(c, n) /\ ~(ParseHash(e.hash) \subseteq Hashes(c, n))

(* The maps of the first n clients tell whether the next one differs from    *)
(* all of them, once these have been found sound.                            *)
LEMMA MapsTell ==
  ASSUME NEW c, NEW n \in Nat, NEW e, AllSound(c, n), e.hash.case # "bad"
  PROVE  NewTo(c, n, e) <=> \A k \in 1..n : Different(c.clients[k], e)
  <1>1. ParseHash(e.hash) = {e.hash.digest}
    BY DEF ParseHash
  <1>2. \A k \in 1..n : ParseHash(c.clients[k].hash) = {c.clients[k].hash.digest}
    BY DEF ParseHash, AllSound, SoundClient
  <1>3. ParseHash(e.hash) \subseteq Hashes(c, n) <=> \E k \in 1..n : c.clients[k].hash.digest = e.hash.digest
    <2>1. e.hash.digest \in Hashes(c, n) <=> \E k \in 1..n : e.hash.digest \in ParseHash(c.clients[k].hash)
      BY Zenon DEF Hashes
    <2> QED
      BY <1>1, <1>2, <2>1
  <1> QED
    BY <1>3 DEF NewTo, Names, Addresses, Different

(* One iteration: it adds no error exactly when the client is sound and new. *)
LEMMA OneIteration ==
  ASSUME NEW c, NEW n \in Nat
  PROVE  LET e == c.clients[n + 1]
         IN  ErrorFree(c, n + 1) <=> ErrorFree(c, n) /\ SoundClient(c, e) /\ NewTo(c, n, e)
  <1> DEFINE e == c.clients[n + 1]
  <1>1. 1..(n + 1) = 1..n \cup {n + 1} /\ n + 1 \notin 1..n
    OBVIOUS
  <1>2. AllSound(c, n + 1) <=> AllSound(c, n) /\ SoundClient(c, e)
    BY <1>1 DEF AllSound
  <1>3. AllDifferent(c, n + 1) <=> AllDifferent(c, n) /\ \A k \in 1..n : Different(c.clients[k], e)
    <2> HIDE DEF e
    <2> SUFFICES ASSUME e = c.clients[n + 1]
                 PROVE  AllDifferent(c, n + 1) <=> AllDifferent(c, n) /\ \A k \in 1..n : Different(c.clients[k], e)
      BY DEF e
    <2>1. \A d, f : Different(d, f) <=> Different(f, d)
      BY DEF Different
    <2>2. ASSUME AllDifferent(c, n + 1)
          PROVE  AllDifferent(c, n) /\ \A k \in 1..n : Different(c.clients[k], e)
      BY <1>1, <2>2 DEF AllDifferent
    <2>3. ASSUME AllDifferent(c, n), \A k \in 1..n : Different(c.clients[k], e)
          PROVE  AllDifferent(c, n + 1)
      BY <1>1, <2>1, <2>3 DEF AllDifferent
    <2> QED
      BY <2>2, <2>3
  <1>4. AllSound(c, n) /\ SoundClient(c, e) =>
          (NewTo(c, n, e) <=> \A k \in 1..n : Different(c.clients[k], e))
    BY MapsTell DEF SoundClient
  <1> QED
    BY <1>2, <1>3, <1>4 DEF ErrorFree

(* What the maps become. *)
LEMMA MapsGrow ==
  ASSUME NEW c, NEW n \in Nat
  PROVE  LET e == c.clients[n + 1]
         IN  /\ Names(c, n + 1) = Names(c, n) \cup {e.name}
             /\ Addresses(c, n + 1) = Addresses(c, n) \cup {e.address}
             /\ Hashes(c, n + 1) = Hashes(c, n) \cup ParseHash(e.hash)
  <1>1. 1..(n + 1) = 1..n \cup {n + 1}
    OBVIOUS
  <1> QED
    BY <1>1 DEF Names, Addresses, Hashes

LEMMA NoneYet ==
  ASSUME NEW c
  PROVE  /\ Names(c, 0) = {} /\ Addresses(c, 0) = {} /\ Hashes(c, 0) = {}
         /\ ErrorFree(c, 0) <=> scalarsValid(c)
  <1>1. 1..0 = {}
    OBVIOUS
  <1> QED
    BY <1>1 DEF Names, Addresses, Hashes, ErrorFree, AllSound, AllDifferent
-----------------------------------------------------------------------------
(* server.New: among accepted clients a digest belongs to one client. *)
LEMMA OneClientPerDigest ==
  ASSUME NEW c, c.clients \in Seq(ClientEntry), ErrorFree(c, Len(c.clients)),
         NEW k \in 1..Len(c.clients)
  PROVE  /\ c.clients[k].hash.digest \in Digests
         /\ {l \in 1..Len(c.clients) : c.clients[k].hash.digest \in ParseHash(c.clients[l].hash)} = {k}
  <1>1. c.clients[k] \in ClientEntry
    BY ElementOfSeq
  <1>2. c.clients[k].hash.digest \in Digests
    BY <1>1 DEF ClientEntry, TokenHash
  <1>3. \A l \in 1..Len(c.clients) : ParseHash(c.clients[l].hash) = {c.clients[l].hash.digest}
    BY DEF ErrorFree, AllSound, SoundClient, ParseHash
  <1>4. \A l \in 1..Len(c.clients) : l # k => c.clients[l].hash.digest # c.clients[k].hash.digest
    BY DEF ErrorFree, AllDifferent, Different
  <1> QED
    BY <1>2, <1>3, <1>4

(* A file is one for the server or one for a client, and holds what its kind *)
(* has.                                                                      *)
LEMMA FileKinds ==
  ASSUME NEW f \in Files
  PROVE  \/ f.kind = "server" /\ f.cfg \in ServerConfig
         \/ f.kind = "client" /\ f.cfg \in ClientConfig
  BY StartupAssumption DEF FilesOf

LEMMA DefaultsKeepClients ==
  ASSUME NEW c \in ServerConfig
  PROVE  applyServerDefaults(c).clients = c.clients /\ c.clients \in Seq(ClientEntry)
  BY DEF applyServerDefaults, ServerConfig

(* What is known of file and configuration at each stage of a command. *)

LoadedServer == file.kind = "server" /\ loadStrict(file, ServerPerm) /\ cfg = applyServerDefaults(file.cfg)

LoadedClient == file.kind = "client" /\ loadStrict(file, ClientPerm) /\ cfg = applyClientDefaults(file.cfg)

LoopInv ==
  /\ i \in 0..Len(cfg.clients)
  /\ seenNames = Names(cfg, i) /\ seenIPs = Addresses(cfg, i) /\ seenHashes = Hashes(cfg, i)
  /\ errs \in BOOLEAN /\ (errs <=> ~ErrorFree(cfg, i))

ServerStages == {"open", "addr", "link", "delete", "abort", "new", "serving"}

LoadInv ==
  /\ file \in Files
  /\ pc # "idle" => command \in {"validate", file.kind}
  /\ pc = "load" => cfg = file.cfg /\ i = 0 /\ seenNames = {} /\ seenIPs = {} /\ seenHashes = {}
  /\ pc = "clients" => LoadedServer /\ LoopInv
  /\ pc \in {"log", "client"} \cup ServerStages =>
       /\ command = file.kind
       /\ (LoadedServer /\ Accepted(cfg)) \/ (LoadedClient /\ clientValid(cfg))
  /\ pc \in ServerStages => file.kind = "server"
  /\ TokensSeparate

LEMMA LoadInit == Init => LoadInv
  BY DEF Init, LoadInv, TokensSeparate, ServerStages

LEMMA LoadStep == LoadInv /\ [Next]_vars => LoadInv'
  <1> SUFFICES ASSUME LoadInv, [Next]_vars PROVE LoadInv'
    OBVIOUS
  <1>0. \/ file.kind = "server" /\ file.cfg \in ServerConfig
        \/ file.kind = "client" /\ file.cfg \in ClientConfig
    BY FileKinds DEF LoadInv
  <1> USE DEF LoadInv, TokensSeparate, LoadedServer, LoadedClient, ServerStages, hostVars, loopVars
  <1>1. ASSUME NEW c \in {"validate", "server", "client"}, Begin(c) PROVE LoadInv'
    BY <1>1 DEF Begin
  <1>2. CASE LoadFail
    BY <1>2 DEF LoadFail, Report
  <1>3. CASE LoadServer
    <2>1. pc = "load" /\ pc' = "clients" /\ cfg' = applyServerDefaults(file.cfg) /\ i' = 0
      BY <1>3 DEF LoadServer
    <2>2. LoopInv'
      <3>1. i' \in 0..Len(cfg'.clients)
        BY <1>0, <1>3, <2>1, DefaultsKeepClients, LenProperties DEF LoadServer
      <3>2. seenNames' = Names(cfg', 0) /\ seenIPs' = Addresses(cfg', 0) /\ seenHashes' = Hashes(cfg', 0)
        BY <1>3, NoneYet DEF LoadServer
      <3>3. errs' \in BOOLEAN /\ (errs' <=> ~ErrorFree(cfg', 0))
        BY <1>3, NoneYet DEF LoadServer
      <3> QED
        BY <2>1, <3>1, <3>2, <3>3 DEF LoopInv
    <2> QED
      BY <1>3, <2>1, <2>2 DEF LoadServer
  <1>4. CASE ValidateClient
    <2> DEFINE e == cfg.clients[i + 1]
    <2>1. i < Len(cfg.clients) /\ i' = i + 1 /\ cfg' = cfg /\ pc = "clients" /\ pc' = pc /\ LoopInv
      BY <1>4 DEF ValidateClient
    <2>2. i \in Nat /\ Len(cfg.clients) \in Nat /\ i' \in 0..Len(cfg.clients)
      <3>1. Len(cfg.clients) \in Nat
        BY <1>0, <2>1, DefaultsKeepClients, LenProperties
      <3> QED
        BY <2>1, <3>1 DEF LoopInv
    <2>3. seenNames' = Names(cfg, i + 1) /\ seenIPs' = Addresses(cfg, i + 1) /\ seenHashes' = Hashes(cfg, i + 1)
      BY <1>4, <2>1, <2>2, MapsGrow DEF ValidateClient, LoopInv
    <2>4. seen(e) <=> ~NewTo(cfg, i, e)
      BY <2>1 DEF seen, NewTo, LoopInv
    <2>5. errs' <=> errs \/ seen(e) \/ ~SoundClient(cfg, e)
      BY <1>4 DEF ValidateClient, SoundClient, ParseHash
    <2>6. ErrorFree(cfg, i + 1) <=> ErrorFree(cfg, i) /\ SoundClient(cfg, e) /\ NewTo(cfg, i, e)
      BY <2>2, OneIteration
    <2>7. errs' \in BOOLEAN
      BY <1>4 DEF ValidateClient
    <2>8. LoopInv'
      BY <2>1, <2>2, <2>3, <2>4, <2>5, <2>6, <2>7 DEF LoopInv
    <2> QED
      BY <1>4, <2>1, <2>8 DEF ValidateClient
  <1>5. CASE Validated
    BY <1>5 DEF Validated, Report, LoopInv, serverRejected, Accepted
  <1>6. CASE LoadClient
    BY <1>6 DEF LoadClient, Report
  <1>7. CASE NewLogger
    BY <1>0, <1>7 DEF NewLogger, Report
  <1>8. CASE ClientReturns
    BY <1>8 DEF ClientReturns, Report
  <1>9. CASE OpenDevice
    BY <1>9 DEF OpenDevice, Report
  <1>10. CASE SetAddr
    BY <1>10 DEF SetAddr
  <1>10a. CASE SetupServerUnsupported
    BY <1>10a DEF SetupServerUnsupported
  <1>11. CASE SetLink
    BY <1>11 DEF SetLink
  <1>12. CASE SetupServerFails
    BY <1>12 DEF SetupServerFails
  <1>13. CASE AbortSetup
    BY <1>13 DEF AbortSetup, Report
  <1>14. CASE NewServer
    <2>1. pc = "new" /\ pc' = "serving" /\ cfg' = cfg /\ LoadedServer /\ Accepted(cfg)
      BY <1>14 DEF NewServer
    <2>2. cfg.clients \in Seq(ClientEntry) /\ ErrorFree(cfg, Len(cfg.clients))
      BY <1>0, <2>1, DefaultsKeepClients DEF Accepted
    <2>3. ASSUME NEW k \in 1..Len(cfg.clients)
          PROVE  ident'[cfg.clients[k].hash.digest] = cfg.clients[k].address
      <3> DEFINE d == cfg.clients[k].hash.digest
                 holders == {l \in 1..Len(cfg.clients) : d \in ParseHash(cfg.clients[l].hash)}
      <3>1. d \in Digests /\ holders = {k}
        BY <2>2, OneClientPerDigest
      <3>2. ident'[d] = IF holders = {} THEN Unset
                        ELSE cfg.clients[CHOOSE m \in holders : \A l \in holders : l <= m].address
        BY <1>14, <3>1 DEF NewServer
      <3>3. (CHOOSE m \in holders : \A l \in holders : l <= m) = k
        BY <3>1
      <3>4. holders # {}
        BY <3>1
      <3> HIDE DEF holders
      <3> QED
        BY <3>2, <3>3, <3>4
    <2>4. \A k, l \in 1..Len(cfg.clients) : k # l => cfg.clients[k].address # cfg.clients[l].address
      BY <2>2 DEF ErrorFree, AllDifferent, Different
    <2>5. TokensSeparate'
      BY <2>1, <2>3, <2>4 DEF authenticate
    <2> QED
      BY <1>14, <2>1, <2>5 DEF NewServer
  <1>15. CASE RunReturns
    BY <1>15 DEF RunReturns
  <1>16. CASE ServerCleanup
    BY <1>16 DEF ServerCleanup, Report
  <1>17. CASE Exit
    BY <1>17 DEF Exit
  <1>18. CASE UNCHANGED vars
    BY <1>18 DEF vars, LoopInv, authenticate
  <1> QED
    BY <1>1, <1>2, <1>3, <1>4, <1>5, <1>6, <1>7, <1>8, <1>9, <1>10, <1>10a, <1>11, <1>12,
       <1>13, <1>14, <1>15, <1>16, <1>17, <1>18 DEF Next

(* While the server serves, the token of every configured client leads to    *)
(* that client's address, and no two clients have the same: the loop of      *)
(* Validate lets no two clients through for which New would overwrite an     *)
(* entry (config.go:221-237, server.go:46-53).                               *)
THEOREM TokensLeadToTheirOwn == Spec => []TokensSeparate
  <1>1. LoadInv => TokensSeparate
    BY DEF LoadInv
  <1> QED
    BY <1>1, LoadInit, LoadStep, PTL DEF Spec
-----------------------------------------------------------------------------
(* netip's arithmetic on the prefixes that Validate admits. *)

LEMMA PrivateIsNat == \A a \in Int : IsPrivate(a) => a >= 0
  BY DEF IsPrivate

(* The addresses with a given masked value are the block that begins there. *)
LEMMA Block ==
  ASSUME NEW b \in 16..30
  PROVE  /\ 2^(32 - b) \in Nat /\ 2^(32 - b) >= 4
         /\ \A base \in Nat, a \in Int :
              base % 2^(32 - b) = 0 =>
                (a - (a % 2^(32 - b)) = base <=> base <= a /\ a <= base + 2^(32 - b) - 1)
  <1>16. CASE b = 16
    <2>1. 2^(32 - b) = 65536
      BY <1>16
    <2> QED
      BY <2>1
  <1>17. CASE b = 17
    <2>1. 2^(32 - b) = 32768
      BY <1>17
    <2> QED
      BY <2>1
  <1>18. CASE b = 18
    <2>1. 2^(32 - b) = 16384
      BY <1>18
    <2> QED
      BY <2>1
  <1>19. CASE b = 19
    <2>1. 2^(32 - b) = 8192
      BY <1>19
    <2> QED
      BY <2>1
  <1>20. CASE b = 20
    <2>1. 2^(32 - b) = 4096
      BY <1>20
    <2> QED
      BY <2>1
  <1>21. CASE b = 21
    <2>1. 2^(32 - b) = 2048
      BY <1>21
    <2> QED
      BY <2>1
  <1>22. CASE b = 22
    <2>1. 2^(32 - b) = 1024
      BY <1>22
    <2> QED
      BY <2>1
  <1>23. CASE b = 23
    <2>1. 2^(32 - b) = 512
      BY <1>23
    <2> QED
      BY <2>1
  <1>24. CASE b = 24
    <2>1. 2^(32 - b) = 256
      BY <1>24
    <2> QED
      BY <2>1
  <1>25. CASE b = 25
    <2>1. 2^(32 - b) = 128
      BY <1>25
    <2> QED
      BY <2>1
  <1>26. CASE b = 26
    <2>1. 2^(32 - b) = 64
      BY <1>26
    <2> QED
      BY <2>1
  <1>27. CASE b = 27
    <2>1. 2^(32 - b) = 32
      BY <1>27
    <2> QED
      BY <2>1
  <1>28. CASE b = 28
    <2>1. 2^(32 - b) = 16
      BY <1>28
    <2> QED
      BY <2>1
  <1>29. CASE b = 29
    <2>1. 2^(32 - b) = 8
      BY <1>29
    <2> QED
      BY <2>1
  <1>30. CASE b = 30
    <2>1. 2^(32 - b) = 4
      BY <1>30
    <2> QED
      BY <2>1
  <1> QED
    BY <1>16, <1>17, <1>18, <1>19, <1>20, <1>21, <1>22, <1>23,
       <1>24, <1>25, <1>26, <1>27, <1>28, <1>29, <1>30

(* prefix.Contains and isNetworkOrBroadcast as conditions on numbers. *)
LEMMA AdmittedPrefix ==
  ASSUME NEW p, p.base \in Nat, p.bits \in 16..30, p.base % 2^(32 - p.bits) = 0, NEW a \in Int
  PROVE  /\ Masked(p) = p.base
         /\ Contains(p, a) <=> a \in p.base..(p.base + 2^(32 - p.bits) - 1)
         /\ Contains(p, a) /\ ~isNetworkOrBroadcast(p, a) <=> a \in Usable(p)
  <1> DEFINE m == 2^(32 - p.bits)
  <1>1. m \in Nat /\ m >= 4
    BY Block
  <1>2. a - (a % m) = p.base <=> p.base <= a /\ a <= p.base + m - 1
    BY Block
  <1>3. Masked(p) = p.base
    BY DEF Masked, HostBits
  <1>4. isNetworkOrBroadcast(p, a) <=> a = p.base \/ a = p.base + (m - 1)
    BY <1>3 DEF isNetworkOrBroadcast, HostBits
  <1>5. Contains(p, a) <=> a - (a % m) = p.base
    BY <1>3 DEF Contains, HostBits
  <1>6. Usable(p) = (p.base + 1)..(p.base + m - 2)
    BY DEF Usable
  <1> HIDE DEF m
  <1>7. Contains(p, a) <=> a \in p.base..(p.base + m - 1)
    BY <1>1, <1>2, <1>5
  <1>8. Contains(p, a) /\ ~isNetworkOrBroadcast(p, a) <=> a \in Usable(p)
    BY <1>1, <1>2, <1>4, <1>5, <1>6
  <1> QED
    BY <1>3, <1>7, <1>8 DEF m

(* networkValid in the words of LegalServer. *)
LEMMA NetworkExact ==
  ASSUME NEW p, p.base \in Int, p.bits \in 0..32
  PROVE  networkValid(p) <=>
           /\ p.base # Bad /\ IsPrivate(p.base)
           /\ 16 <= p.bits /\ p.bits <= 30 /\ p.base % 2^(32 - p.bits) = 0
  <1>1. IsPrivate(p.base) => p.base >= 0 /\ p.base # Bad
    BY PrivateIsNat DEF Bad
  <1>2. ASSUME p.bits \in 16..30, p.base >= 0
        PROVE  p.base = Masked(p) <=> p.base % 2^(32 - p.bits) = 0
    <2> DEFINE m == 2^(32 - p.bits)
    <2>1. m \in Nat /\ m >= 4
      BY <1>2, Block
    <2>2. Masked(p) = p.base - (p.base % m)
      BY DEF Masked, HostBits
    <2> HIDE DEF m
    <2>3. p.base % m \in Int
      BY <2>1, <1>2
    <2>4. p.base = Masked(p) <=> p.base % m = 0
      BY <2>2, <2>3
    <2> QED
      BY <2>4 DEF m
  <1> QED
    BY <1>1, <1>2 DEF networkValid, Parsed
-----------------------------------------------------------------------------
(* Defaults and validation together accept what LegalServer and LegalClient  *)
(* describe.                                                                 *)

LEMMA ServerDefaults ==
  ASSUME NEW c \in ServerConfig, NEW d, d = applyServerDefaults(c)
  PROVE  /\ d.listen = Default(c.listen, "unset", "good") /\ d.metrics = Default(c.metrics, "unset", "good")
         /\ d.path = Default(c.path, "unset", "good") /\ d.interface = Default(c.interface, "unset", "good")
         /\ d.network = IF c.network.base = Unset THEN DefaultNetwork ELSE c.network
         /\ d.gateway = Default(c.gateway, Unset, DefaultGateway)
         /\ d.mtu = Default(c.mtu, 0, 1280) /\ d.max = Default(c.max, 0, 256)
         /\ d.handshake = Default(c.handshake, 0, 10000) /\ d.idle = Default(c.idle, 0, 90000)
         /\ d.log = Default(c.log, "unset", "good") /\ d.clients = c.clients
  BY DEF ServerConfig, applyServerDefaults

LEMMA ClientDefaults ==
  ASSUME NEW c \in ClientConfig, NEW d, d = applyClientDefaults(c)
  PROVE  /\ d.interface = Default(c.interface, "unset", "good") /\ d.mtu = Default(c.mtu, 0, 1280)
         /\ d.dial = Default(c.dial, 0, 15000) /\ d.keepalive = Default(c.keepalive, 0, 25000)
         /\ d.reconnect = Default(c.reconnect, 0, 3000) /\ d.log = Default(c.log, "unset", "good")
         /\ d.url = c.url /\ d.token = c.token /\ d.dns = c.dns
  BY DEF ClientConfig, applyClientDefaults

(* What LegalServer asks of everything but the clients. *)
LegalScalars(c, net, gw) ==
  /\ "bad" \notin {c.listen, c.metrics, c.path, c.interface}
  /\ net.base # Bad /\ IsPrivate(net.base)
  /\ 16 <= net.bits /\ net.bits <= 30 /\ net.base % 2^(32 - net.bits) = 0
  /\ gw \in net.base..(net.base + 2^(32 - net.bits) - 1)
  /\ c.mtu = 0 \/ (576 <= c.mtu /\ c.mtu <= 1500)
  /\ 0 <= c.max /\ c.max <= 65535
  /\ c.handshake = 0 \/ c.handshake >= 1000
  /\ c.idle = 0 \/ c.idle >= 10000

(* What it asks of the clients. *)
LegalClients(s, net, gw) ==
  /\ Len(s) > 0
  /\ \A k \in 1..Len(s) : s[k].name # "" /\ s[k].hash.case # "bad"
  /\ \A k \in 1..Len(s) : s[k].address \in Usable(net) \ {gw}
  /\ Injective([k \in 1..Len(s) |-> s[k].name])
  /\ Injective([k \in 1..Len(s) |-> s[k].address])
  /\ Injective([k \in 1..Len(s) |-> s[k].hash.digest])

LEMMA ScalarsExact ==
  ASSUME NEW c \in ServerConfig, NEW d, d = applyServerDefaults(c)
  PROVE  /\ d.network.base \in Int /\ d.network.bits \in 0..32 /\ d.gateway \in Int
         /\ scalarsValid(d) <=> LegalScalars(c, d.network, d.gateway)
  <1>1. d.network.base \in Int /\ d.network.bits \in 0..32 /\ d.gateway \in Int
    <2>1. c.network \in Prefix /\ c.gateway \in Int
      BY DEF ServerConfig
    <2>2. DefaultNetwork \in Prefix /\ DefaultGateway \in Int
      BY DEF Prefix, DefaultNetwork, DefaultGateway, IP
    <2>3. d.network \in {DefaultNetwork, c.network} /\ d.gateway \in {DefaultGateway, c.gateway}
      BY ServerDefaults DEF Default
    <2>4. d.network \in Prefix /\ d.gateway \in Int
      BY <2>1, <2>2, <2>3
    <2> QED
      BY <2>4 DEF Prefix
  <1>2. {d.listen, d.metrics, d.path, d.interface} = {"good"} <=>
          "bad" \notin {c.listen, c.metrics, c.path, c.interface}
    <2>1. c.listen \in Text /\ c.metrics \in Text /\ c.path \in Text /\ c.interface \in Text
      BY DEF ServerConfig
    <2> QED
      BY <2>1, ServerDefaults DEF Text, Default
  <1>3. networkValid(d.network) <=>
          /\ d.network.base # Bad /\ IsPrivate(d.network.base)
          /\ 16 <= d.network.bits /\ d.network.bits <= 30
          /\ d.network.base % 2^(32 - d.network.bits) = 0
    BY <1>1, NetworkExact
  <1>4. ASSUME networkValid(d.network)
        PROVE  gatewayValid(d) <=>
                 d.gateway \in d.network.base..(d.network.base + 2^(32 - d.network.bits) - 1)
    <2>1. d.network.base \in Nat /\ d.network.bits \in 16..30 /\ Parsed(d.network)
      BY <1>1, <1>4 DEF networkValid, Parsed
    <2>2. Contains(d.network, d.gateway) <=>
            d.gateway \in d.network.base..(d.network.base + 2^(32 - d.network.bits) - 1)
      BY <1>1, <1>3, <1>4, <2>1, AdmittedPrefix
    <2>3. gatewayValid(d) <=> d.gateway >= 0 /\ Contains(d.network, d.gateway)
      BY <2>1 DEF gatewayValid
    <2>4. 2^(32 - d.network.bits) \in Nat
      BY <2>1, Block
    <2> QED
      BY <1>1, <2>1, <2>2, <2>3, <2>4
  <1>5. mtuValid(d.mtu) <=> c.mtu = 0 \/ (576 <= c.mtu /\ c.mtu <= 1500)
    <2>1. c.mtu \in Int /\ d.mtu = IF c.mtu = 0 THEN 1280 ELSE c.mtu
      BY ServerDefaults DEF ServerConfig, Default
    <2> QED
      BY <2>1 DEF mtuValid
  <1>6. 1 <= d.max /\ d.max <= 65535 <=> 0 <= c.max /\ c.max <= 65535
    <2>1. c.max \in Int /\ d.max = IF c.max = 0 THEN 256 ELSE c.max
      BY ServerDefaults DEF ServerConfig, Default
    <2> QED
      BY <2>1
  <1>7. /\ d.handshake >= 1000 <=> c.handshake = 0 \/ c.handshake >= 1000
        /\ d.idle >= 10000 <=> c.idle = 0 \/ c.idle >= 10000
    <2>1. /\ c.handshake \in Int /\ d.handshake = IF c.handshake = 0 THEN 10000 ELSE c.handshake
          /\ c.idle \in Int /\ d.idle = IF c.idle = 0 THEN 90000 ELSE c.idle
      BY ServerDefaults DEF ServerConfig, Default
    <2> QED
      BY <2>1
  <1> QED
    <2>1. ASSUME scalarsValid(d) PROVE LegalScalars(c, d.network, d.gateway)
      BY <1>2, <1>3, <1>4, <1>5, <1>6, <1>7, <2>1 DEF scalarsValid, LegalScalars
    <2>2. ASSUME LegalScalars(c, d.network, d.gateway) PROVE scalarsValid(d)
      BY <1>2, <1>3, <1>4, <1>5, <1>6, <1>7, <2>2 DEF scalarsValid, LegalScalars
    <2> QED
      BY <1>1, <2>1, <2>2

LEMMA ClientsExact ==
  ASSUME NEW d, d.clients \in Seq(ClientEntry), scalarsValid(d),
         d.network.base \in Int, d.network.bits \in 0..32, d.gateway \in Int
  PROVE  Accepted(d) <=> LegalClients(d.clients, d.network, d.gateway)
  <1> DEFINE n == Len(d.clients)
             s == d.clients
  <1>1. n \in Nat /\ (s # <<>> <=> n > 0)
    BY LenProperties, EmptySeq
  <1>2. \A k \in 1..n : addressValid(d, s[k].address) <=> s[k].address \in Usable(d.network) \ {d.gateway}
    <2> SUFFICES ASSUME NEW k \in 1..n
                 PROVE  addressValid(d, s[k].address) <=> s[k].address \in Usable(d.network) \ {d.gateway}
      OBVIOUS
    <2>0. s[k] \in ClientEntry
      BY ElementOfSeq
    <2>1. PICK a \in Int : a = s[k].address
      BY <2>0 DEF ClientEntry
    <2>2. /\ d.network.base \in Nat /\ d.network.bits \in 16..30 /\ Parsed(d.network)
          /\ d.network.base % 2^(32 - d.network.bits) = 0
      <3>1. networkValid(d.network)
        BY DEF scalarsValid
      <3>2. d.network.base % 2^(32 - d.network.bits) = 0
        BY <3>1, NetworkExact
      <3> QED
        BY <3>1, <3>2 DEF networkValid, Parsed
    <2>3. Contains(d.network, a) /\ ~isNetworkOrBroadcast(d.network, a) <=> a \in Usable(d.network)
      BY <2>2, AdmittedPrefix
    <2>4. a \in Usable(d.network) => a >= 0
      <3>1. 2^(32 - d.network.bits) \in Nat
        BY <2>2, Block
      <3> QED
        BY <2>2, <3>1 DEF Usable
    <2> QED
      BY <2>1, <2>2, <2>3, <2>4 DEF addressValid
  <1>3. AllSound(d, n) <=>
          /\ \A k \in 1..n : s[k].name # "" /\ s[k].hash.case # "bad"
          /\ \A k \in 1..n : s[k].address \in Usable(d.network) \ {d.gateway}
    BY <1>2 DEF AllSound, SoundClient
  <1>4. AllDifferent(d, n) <=>
          /\ Injective([k \in 1..n |-> s[k].name])
          /\ Injective([k \in 1..n |-> s[k].address])
          /\ Injective([k \in 1..n |-> s[k].hash.digest])
    BY DEF AllDifferent, Different, Injective
  <1> QED
    BY <1>1, <1>3, <1>4 DEF Accepted, ErrorFree, LegalClients

LEMMA ServerExact ==
  ASSUME NEW c \in ServerConfig
  PROVE  LegalServer(c) <=> Accepted(applyServerDefaults(c))
  <1>1. PICK d : d = applyServerDefaults(c)
    OBVIOUS
  <1>2. /\ d.clients = c.clients /\ c.clients \in Seq(ClientEntry)
        /\ d.network = IF c.network.base = Unset THEN DefaultNetwork ELSE c.network
        /\ d.gateway = IF c.gateway = Unset THEN DefaultGateway ELSE c.gateway
    BY <1>1, ServerDefaults DEF Default, ServerConfig
  <1>3. LegalServer(c) <=> LegalScalars(c, d.network, d.gateway) /\ LegalClients(c.clients, d.network, d.gateway)
    <2> DEFINE net == IF c.network.base = Unset THEN DefaultNetwork ELSE c.network
               gw  == IF c.gateway = Unset THEN DefaultGateway ELSE c.gateway
    <2>1. LegalServer(c) <=> LegalScalars(c, net, gw) /\ LegalClients(c.clients, net, gw)
      BY DEF LegalServer, LegalScalars, LegalClients
    <2> QED
      BY <1>2, <2>1
  <1>4. /\ d.network.base \in Int /\ d.network.bits \in 0..32 /\ d.gateway \in Int
        /\ scalarsValid(d) <=> LegalScalars(c, d.network, d.gateway)
    BY <1>1, ScalarsExact
  <1>5. scalarsValid(d) => (Accepted(d) <=> LegalClients(c.clients, d.network, d.gateway))
    BY <1>2, <1>4, ClientsExact
  <1>6. Accepted(d) => scalarsValid(d)
    BY DEF Accepted, ErrorFree
  <1> QED
    BY <1>1, <1>3, <1>4, <1>5, <1>6

LEMMA ClientExact ==
  ASSUME NEW c \in ClientConfig
  PROVE  LegalClient(c) <=> clientValid(applyClientDefaults(c))
  <1>1. PICK d : d = applyClientDefaults(c)
    OBVIOUS
  <1>2. {d.url, d.token, d.interface} = {"good"} /\ d.dns # "bad" <=>
          c.url = "good" /\ c.token = "good" /\ c.interface # "bad" /\ c.dns # "bad"
    <2>1. c.interface \in Text
      BY DEF ClientConfig
    <2>2. /\ d.url = c.url /\ d.token = c.token /\ d.dns = c.dns
          /\ d.interface = IF c.interface = "unset" THEN "good" ELSE c.interface
      BY <1>1, ClientDefaults DEF Default
    <2>3. d.interface = "good" <=> c.interface # "bad"
      BY <2>1, <2>2 DEF Text
    <2> QED
      BY <2>2, <2>3
  <1>3. /\ mtuValid(d.mtu) <=> c.mtu = 0 \/ (576 <= c.mtu /\ c.mtu <= 1500)
        /\ d.dial >= 1000 <=> c.dial = 0 \/ c.dial >= 1000
        /\ d.keepalive >= 5000 <=> c.keepalive = 0 \/ c.keepalive >= 5000
        /\ d.reconnect >= 1000 <=> c.reconnect = 0 \/ c.reconnect >= 1000
    <2>1. /\ c.mtu \in Int /\ d.mtu = IF c.mtu = 0 THEN 1280 ELSE c.mtu
          /\ c.dial \in Int /\ d.dial = IF c.dial = 0 THEN 15000 ELSE c.dial
          /\ c.keepalive \in Int /\ d.keepalive = IF c.keepalive = 0 THEN 25000 ELSE c.keepalive
          /\ c.reconnect \in Int /\ d.reconnect = IF c.reconnect = 0 THEN 3000 ELSE c.reconnect
      BY <1>1, ClientDefaults DEF ClientConfig, Default
    <2> QED
      BY <2>1 DEF mtuValid
  <1> QED
    <2>1. ASSUME LegalClient(c) PROVE clientValid(d)
      BY <1>2, <1>3, <2>1 DEF LegalClient, clientValid
    <2>2. ASSUME clientValid(d) PROVE LegalClient(c)
      BY <1>2, <1>3, <2>2 DEF LegalClient, clientValid
    <2> QED
      BY <1>1, <2>1, <2>2
-----------------------------------------------------------------------------
(* What a command says of the file. *)

LEMMA LegalIsAccepted ==
  ASSUME file \in Files
  PROVE  /\ file.kind = "server" =>
              (Legal <=> loadStrict(file, ServerPerm) /\ Accepted(applyServerDefaults(file.cfg)))
         /\ file.kind = "client" =>
              (Legal <=> loadStrict(file, ClientPerm) /\ clientValid(applyClientDefaults(file.cfg)))
  <1>1. \/ file.kind = "server" /\ file.cfg \in ServerConfig
        \/ file.kind = "client" /\ file.cfg \in ClientConfig
    BY FileKinds
  <1>2. CASE file.kind = "server"
    BY <1>1, <1>2, ServerExact DEF Legal, loadStrict
  <1>3. CASE file.kind = "client"
    BY <1>1, <1>3, ClientExact DEF Legal, loadStrict
  <1> QED
    BY <1>1, <1>2, <1>3

(* The steps that say nothing of the file's validity. *)
LEMMA SaysNothing ==
  ASSUME ValidationIsExact, file' = file, file.kind \in {"server", "client"},
         \/ said' = said
         \/ \E what \in {"ran", "failed"} : said' = said \cup {<<command, what>>}
  PROVE  ValidationIsExact'
  BY DEF ValidationIsExact, Legal

(* A command reports what Legal says, or refuses the settings of the log. *)
LEMMA SaysWhatIs ==
  ASSUME ValidationIsExact, file' = file, file.kind \in {"server", "client"},
         command \in {"validate", file.kind},
         \/ Legal /\ said' = said \cup {<<command, "valid">>}
         \/ ~Legal /\ said' = said \cup {<<command, "invalid">>}
         \/ command = file.kind /\ file.cfg.log = "bad" /\ said' = said \cup {<<command, "invalid">>}
  PROVE  ValidationIsExact'
  <1>1. Legal' <=> Legal
    BY DEF Legal
  <1> QED
    BY <1>1 DEF ValidationIsExact

LEMMA SaidInit == Init => ValidationIsExact
  BY DEF Init, ValidationIsExact

LEMMA SaidStep == LoadInv /\ ValidationIsExact /\ [Next]_vars => ValidationIsExact'
  <1> SUFFICES ASSUME LoadInv, ValidationIsExact, [Next]_vars PROVE ValidationIsExact'
    OBVIOUS
  <1>0. \/ file.kind = "server" /\ file.cfg \in ServerConfig
        \/ file.kind = "client" /\ file.cfg \in ClientConfig
    BY FileKinds DEF LoadInv
  <1>a. file \in Files /\ file.kind \in {"server", "client"} /\ (pc # "idle" => command \in {"validate", file.kind})
    BY <1>0 DEF LoadInv
  <1>1. ASSUME NEW c \in {"validate", "server", "client"}, Begin(c) PROVE ValidationIsExact'
    BY <1>1, <1>a, SaysNothing DEF Begin
  <1>2. CASE LoadFail
    <2>1. pc = "load" /\ file' = file /\ said' = said \cup {<<command, "invalid">>}
      BY <1>2 DEF LoadFail, Report
    <2>2. ~Legal
      BY <1>2, <1>a, LegalIsAccepted DEF LoadFail
    <2> QED
      BY <1>a, <2>1, <2>2, SaysWhatIs
  <1>3. CASE LoadServer
    BY <1>3, <1>a, SaysNothing DEF LoadServer
  <1>4. CASE ValidateClient
    BY <1>4, <1>a, SaysNothing DEF ValidateClient
  <1>5. CASE Validated
    <2>1. pc = "clients" /\ file' = file /\ i = Len(cfg.clients) /\ LoadedServer /\ LoopInv
      BY <1>5 DEF Validated, LoadInv
    <2>2. Legal <=> ~serverRejected
      <3>1. Accepted(cfg) <=> ~serverRejected
        BY <2>1 DEF LoopInv, Accepted, serverRejected
      <3> QED
        BY <1>a, <2>1, <3>1, LegalIsAccepted DEF LoadedServer
    <2>3. \/ serverRejected /\ said' = said \cup {<<command, "invalid">>}
          \/ ~serverRejected /\ said' = said \cup {<<command, "valid">>}
          \/ said' = said
      BY <1>5 DEF Validated, Report
    <2> QED
      BY <1>a, <2>1, <2>2, <2>3, SaysNothing, SaysWhatIs
  <1>6. CASE LoadClient
    <2>1. pc = "load" /\ file' = file /\ file.kind = "client" /\ loadStrict(file, ClientPerm)
      BY <1>6 DEF LoadClient
    <2>2. cfg' = applyClientDefaults(file.cfg)
      BY <1>6, <2>1 DEF LoadClient, LoadInv
    <2>3. Legal <=> clientValid(cfg')
      BY <1>a, <2>1, <2>2, LegalIsAccepted
    <2>4. \/ ~clientValid(cfg') /\ said' = said \cup {<<command, "invalid">>}
          \/ clientValid(cfg') /\ said' = said \cup {<<command, "valid">>}
          \/ said' = said
      BY <1>6 DEF LoadClient, Report
    <2> QED
      BY <1>a, <2>1, <2>3, <2>4, SaysNothing, SaysWhatIs
  <1>7. CASE NewLogger
    <2>1. pc = "log" /\ file' = file /\ command = file.kind
      BY <1>7 DEF NewLogger, LoadInv
    <2>2. cfg.log = "bad" => file.cfg.log = "bad"
      <3>1. LoadedServer \/ LoadedClient
        BY <2>1 DEF LoadInv
      <3>2. CASE LoadedServer
        <4>1. cfg.log = Default(file.cfg.log, "unset", "good")
          BY <1>0, <3>2, ServerDefaults DEF LoadedServer
        <4> QED
          BY <4>1 DEF Default
      <3>3. CASE LoadedClient
        <4>1. cfg.log = Default(file.cfg.log, "unset", "good")
          BY <1>0, <3>3, ClientDefaults DEF LoadedClient
        <4> QED
          BY <4>1 DEF Default
      <3> QED
        BY <3>1, <3>2, <3>3
    <2>3. \/ cfg.log = "bad" /\ said' = said \cup {<<command, "invalid">>}
          \/ said' = said
      BY <1>7 DEF NewLogger, Report
    <2> QED
      BY <1>a, <2>1, <2>2, <2>3, SaysNothing, SaysWhatIs
  <1>8. CASE ClientReturns
    BY <1>8, <1>a, SaysNothing DEF ClientReturns, Report
  <1>9. CASE OpenDevice
    BY <1>9, <1>a, SaysNothing DEF OpenDevice, Report
  <1>10. CASE SetAddr
    BY <1>10, <1>a, SaysNothing DEF SetAddr
  <1>10a. CASE SetupServerUnsupported
    BY <1>10a, <1>a, SaysNothing DEF SetupServerUnsupported
  <1>11. CASE SetLink
    BY <1>11, <1>a, SaysNothing DEF SetLink
  <1>12. CASE SetupServerFails
    BY <1>12, <1>a, SaysNothing DEF SetupServerFails
  <1>13. CASE AbortSetup
    BY <1>13, <1>a, SaysNothing DEF AbortSetup, Report
  <1>14. CASE NewServer
    BY <1>14, <1>a, SaysNothing DEF NewServer
  <1>15. CASE RunReturns
    BY <1>15, <1>a, SaysNothing DEF RunReturns
  <1>16. CASE ServerCleanup
    BY <1>16, <1>a, SaysNothing DEF ServerCleanup, Report
  <1>17. CASE Exit
    BY <1>17, <1>a, SaysNothing DEF Exit
  <1>18. CASE UNCHANGED vars
    BY <1>18, <1>a, SaysNothing DEF vars
  <1> QED
    BY <1>1, <1>2, <1>3, <1>4, <1>5, <1>6, <1>7, <1>8, <1>9, <1>10, <1>10a, <1>11, <1>12,
       <1>13, <1>14, <1>15, <1>16, <1>17, <1>18 DEF Next

(* For any file: validate calls it valid only if it is legal and invalid     *)
(* only if it is not, and the command it is for refuses a legal file only    *)
(* for its log settings (config.go:75-91,121-269, main.go:74-77,117-120).    *)
THEOREM ValidateSaysWhatIs == Spec => []ValidationIsExact
  BY LoadInit, LoadStep, SaidInit, SaidStep, PTL DEF Spec
=============================================================================
