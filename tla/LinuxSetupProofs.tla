-------------------------- MODULE LinuxSetupProofs --------------------------
(***************************************************************************)
(* Proofs about LinuxSetup, for any uplinks, entries of the host and       *)
(* number of runs: the tunnel never carries its own connection, a failed   *)
(* setup leaves nothing, and a run that succeeds repairs what a killed one *)
(* has left.                                                               *)
(***************************************************************************)
EXTENDS LinuxSetup, SequenceTheorems, TLAPS

(* The lists of undo functions and of commands. *)
LEMMA Extended ==
  ASSUME NEW S, NEW s \in Seq(S), NEW x \in S
  PROVE  /\ s \o <<x>> \in Seq(S) /\ Len(s \o <<x>>) = Len(s) + 1
         /\ \A i \in 1..Len(s) : (s \o <<x>>)[i] = s[i]
         /\ (s \o <<x>>)[Len(s) + 1] = x
<1>1. Len(s) \in Nat /\ <<x>> \in Seq(S) /\ Len(<<x>>) = 1 /\ <<x>>[1] = x
  BY LenProperties
<1>2. s \o <<x>> \in Seq(S) /\ Len(s \o <<x>>) = Len(s) + 1
  BY <1>1, ConcatProperties
<1>3. \A i \in 1..Len(s) : (s \o <<x>>)[i] = s[i]
  BY <1>1
<1>4. (s \o <<x>>)[Len(s) + 1] = x
  BY <1>1
<1>5. QED
  BY <1>2, <1>3, <1>4

LEMMA Prefix ==
  ASSUME NEW S, NEW s, NEW n \in Nat, \A i \in 1..n : s[i] \in S
  PROVE  /\ SubSeq(s, 1, n) \in Seq(S) /\ Len(SubSeq(s, 1, n)) = n
         /\ \A i \in 1..n : SubSeq(s, 1, n)[i] = s[i]
<1>1. /\ SubSeq(s, 1, n) \in Seq(S)
      /\ Len(SubSeq(s, 1, n)) = IF 1 <= n THEN n - 1 + 1 ELSE 0
      /\ \A i \in 1..(n - 1 + 1) : SubSeq(s, 1, n)[i] = s[1 + i - 1]
  BY SubSeqProperties
<1>2. n - 1 + 1 = n /\ (IF 1 <= n THEN n - 1 + 1 ELSE 0) = n /\ \A i \in 1..n : 1 + i - 1 = i
  OBVIOUS
<1>3. QED
  BY <1>1, <1>2

LEMMA Shortened ==
  ASSUME NEW S, NEW s \in Seq(S), s # <<>>
  PROVE  /\ RemoveAt(s, Len(s)) \in Seq(S) /\ Len(s) >= 1
         /\ Len(RemoveAt(s, Len(s))) = Len(s) - 1
         /\ \A i \in 1..(Len(s) - 1) : RemoveAt(s, Len(s))[i] = s[i]
<1>0. PICK n \in Nat : Len(s) = n + 1
  <2>1. Len(s) \in Nat \ {0}
    BY EmptySeq
  <2>2. \A m \in Nat \ {0} : m - 1 \in Nat /\ m = (m - 1) + 1
    OBVIOUS
  <2>3. QED
    BY <2>1, <2>2
<1>1. Len(s) >= 1 /\ Len(s) - 1 = n
  BY <1>0
<1>2. /\ SubSeq(s, 1, n) \in Seq(S) /\ Len(SubSeq(s, 1, n)) = n
      /\ \A i \in 1..n : SubSeq(s, 1, n)[i] = s[i]
  <2>1. \A i \in 1..n : s[i] \in S
    BY <1>0, LenProperties
  <2>2. QED
    BY <2>1, Prefix
<1>3. SubSeq(s, (n + 1) + 1, n + 1) = <<>>
  BY SubSeqEmpty
<1>4. RemoveAt(s, n + 1) = SubSeq(s, 1, n) \o <<>>
  BY <1>0, <1>1, <1>3 DEF RemoveAt
<1>5. RemoveAt(s, n + 1) = SubSeq(s, 1, n)
  BY <1>2, <1>4, ConcatEmptySeq
<1>6. QED
  BY <1>0, <1>1, <1>2, <1>5

Keys == {"addr", "link", "server", "gateway", "low", "high", "low6", "high6", "dns", "domain"}

LEMMA CommandsLength == ASSUME NEW u PROVE Len(Commands(u)) \in Nat /\ Len(Commands(u)) >= 6
<1>1. CASE ~BlockIPv6 /\ ~DNS
  BY <1>1 DEF Commands
<1>2. CASE BlockIPv6 /\ ~DNS
  BY <1>2 DEF Commands
<1>3. CASE ~BlockIPv6 /\ DNS
  BY <1>3 DEF Commands
<1>4. CASE BlockIPv6 /\ DNS
  BY <1>4 DEF Commands
<1>5. QED
  BY <1>1, <1>2, <1>3, <1>4

LEMMA CommandsHead ==
  ASSUME NEW u
  PROVE  /\ Commands(u)[1] = Entry("addr", "tun") /\ Commands(u)[2] = Entry("link", "tun")
         /\ Commands(u)[3] = Entry("server", u)
<1>1. CASE ~BlockIPv6 /\ ~DNS
  BY <1>1 DEF Commands
<1>2. CASE BlockIPv6 /\ ~DNS
  BY <1>2 DEF Commands
<1>3. CASE ~BlockIPv6 /\ DNS
  BY <1>3 DEF Commands
<1>4. CASE BlockIPv6 /\ DNS
  BY <1>4 DEF Commands
<1>5. QED
  BY <1>1, <1>2, <1>3, <1>4

LEMMA CommandsTail ==
  ASSUME NEW u, NEW i \in 4..Len(Commands(u))
  PROVE  \E k \in Keys : k # "server" /\ Commands(u)[i] = Entry(k, "tun")
<1>1. CASE ~BlockIPv6 /\ ~DNS
  BY <1>1 DEF Commands, Keys
<1>2. CASE BlockIPv6 /\ ~DNS
  BY <1>2 DEF Commands, Keys
<1>3. CASE ~BlockIPv6 /\ DNS
  BY <1>3 DEF Commands, Keys
<1>4. CASE BlockIPv6 /\ DNS
  BY <1>4 DEF Commands, Keys
<1>5. QED
  BY <1>1, <1>2, <1>3, <1>4

ServerRoute == Entry("server", orig)

Labels == {"rest", "default", "setup", "up", "rollback", "cleanup", "close"}

(* Where a run has entries of its own. *)
Working == pc \in {"setup", "up", "rollback", "cleanup"}

(* How far SetupClient is, by what it has recorded: the address first, then  *)
(* the route to the server, and everything after them leads to the TUN.      *)
RecordedInv ==
  /\ completed \in Seq(SUBSET [key : Keys, via : Uplinks \cup {"tun"}])
  /\ Len(completed) >= 2 => completed[2] = {ServerRoute}
  /\ \A i \in 1..Len(completed) : i # 2 => \A e \in completed[i] : e.via = "tun"

StepInv ==
  /\ step \in Nat /\ pc \in Labels
  /\ Working => orig \in Uplinks
  /\ pc = "setup" /\ step = 0 => Len(completed) = 0
  /\ pc = "setup" /\ step \in {1, 2} => Len(completed) = 1
  /\ pc = "setup" /\ step >= 3 => Len(completed) >= 2
  /\ pc = "default" => completed = <<>> /\ step = 0
  /\ pc = "close" => completed = <<>>

(* No entry leads to a TUN that is not open. *)
NoTunEntries ==
  pc \in {"rest", "default"} => \A e \in table : e.via # "tun"

(* The halves of the default route that lead to the TUN have their undo      *)
(* function behind that of the route to the server, which is there.          *)
HalvesRecorded ==
  ~torn /\ ~stuck =>
    \A e \in table : e.key \in {"low", "high"} /\ e.via = "tun"
      => \E i \in 3..Len(completed) : completed[i] = {e}

ServerRoutePresent ==
  Working /\ Len(completed) >= 2 /\ ~moved => ServerRoute \in table

(* What this run added leads to the TUN, or is its route to the server, and  *)
(* that one has its undo function.                                           *)
OwnAdditions ==
  /\ pc = "default" => table \subseteq before
  /\ \A e \in table \ before : e.via = "tun" \/ e = ServerRoute
  /\ pc # "rest" /\ ~torn /\ ~stuck /\ ServerRoute \in table \ before => Len(completed) >= 2

(* What is not of the host leads to the TUN or is a route to the server; and *)
(* once this run has made its own there is no other.                         *)
ServerRoutes ==
  /\ \A e \in table \ host : e.via = "tun" \/ e.key = "server"
  /\ (pc \in {"up", "cleanup"} \/ (pc = "setup" /\ step >= 3))
       => \A e \in table : e.key = "server" => e = ServerRoute
  /\ ((pc = "cleanup" /\ Len(completed) <= 1) \/ (pc = "close" /\ outcome = "ok")) /\ ~stuck
       => \A e \in table : e.key # "server"

(* What SetupClient has returned. *)
OutcomeInv ==
  /\ pc = "rollback" => outcome = "failed"
  /\ pc \in {"default", "setup"} => outcome = "none"
  /\ pc = "up" => Len(completed) >= 2
  /\ torn \in BOOLEAN /\ stuck \in BOOLEAN /\ moved \in BOOLEAN

SetupInv ==
  /\ RecordedInv /\ StepInv /\ NoTunEntries /\ HalvesRecorded /\ ServerRoutePresent
  /\ OwnAdditions /\ ServerRoutes /\ OutcomeInv
  /\ Transactional /\ RepairsCrash

LEMMA SetupInit == Init => SetupInv
<1> SUFFICES ASSUME Init PROVE SetupInv
  OBVIOUS
<1>1. /\ step = 0 /\ pc = "rest" /\ outcome = "none" /\ before = table /\ host = table
      /\ completed = <<>> /\ torn = FALSE /\ stuck = FALSE /\ moved = FALSE
      /\ table \subseteq HostEntries
  BY DEF Init
<1>2. \A e \in table : e.via # "tun"
  BY <1>1, LinuxAssumption
<1>3. RecordedInv
  BY <1>1, EmptySeq DEF RecordedInv
<1>4. QED
  BY <1>1, <1>2, <1>3 DEF SetupInv, StepInv, Labels, Working, NoTunEntries, HalvesRecorded,
     ServerRoutePresent, OwnAdditions, ServerRoutes, OutcomeInv, Transactional, RepairsCrash

(* What the next command makes, and what it appends to completed. *)
LEMMA NextCommand ==
  ASSUME SetupInv, pc = "setup", step < Len(Commands(orig)),
         NEW c, c = Commands(orig)[step + 1]
  PROVE  /\ c = ServerRoute \/ (c.via = "tun" /\ c.key \in Keys \ {"server"} /\ c = Entry(c.key, "tun"))
         /\ c = ServerRoute <=> step = 2
         /\ step = 0 => c.key = "addr"
         /\ step = 1 => c.key = "link"
<1>1. step \in Nat /\ Len(Commands(orig)) \in Nat
  BY CommandsLength DEF SetupInv, StepInv
<1>2. CASE step = 0
  BY <1>2, CommandsHead DEF Entry, Keys, ServerRoute
<1>3. CASE step = 1
  BY <1>3, CommandsHead DEF Entry, Keys, ServerRoute
<1>4. CASE step = 2
  BY <1>4, CommandsHead DEF Entry, Keys, ServerRoute
<1>5. CASE step > 2
  <2>1. step + 1 \in 4..Len(Commands(orig))
    BY <1>1, <1>5
  <2>2. PICK k \in Keys : k # "server" /\ c = Entry(k, "tun")
    BY <2>1, CommandsTail
  <2>3. QED
    BY <1>5, <2>2 DEF Entry, ServerRoute
<1>6. QED
  BY <1>1, <1>2, <1>3, <1>4, <1>5

LEMMA CommandRecords ==
  ASSUME SetupInv, pc = "setup", step < Len(Commands(orig)),
         NEW c, c = Commands(orig)[step + 1]
  PROVE  \/ c.key \in {"link", "dns"} /\ completed \o Recorded(c) = completed
         \/ \E X \in SUBSET [key : Keys, via : Uplinks \cup {"tun"}] :
              /\ Recorded(c) = <<X>> /\ c.key \notin {"link", "dns"}
              /\ X = {c} \/ (c.key = "domain" /\ \A e \in X : e.via = "tun")
<1>1. c \in [key : Keys, via : Uplinks \cup {"tun"}]
  BY NextCommand DEF ServerRoute, Entry, Keys, SetupInv, StepInv, Labels, Working
<1>2. CASE c.key \in {"link", "dns"}
  <2>1. Recorded(c) = <<>>
    BY <1>2 DEF Recorded
  <2>2. completed \o <<>> = completed
    BY ConcatEmptySeq DEF SetupInv, RecordedInv
  <2>3. QED
    BY <1>2, <2>1, <2>2
<1>3. CASE c.key = "domain"
  <2>1. Recorded(c) = << {c, Entry("dns", "tun")} >>
    BY <1>3 DEF Recorded
  <2>2. c.via = "tun"
    BY <1>3, NextCommand DEF ServerRoute, Entry
  <2>3. {c, Entry("dns", "tun")} \in SUBSET [key : Keys, via : Uplinks \cup {"tun"}]
    BY <1>1 DEF Entry, Keys
  <2>4. \A e \in {c, Entry("dns", "tun")} : e.via = "tun"
    BY <2>2 DEF Entry
  <2>5. QED
    BY <1>3, <2>1, <2>3, <2>4
<1>4. CASE c.key \notin {"link", "dns", "domain"}
  <2>1. Recorded(c) = << {c} >>
    BY <1>4 DEF Recorded
  <2>2. QED
    BY <1>1, <1>4, <2>1
<1>5. QED
  BY <1>2, <1>3, <1>4
LEMMA CommandKeeps == ASSUME SetupInv, Command PROVE SetupInv'
<1>1. PICK c : /\ c = Commands(orig)[step + 1]
               /\ table' = Replace(c) /\ completed' = completed \o Recorded(c)
  BY DEF Command
<1>2. /\ pc = "setup" /\ pc' = "setup" /\ step \in Nat /\ step' = step + 1
      /\ step < Len(Commands(orig)) /\ orig \in Uplinks /\ orig # "tun"
      /\ UNCHANGED <<orig, host, before, outcome, torn, stuck, moved>>
  BY LinuxAssumption DEF Command, ghostVars, SetupInv, StepInv, Labels, Working
<1>3. /\ c = ServerRoute \/ (c.via = "tun" /\ c.key \in Keys \ {"server"} /\ c = Entry(c.key, "tun"))
      /\ c = ServerRoute <=> step = 2
      /\ step = 0 => c.key = "addr"
      /\ step = 1 => c.key = "link"
  BY <1>1, <1>2, NextCommand
<1>40. completed \in Seq(SUBSET [key : Keys, via : Uplinks \cup {"tun"}])
  BY DEF SetupInv, RecordedInv
<1>4. PICK n \in Nat : n = Len(completed)
  BY <1>40, LenProperties
<1>5. /\ step = 0 => n = 0
      /\ step \in {1, 2} => n = 1
      /\ step >= 3 => n >= 2
  BY <1>2, <1>4 DEF SetupInv, StepInv
<1>6. ServerRoute' = ServerRoute /\ ServerRoute.key = "server" /\ ServerRoute.via = orig
  BY <1>2 DEF ServerRoute, Entry
<1>7. table' = {e \in table : e.key # c.key} \cup {c}
  BY <1>1 DEF Replace
<1>8. /\ RecordedInv' /\ StepInv' /\ Len(completed') >= n
      /\ \A i \in 1..n : completed'[i] = completed[i]
      /\ c.key \in {"low", "high"} => Len(completed') >= 3 /\ completed'[Len(completed')] = {c}
  <2>1. CASE c.key \in {"link", "dns"} /\ completed' = completed
    <3>1. step # 0 /\ step # 2
      BY <1>3, <1>6, <2>1
    <3>2. RecordedInv'
      BY <1>6, <2>1 DEF SetupInv, RecordedInv
    <3>3. StepInv'
      BY <1>4, <1>2, <1>5, <2>1, <3>1 DEF StepInv, Labels, Working
    <3>4. QED
      BY <1>4, <2>1, <3>2, <3>3
  <2>2. CASE \E X \in SUBSET [key : Keys, via : Uplinks \cup {"tun"}] :
               /\ Recorded(c) = <<X>> /\ c.key \notin {"link", "dns"}
               /\ X = {c} \/ (c.key = "domain" /\ \A e \in X : e.via = "tun")
    <3>1. PICK X \in SUBSET [key : Keys, via : Uplinks \cup {"tun"}] :
               /\ Recorded(c) = <<X>> /\ c.key \notin {"link", "dns"}
               /\ X = {c} \/ (c.key = "domain" /\ \A e \in X : e.via = "tun")
      BY <2>2
    <3>2. /\ completed' \in Seq(SUBSET [key : Keys, via : Uplinks \cup {"tun"}])
          /\ Len(completed') = n + 1
          /\ \A i \in 1..n : completed'[i] = completed[i]
          /\ completed'[n + 1] = X
      BY <1>1, <1>4, <1>40, <3>1, Extended
    <3>3. step # 1
      BY <1>3, <3>1
    <3>4. StepInv'
      BY <1>2, <1>4, <1>5, <3>2, <3>3 DEF StepInv, Labels, Working
    <3>5. step = 2 => X = {ServerRoute}
      BY <1>3, <1>6, <3>1
    <3>6. step # 2 => \A e \in X : e.via = "tun"
      BY <1>3, <3>1
    <3>61. step # 2 => n # 1
      BY <1>2, <1>5, <3>3
    <3>7. Len(completed') >= 2 => completed'[2] = {ServerRoute}
      <4>1. CASE step = 2
        <5>1. n + 1 = 2
          BY <1>5, <4>1
        <5>2. QED
          BY <3>2, <3>5, <4>1, <5>1
      <4>2. CASE step # 2 /\ n >= 2
        BY <1>4, <3>2, <4>2 DEF SetupInv, RecordedInv
      <4>3. CASE step # 2 /\ n = 0
        BY <3>2, <4>3
      <4>4. n = 0 \/ n = 1 \/ n >= 2
        BY <1>4
      <4>5. QED
        BY <3>61, <4>1, <4>2, <4>3, <4>4
    <3>8. ASSUME NEW i \in 1..Len(completed'), i # 2 PROVE \A e \in completed'[i] : e.via = "tun"
      <4>1. CASE i \in 1..n
        BY <1>4, <3>2, <3>8, <4>1 DEF SetupInv, RecordedInv
      <4>2. CASE i = n + 1
        BY <1>4, <1>5, <3>2, <3>6, <3>8, <4>2
      <4>3. QED
        BY <1>4, <3>2, <4>1, <4>2
    <3>9. RecordedInv'
      BY <1>6, <3>2, <3>7, <3>8 DEF RecordedInv
    <3>10. c.key \in {"low", "high"} => X = {c} /\ step >= 3
      BY <1>2, <1>3, <1>6, <3>1
    <3>11. QED
      BY <1>4, <1>5, <3>2, <3>4, <3>9, <3>10
  <2>3. QED
    BY <1>1, <1>2, <2>1, <2>2, CommandRecords
<1>9. HalvesRecorded'
  <2> SUFFICES ASSUME ~torn, ~stuck, NEW e \in table', e.key \in {"low", "high"}, e.via = "tun"
               PROVE  \E i \in 3..Len(completed') : completed'[i] = {e}
    BY <1>2 DEF HalvesRecorded
  <2>0. Len(completed') \in Nat
    BY <1>8, LenProperties DEF RecordedInv
  <2>1. CASE e = c
    BY <1>8, <2>0, <2>1
  <2>2. CASE e \in table
    <3>1. PICK i \in 3..n : completed[i] = {e}
      BY <1>4, <2>2 DEF SetupInv, HalvesRecorded
    <3>2. i \in 1..n /\ i \in 3..Len(completed')
      BY <1>4, <1>8, <2>0
    <3>3. QED
      BY <1>8, <3>1, <3>2
  <2>3. QED
    BY <1>7, <2>1, <2>2
<1>10. ServerRoutePresent'
  <2>1. CASE step = 2
    BY <1>3, <1>6, <1>7, <2>1 DEF ServerRoutePresent
  <2>2. CASE step < 2
    <3>1. step' \in {1, 2}
      BY <1>2, <2>2
    <3>2. Len(completed') = 1
      BY <1>2, <1>8, <3>1 DEF StepInv
    <3>3. QED
      BY <3>2 DEF ServerRoutePresent
  <2>3. CASE step > 2
    BY <1>4, <1>2, <1>3, <1>5, <1>6, <1>7, <2>3 DEF SetupInv, ServerRoutePresent, Working
  <2>4. QED
    BY <1>2, <2>1, <2>2, <2>3
<1>11. OwnAdditions'
  <2>1. \A e \in table' \ before' : e.via = "tun" \/ e = ServerRoute'
    BY <1>2, <1>3, <1>6, <1>7 DEF SetupInv, OwnAdditions
  <2>2. ~torn /\ ~stuck /\ ServerRoute \in table' \ before => Len(completed') >= 2
    <3>1. CASE step >= 2
      BY <1>2, <1>8, <3>1 DEF StepInv
    <3>2. CASE step < 2
      <4>1. ~(n >= 2)
        BY <1>2, <1>5, <3>2
      <4>2. ~torn /\ ~stuck => ServerRoute \notin table \ before
        BY <1>4, <1>2, <4>1 DEF SetupInv, OwnAdditions
      <4>3. c # ServerRoute
        BY <1>3, <3>2
      <4>4. QED
        BY <1>7, <4>2, <4>3
    <3>3. QED
      BY <1>2, <3>1, <3>2
  <2>3. QED
    BY <1>2, <1>6, <2>1, <2>2 DEF OwnAdditions
<1>12. ServerRoutes'
  <2>1. \A e \in table' \ host' : e.via = "tun" \/ e.key = "server"
    BY <1>2, <1>3, <1>6, <1>7 DEF SetupInv, ServerRoutes
  <2>2. step >= 2 => \A e \in table' : e.key = "server" => e = ServerRoute
    <3>1. CASE step = 2
      BY <1>3, <1>6, <1>7, <3>1
    <3>2. CASE step > 2
      BY <1>2, <1>3, <1>6, <1>7, <3>2 DEF SetupInv, ServerRoutes
    <3>3. QED
      BY <1>2, <3>1, <3>2
  <2>3. QED
    BY <1>2, <1>6, <2>1, <2>2 DEF ServerRoutes
<1>13. NoTunEntries' /\ OutcomeInv' /\ Transactional' /\ RepairsCrash'
  BY <1>2 DEF SetupInv, NoTunEntries, OutcomeInv, Transactional, RepairsCrash
<1>14. QED
  BY <1>8, <1>9, <1>10, <1>11, <1>12, <1>13 DEF SetupInv
LEMMA KilledKeeps == ASSUME SetupInv, CommandKilled PROVE SetupInv'
<1>1. PICK c : c = Commands(orig)[step + 1] /\ table' = {e \in table : e.key # c.key} \cup {c}
  BY DEF CommandKilled, Replace
<1>2. /\ pc = "setup" /\ pc' = "rollback" /\ step < Len(Commands(orig)) /\ orig \in Uplinks
      /\ torn' = TRUE /\ outcome' = "failed"
      /\ UNCHANGED <<orig, step, completed, host, before, stuck, moved>>
  BY DEF CommandKilled, setupVars, SetupInv, StepInv, Labels, Working
<1>3. c = ServerRoute \/ (c.via = "tun" /\ c.key # "server")
  BY <1>1, <1>2, NextCommand
<1>4. ServerRoute' = ServerRoute /\ ServerRoute.key = "server" /\ ServerRoute.via = orig
  BY <1>2 DEF ServerRoute, Entry
<1>5. RecordedInv' /\ StepInv'
  BY <1>2, <1>4 DEF SetupInv, RecordedInv, StepInv, Labels, Working
<1>6. NoTunEntries' /\ HalvesRecorded' /\ OutcomeInv' /\ Transactional' /\ RepairsCrash'
  BY <1>2 DEF SetupInv, NoTunEntries, HalvesRecorded, OutcomeInv, Transactional, RepairsCrash
<1>7. ServerRoutePresent'
  BY <1>1, <1>2, <1>3, <1>4 DEF SetupInv, ServerRoutePresent, Working
<1>8. OwnAdditions'
  BY <1>1, <1>2, <1>3, <1>4 DEF SetupInv, OwnAdditions
<1>9. ServerRoutes'
  BY <1>1, <1>2, <1>3, <1>4 DEF SetupInv, ServerRoutes
<1>10. QED
  BY <1>5, <1>6, <1>7, <1>8, <1>9 DEF SetupInv

LEMMA UndoKeeps == ASSUME SetupInv, Undo PROVE SetupInv'
<1>1. completed \in Seq(SUBSET [key : Keys, via : Uplinks \cup {"tun"}]) /\ completed # <<>>
  BY DEF Undo, SetupInv, RecordedInv
<1>2. PICK n \in Nat : n = Len(completed)
  BY <1>1, LenProperties
<1>3. /\ n >= 1 /\ Len(completed') = n - 1
      /\ completed' \in Seq(SUBSET [key : Keys, via : Uplinks \cup {"tun"}])
      /\ \A i \in 1..(n - 1) : completed'[i] = completed[i]
  BY <1>1, <1>2, Shortened DEF Undo, NextUndo
<1>4. PICK X : /\ X = completed[n]
               /\ n = 2 => X = {ServerRoute}
               /\ n # 2 => \A e \in X : e.via = "tun"
  BY <1>2, <1>3 DEF SetupInv, RecordedInv
<1>5. /\ pc \in {"rollback", "cleanup"} /\ pc' = pc /\ orig \in Uplinks /\ orig # "tun"
      /\ UNCHANGED <<orig, step, host, before, outcome, torn, moved>>
  BY LinuxAssumption DEF Undo, Undoing, SetupInv, StepInv, Labels, Working
<1>6. /\ table' \subseteq table /\ stuck' \in BOOLEAN
      /\ \A e \in table : e \notin X => e \in table'
      /\ ~stuck' => ~stuck /\ \A e \in table' : e \notin X
  <2>1. CASE table' = table \ X /\ UNCHANGED stuck
    BY <2>1 DEF SetupInv, OutcomeInv
  <2>2. CASE stuck' = (stuck \/ table \cap X # {}) /\ UNCHANGED table
    BY <2>2 DEF SetupInv, OutcomeInv
  <2>3. QED
    BY <1>2, <1>4, <2>1, <2>2 DEF Undo, NextUndo
<1>7. ServerRoute' = ServerRoute /\ ServerRoute.key = "server" /\ ServerRoute.via = orig
  BY <1>5 DEF ServerRoute, Entry
<1>8. RecordedInv'
  <2>1. n - 1 >= 2 => completed'[2] = {ServerRoute}
    BY <1>2, <1>3 DEF SetupInv, RecordedInv
  <2>2. \A i \in 1..(n - 1) : i # 2 => \A e \in completed'[i] : e.via = "tun"
    <3> SUFFICES ASSUME NEW i \in 1..(n - 1), i # 2 PROVE \A e \in completed'[i] : e.via = "tun"
      OBVIOUS
    <3>1. i \in 1..n
      OBVIOUS
    <3>2. QED
      BY <1>2, <1>3, <3>1 DEF SetupInv, RecordedInv
  <2>3. QED
    BY <1>3, <1>7, <2>1, <2>2 DEF RecordedInv
<1>9. StepInv' /\ NoTunEntries' /\ OutcomeInv' /\ Transactional' /\ RepairsCrash'
  BY <1>5, <1>6 DEF SetupInv, StepInv, Labels, Working, NoTunEntries, OutcomeInv, Transactional,
     RepairsCrash
<1>10. HalvesRecorded'
  <2> SUFFICES ASSUME ~torn, ~stuck', NEW e \in table', e.key \in {"low", "high"}, e.via = "tun"
               PROVE  \E i \in 3..Len(completed') : completed'[i] = {e}
    BY <1>5 DEF HalvesRecorded
  <2>1. PICK i \in 3..n : completed[i] = {e}
    BY <1>2, <1>6 DEF SetupInv, HalvesRecorded
  <2>2. i # n
    BY <1>4, <1>6, <2>1
  <2>3. i \in 3..(n - 1) /\ i \in 1..(n - 1)
    BY <2>2
  <2>4. QED
    BY <1>3, <2>1, <2>3
<1>11. ServerRoutePresent'
  <2> SUFFICES ASSUME n - 1 >= 2, ~moved PROVE ServerRoute \in table'
    BY <1>3, <1>5, <1>7 DEF ServerRoutePresent
  <2>1. n >= 2 /\ n # 2
    OBVIOUS
  <2>2. ServerRoute \in table
    BY <1>2, <1>5, <2>1 DEF SetupInv, ServerRoutePresent, Working
  <2>3. QED
    BY <1>4, <1>5, <1>6, <1>7, <2>1, <2>2
<1>12. OwnAdditions'
  <2>1. ASSUME ~torn, ~stuck', ServerRoute \in table' \ before PROVE n - 1 >= 2
    <3>1. n >= 2
      BY <1>2, <1>5, <1>6, <2>1 DEF SetupInv, OwnAdditions
    <3>2. n # 2
      BY <1>4, <1>6, <2>1
    <3>3. QED
      BY <3>1, <3>2
  <2>2. \A e \in table' \ before' : e.via = "tun" \/ e = ServerRoute'
    BY <1>5, <1>6, <1>7 DEF SetupInv, OwnAdditions
  <2>3. QED
    BY <1>3, <1>5, <1>7, <2>1, <2>2 DEF OwnAdditions
<1>13. ServerRoutes'
  <2>1. ASSUME pc = "cleanup", n - 1 <= 1, ~stuck' PROVE \A e \in table' : e.key # "server"
    <3>1. CASE n = 2
      BY <1>4, <1>6, <2>1, <3>1 DEF SetupInv, ServerRoutes
    <3>2. CASE n <= 1
      BY <1>2, <1>6, <2>1, <3>2 DEF SetupInv, ServerRoutes
    <3>3. QED
      BY <2>1, <3>1, <3>2
  <2>2. \A e \in table' \ host' : e.via = "tun" \/ e.key = "server"
    BY <1>5, <1>6 DEF SetupInv, ServerRoutes
  <2>3. pc = "cleanup" => \A e \in table' : e.key = "server" => e = ServerRoute
    BY <1>6 DEF SetupInv, ServerRoutes
  <2>4. QED
    BY <1>3, <1>5, <1>7, <2>1, <2>2, <2>3 DEF ServerRoutes
<1>14. QED
  BY <1>8, <1>9, <1>10, <1>11, <1>12, <1>13 DEF SetupInv

(* The default route is one the host may have, or none. *)
UplinkInv == uplink \in Uplinks \cup {NoUplink}

LEMMA UplinkNext == UplinkInv /\ [Next]_vars => UplinkInv'
BY DEF UplinkInv, Next, vars, Start, CancelCtx, DefaultRoute, DefaultRouteFail, Command,
   CommandFail, CommandKilled, SetupDone, CleanUp, Undo, UndoDone, CloseDevice, Crash, Roam

LEMMA SetupNext == SetupInv /\ UplinkInv /\ [Next]_vars => SetupInv'
<1> SUFFICES ASSUME SetupInv, UplinkInv, [Next]_vars PROVE SetupInv'
  OBVIOUS
<1>1. CASE Start
  <2>1. /\ pc = "rest" /\ pc' = "default" /\ orig' = NoUplink /\ step' = 0 /\ completed' = <<>>
        /\ before' = table /\ outcome' = "none" /\ torn' = FALSE /\ stuck' = FALSE
        /\ moved' = FALSE /\ UNCHANGED <<table, host>>
    BY <1>1 DEF Start
  <2>2. RecordedInv'
    BY <2>1, EmptySeq DEF RecordedInv
  <2>3. QED
    BY <2>1, <2>2 DEF SetupInv, StepInv, Labels, Working, NoTunEntries, HalvesRecorded,
       ServerRoutePresent, OwnAdditions, ServerRoutes, OutcomeInv, Transactional, RepairsCrash
<1>2. CASE CancelCtx \/ UNCHANGED vars
  <2>1. UNCHANGED <<table, pc, orig, step, completed, host, before, outcome, torn, stuck, moved>>
    BY <1>2 DEF CancelCtx, setupVars, ghostVars, vars
  <2>2. RecordedInv' /\ StepInv' /\ NoTunEntries' /\ HalvesRecorded' /\ ServerRoutePresent'
    BY <2>1 DEF SetupInv, RecordedInv, StepInv, Labels, Working, NoTunEntries, HalvesRecorded,
       ServerRoutePresent, ServerRoute
  <2>3. OwnAdditions' /\ ServerRoutes' /\ OutcomeInv' /\ Transactional' /\ RepairsCrash'
    BY <2>1 DEF SetupInv, OwnAdditions, ServerRoutes, OutcomeInv, ServerRoute, Transactional,
       RepairsCrash
  <2>4. QED
    BY <2>2, <2>3 DEF SetupInv
<1>3. CASE DefaultRoute
  <2>1. /\ pc = "default" /\ pc' = "setup" /\ completed = <<>> /\ step = 0 /\ orig' = uplink
        /\ UNCHANGED <<table, step, completed, host, before, outcome, torn, stuck, moved>>
    BY <1>3 DEF DefaultRoute, ghostVars, SetupInv, StepInv
  <2>2. orig' \in Uplinks
    BY <1>3, <2>1 DEF DefaultRoute, UplinkInv
  <2>3. RecordedInv'
    BY <2>1, EmptySeq DEF RecordedInv
  <2>4. QED
    BY <2>1, <2>2, <2>3 DEF SetupInv, StepInv, Labels, Working, NoTunEntries, HalvesRecorded,
       ServerRoutePresent, OwnAdditions, ServerRoutes, OutcomeInv, Transactional, RepairsCrash
<1>4. CASE DefaultRouteFail
  <2>1. /\ pc = "default" /\ pc' = "close" /\ outcome' = "failed"
        /\ UNCHANGED <<table, orig, step, completed, host, before, torn, stuck, moved>>
    BY <1>4 DEF DefaultRouteFail, setupVars
  <2>2. QED
    BY <2>1 DEF SetupInv, RecordedInv, StepInv, Labels, Working, NoTunEntries, HalvesRecorded,
       ServerRoutePresent, OwnAdditions, ServerRoutes, OutcomeInv, Transactional, RepairsCrash,
       ServerRoute
<1>5. CASE Command
  BY <1>5, CommandKeeps
<1>6. CASE CommandFail
  <2>1. /\ pc = "setup" /\ pc' = "rollback" /\ outcome' = "failed"
        /\ UNCHANGED <<table, orig, step, completed, host, before, torn, stuck, moved>>
    BY <1>6 DEF CommandFail, setupVars
  <2>2. QED
    BY <2>1 DEF SetupInv, RecordedInv, StepInv, Labels, Working, NoTunEntries, HalvesRecorded,
       ServerRoutePresent, OwnAdditions, ServerRoutes, OutcomeInv, Transactional, RepairsCrash,
       ServerRoute
<1>7. CASE CommandKilled
  BY <1>7, KilledKeeps
<1>8. CASE SetupDone
  <2>1. /\ pc = "setup" /\ pc' = "up" /\ outcome' = "ok"
        /\ UNCHANGED <<table, orig, step, completed, host, before, torn, stuck, moved>>
    BY <1>8 DEF SetupDone, setupVars
  <2>2. step >= 3
    BY <1>8, CommandsLength DEF SetupDone
  <2>3. QED
    BY <2>1, <2>2 DEF SetupInv, RecordedInv, StepInv, Labels, Working, NoTunEntries, HalvesRecorded,
       ServerRoutePresent, OwnAdditions, ServerRoutes, OutcomeInv, Transactional, RepairsCrash,
       ServerRoute
<1>9. CASE CleanUp
  <2>1. /\ pc = "up" /\ pc' = "cleanup"
        /\ UNCHANGED <<table, orig, step, completed, host, before, outcome, torn, stuck, moved>>
    BY <1>9 DEF CleanUp, setupVars, ghostVars
  <2>2. ~(Len(completed) <= 1)
    <3>1. Len(completed) >= 2
      BY <2>1 DEF SetupInv, OutcomeInv
    <3>2. Len(completed) \in Nat
      BY LenProperties DEF SetupInv, RecordedInv
    <3>3. \A n \in Nat : n >= 2 => ~(n <= 1)
      OBVIOUS
    <3>4. QED
      BY <3>1, <3>2, <3>3
  <2>3. QED
    BY <2>1, <2>2 DEF SetupInv, RecordedInv, StepInv, Labels, Working, NoTunEntries, HalvesRecorded,
       ServerRoutePresent, OwnAdditions, ServerRoutes, OutcomeInv, Transactional, RepairsCrash,
       ServerRoute
<1>10. CASE Undo
  BY <1>10, UndoKeeps
<1>11. CASE UndoDone
  <2>1. /\ pc \in {"rollback", "cleanup"} /\ pc' = "close" /\ completed = <<>>
        /\ UNCHANGED <<table, orig, step, completed, host, before, outcome, torn, stuck, moved>>
    BY <1>11 DEF UndoDone, Undoing, setupVars, ghostVars
  <2>2. outcome = "ok" => pc = "cleanup"
    BY <2>1 DEF SetupInv, OutcomeInv
  <2>3. Len(completed) = 0
    BY <2>1
  <2>4. QED
    BY <2>1, <2>2, <2>3 DEF SetupInv, RecordedInv, StepInv, Labels, Working, NoTunEntries, HalvesRecorded,
       ServerRoutePresent, OwnAdditions, ServerRoutes, OutcomeInv, Transactional, RepairsCrash,
       ServerRoute
<1>12. CASE CloseDevice
  <2>1. /\ pc = "close" /\ pc' = "rest" /\ table' = {e \in table : e.via # "tun"}
        /\ UNCHANGED <<orig, step, completed, host, before, outcome, torn, stuck, moved>>
    BY <1>12 DEF CloseDevice, setupVars, ghostVars
  <2>2. Len(completed) = 0
    BY <2>1 DEF SetupInv, StepInv
  <2>3. \A e \in table' \ before' : e = ServerRoute /\ e.key = "server"
    BY <2>1 DEF SetupInv, OwnAdditions, ServerRoute, Entry
  <2>4. ~torn /\ ~stuck => ServerRoute \notin table \ before
    BY <2>1, <2>2 DEF SetupInv, OwnAdditions
  <2>5. Transactional'
    BY <2>1, <2>3, <2>4 DEF Transactional
  <2>6. RepairsCrash'
    BY <2>1 DEF SetupInv, ServerRoutes, RepairsCrash
  <2>7. RecordedInv' /\ StepInv' /\ NoTunEntries' /\ HalvesRecorded' /\ ServerRoutePresent'
    BY <2>1 DEF SetupInv, RecordedInv, StepInv, Labels, Working, NoTunEntries, HalvesRecorded,
       ServerRoutePresent, ServerRoute
  <2>8. OwnAdditions' /\ ServerRoutes' /\ OutcomeInv'
    BY <2>1 DEF SetupInv, OwnAdditions, ServerRoutes, OutcomeInv, ServerRoute
  <2>9. QED
    BY <2>5, <2>6, <2>7, <2>8 DEF SetupInv
<1>13. CASE Crash
  <2>1. /\ pc' = "rest" /\ outcome' = "crashed" /\ table' = {e \in table : e.via # "tun"}
        /\ UNCHANGED <<orig, step, completed, host, before, torn, stuck, moved>>
    BY <1>13 DEF Crash, setupVars
  <2>2. RecordedInv' /\ StepInv' /\ NoTunEntries' /\ HalvesRecorded' /\ ServerRoutePresent'
    BY <2>1 DEF SetupInv, RecordedInv, StepInv, Labels, Working, NoTunEntries, HalvesRecorded,
       ServerRoutePresent, ServerRoute
  <2>3. OwnAdditions' /\ ServerRoutes' /\ OutcomeInv' /\ Transactional' /\ RepairsCrash'
    BY <2>1 DEF SetupInv, OwnAdditions, ServerRoutes, OutcomeInv, ServerRoute, Transactional,
       RepairsCrash
  <2>4. QED
    BY <2>2, <2>3 DEF SetupInv
<1>14. CASE Roam
  <2>1. /\ table' \subseteq table /\ (~moved' => ~moved /\ table' = table) /\ moved' \in BOOLEAN
        /\ UNCHANGED <<pc, orig, step, completed, host, before, outcome, torn, stuck>>
    <3>1. moved' = (moved \/ table' # table) /\ table' \subseteq table
      BY <1>14 DEF Roam
    <3>2. moved' \in BOOLEAN /\ (~moved' => ~moved /\ table' = table)
      BY <3>1 DEF SetupInv, OutcomeInv
    <3>3. QED
      BY <1>14, <3>1, <3>2 DEF Roam, setupVars
  <2>2. RecordedInv' /\ StepInv' /\ NoTunEntries' /\ HalvesRecorded' /\ ServerRoutePresent'
    BY <2>1 DEF SetupInv, RecordedInv, StepInv, Labels, Working, NoTunEntries, HalvesRecorded,
       ServerRoutePresent, ServerRoute
  <2>3. OwnAdditions' /\ ServerRoutes' /\ OutcomeInv' /\ Transactional' /\ RepairsCrash'
    BY <2>1 DEF SetupInv, OwnAdditions, ServerRoutes, OutcomeInv, ServerRoute, Transactional,
       RepairsCrash
  <2>4. QED
    BY <2>2, <2>3 DEF SetupInv
<1>15. QED
  BY <1>1, <1>2, <1>3, <1>4, <1>5, <1>6, <1>7, <1>8, <1>9, <1>10, <1>11, <1>12, <1>13, <1>14
     DEF Next

LEMMA SetupInvariant == Spec => []SetupInv
<1>1. Init => UplinkInv
  BY DEF Init, UplinkInv
<1>2. QED
  BY <1>1, SetupInit, SetupNext, UplinkNext, PTL DEF Spec

(* The tunnel never carries its own connection, at any point of setup,       *)
(* rollback and cleanup, for any uplinks and after any number of runs, each  *)
(* of which may have failed or crashed anywhere: the undo functions of the   *)
(* two halves are recorded behind that of the route to the server, so they   *)
(* are called first.                                                         *)
THEOREM TunnelNeverLoops == Spec => []NoLoop
<1>1. SetupInv => NoLoop
  <2> SUFFICES ASSUME SetupInv, NEW e \in table, e.key \in {"low", "high"}, e.via = "tun",
                      ~torn, ~stuck, ~moved
               PROVE  ServerRoute \in table
    BY DEF NoLoop, ServerRoute
  <2>1. PICK n \in Nat : n = Len(completed)
    BY LenProperties DEF SetupInv, RecordedInv
  <2>2. PICK i \in 3..n : completed[i] = {e}
    BY <2>1 DEF SetupInv, HalvesRecorded
  <2>3. n >= 2 /\ n # 0
    BY <2>2
  <2>4. completed # <<>>
    BY <2>1, <2>3
  <2>5. pc \notin {"rest", "default", "close"}
    BY <2>4 DEF SetupInv, NoTunEntries, StepInv
  <2>6. Working
    BY <2>5 DEF SetupInv, StepInv, Labels, Working
  <2>7. QED
    BY <2>1, <2>3, <2>6 DEF SetupInv, ServerRoutePresent
<1>2. QED
  BY <1>1, SetupInvariant, PTL

(* SetupClient is a transaction, whichever of its commands fails and         *)
(* wherever the uplink goes meanwhile: a run that has ended without a crash  *)
(* leaves at most its route to the server, and only when a command was       *)
(* killed after its effect or an undo command failed.                        *)
THEOREM SetupIsTransactional == Spec => []Transactional
<1>1. SetupInv => Transactional
  BY DEF SetupInv
<1>2. QED
  BY <1>1, SetupInvariant, PTL

(* A run that was set up and cleaned up leaves only entries of the host,     *)
(* whatever crashed runs before it had left.                                 *)
THEOREM NextRunRepairs == Spec => []RepairsCrash
<1>1. SetupInv => RepairsCrash
  BY DEF SetupInv
<1>2. QED
  BY <1>1, SetupInvariant, PTL
=============================================================================
