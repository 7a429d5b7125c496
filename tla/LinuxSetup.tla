----------------------------- MODULE LinuxSetup -----------------------------
(***************************************************************************)
(* SetupClient of internal/platform/client_linux.go: the sequence of ip    *)
(* and resolvectl commands that turns a host into a full-tunnel client,    *)
(* its rollback, and the cleanup and close of the TUN that Client.Run      *)
(* defers.  The process may be cancelled or killed at any point and        *)
(* started again; the host may move to another uplink in between.          *)
(*                                                                         *)
(* The kernel's tables and systemd-resolved are external.  An entry of     *)
(* them is what it is for (the key) and the way it leads (via): the TUN or *)
(* an uplink.  "ip route replace" puts an entry in the place of any other  *)
(* with its key, "del" removes exactly the entry it names, and the entries *)
(* that lead to a TUN go away with it.                                     *)
(***************************************************************************)
EXTENDS Integers, Sequences, SequencesExt

CONSTANTS
  Uplinks,     \* gateway and interface of the default routes the host may have
  NoUplink,    \* the host has no usable default route
  BlockIPv6,   \* cfg.BlockIPv6
  DNS,         \* whether cfg.DNS is not empty
  HostEntries, \* entries the host may have of its own
  MaxRuns      \* bound: times the client is started

ASSUME LinuxAssumption ==
  /\ NoUplink \notin Uplinks /\ "tun" \notin Uplinks
  /\ BlockIPv6 \in BOOLEAN /\ DNS \in BOOLEAN /\ MaxRuns \in Nat
  /\ \A e \in HostEntries : e.via # "tun"

VARIABLES
  table,      \* the host's addresses, routes and resolver settings
  uplink,     \* the host's default route
  pc,         \* where the run is
  ctxDone,    \* the context of Client.Run is cancelled
  orig,       \* the default route SetupClient found
  step,       \* commands of SetupClient that have succeeded
  completed,  \* the undo functions recorded, each by the entries it removes
  runs,       \* times the client was started
  host,       \* ghost: the entries the host had of its own
  before,     \* ghost: the table when this run began
  outcome,    \* ghost: what SetupClient returned in this run
  torn,       \* ghost: a command took effect and was killed before it could say so
  stuck,      \* ghost: an undo command failed on an entry that was there
  moved       \* ghost: the kernel removed routes of an uplink during this run

setupVars == <<orig, step, completed>>
ghostVars == <<host, before, outcome, torn, stuck, moved>>
vars      == <<table, uplink, pc, ctxDone, setupVars, runs, ghostVars>>

Entry(k, v) == [key |-> k, via |-> v]

(* The entries the commands of SetupClient make, in their order. *)
Commands(u) ==
  << Entry("addr", "tun"), Entry("link", "tun"), Entry("server", u), Entry("gateway", "tun"),
     Entry("low", "tun"), Entry("high", "tun") >>
  \o (IF BlockIPv6 THEN << Entry("low6", "tun"), Entry("high6", "tun") >> ELSE <<>>)
  \o (IF DNS THEN << Entry("dns", "tun"), Entry("domain", "tun") >> ELSE <<>>)

Recorded_NotServer(c) ==
  IF c.key \in {"link", "dns", "server"} THEN <<>> ELSE << {c} >>

(* What a command that succeeds appends to completed.  Bringing the link up  *)
(* is not undone, and one resolvectl revert stands for both DNS settings.    *)
Recorded(c) ==
  IF c.key \in {"link", "dns"} THEN <<>>
  ELSE IF c.key = "domain" THEN << {c, Entry("dns", "tun")} >>
  ELSE << {c} >>

Replace_Add(c) == table \cup {c}

Replace(c) == {e \in table : e.key # c.key} \cup {c}

Init ==
  /\ table \in SUBSET HostEntries /\ \A d, e \in table : d.key = e.key => d = e
  /\ uplink \in Uplinks /\ pc = "rest" /\ ctxDone = FALSE
  /\ orig = NoUplink /\ step = 0 /\ completed = <<>> /\ runs = 0
  /\ host = table /\ before = table /\ outcome = "none" /\ torn = FALSE /\ stuck = FALSE
  /\ moved = FALSE
-----------------------------------------------------------------------------
(* Client.Run opens the TUN and calls SetupClient. *)
Start ==
  /\ pc = "rest" /\ runs < MaxRuns
  /\ runs' = runs + 1
  /\ pc' = "default" /\ ctxDone' = FALSE
  /\ orig' = NoUplink /\ step' = 0 /\ completed' = <<>>
  /\ before' = table /\ outcome' = "none" /\ torn' = FALSE /\ stuck' = FALSE
  /\ moved' = FALSE
  /\ UNCHANGED <<table, uplink, host>>

(* External: SIGINT or SIGTERM. *)
CancelCtx ==
  /\ pc # "rest" /\ ~ctxDone
  /\ ctxDone' = TRUE
  /\ UNCHANGED <<table, uplink, pc, setupVars, runs, ghostVars>>

(* linuxDefaultRoute. *)
DefaultRoute ==
  /\ pc = "default" /\ ~ctxDone /\ uplink # NoUplink
  /\ orig' = uplink
  /\ pc' = "setup"
  /\ UNCHANGED <<table, uplink, ctxDone, step, completed, runs, ghostVars>>

DefaultRouteFail ==
  /\ pc = "default"
  /\ outcome' = "failed"
  /\ pc' = "close"
  /\ UNCHANGED <<table, uplink, ctxDone, setupVars, runs, host, before, torn, stuck, moved>>

(* run succeeds: exec starts no command once the context is done. *)
Command ==
  /\ pc = "setup" /\ step < Len(Commands(orig)) /\ ~ctxDone
  /\ LET c == Commands(orig)[step + 1]
     IN  table' = Replace(c) /\ completed' = completed \o Recorded(c)
  /\ step' = step + 1
  /\ UNCHANGED <<uplink, pc, ctxDone, orig, runs, ghostVars>>

(* The command fails and leaves no trace; LookPath finds no resolvectl. *)
CommandFail ==
  /\ pc = "setup" /\ step < Len(Commands(orig))
  /\ outcome' = "failed"
  /\ pc' = "rollback"
  /\ UNCHANGED <<table, uplink, ctxDone, setupVars, runs, host, before, torn, stuck, moved>>

(* The context ends while the command runs: it is killed after its effect. *)
CommandKilled ==
  /\ pc = "setup" /\ step < Len(Commands(orig)) /\ ~ctxDone
  /\ ctxDone' = TRUE
  /\ table' = Replace(Commands(orig)[step + 1])
  /\ torn' = TRUE /\ outcome' = "failed"
  /\ pc' = "rollback"
  /\ UNCHANGED <<uplink, setupVars, runs, host, before, stuck, moved>>

SetupDone ==
  /\ pc = "setup" /\ step = Len(Commands(orig))
  /\ outcome' = "ok"
  /\ pc' = "up"
  /\ UNCHANGED <<table, uplink, ctxDone, setupVars, runs, host, before, torn, stuck, moved>>

(* Run returns, after a signal or on an error, and its defer calls cleanup. *)
CleanUp ==
  /\ pc = "up"
  /\ pc' = "cleanup"
  /\ UNCHANGED <<table, uplink, ctxDone, setupVars, runs, ghostVars>>

Undoing == pc \in {"rollback", "cleanup"}

NextUndo_Forward == 1

(* The loop of rollback runs from the last undo function to the first. *)
NextUndo == Len(completed)

(* One undo function, and what becomes of its failure: runIgnoreMissing      *)
(* forgets it.                                                               *)
Undo ==
  /\ Undoing /\ completed # <<>>
  /\ completed' = RemoveAt(completed, NextUndo)
  /\ \/ table' = table \ completed[NextUndo] /\ UNCHANGED stuck
     \/ stuck' = (stuck \/ table \cap completed[NextUndo] # {}) /\ UNCHANGED table
  /\ UNCHANGED <<uplink, pc, ctxDone, orig, step, runs, host, before, outcome, torn, moved>>

UndoDone ==
  /\ Undoing /\ completed = <<>>
  /\ pc' = "close"
  /\ UNCHANGED <<table, uplink, ctxDone, setupVars, runs, ghostVars>>

CloseDevice_AfterSuccess ==
  /\ pc = "close"
  /\ table' = IF outcome = "ok" THEN {e \in table : e.via # "tun"} ELSE table
  /\ pc' = "rest"
  /\ UNCHANGED <<uplink, ctxDone, setupVars, runs, ghostVars>>

(* dev.Close. *)
CloseDevice ==
  /\ pc = "close"
  /\ table' = {e \in table : e.via # "tun"}
  /\ pc' = "rest"
  /\ UNCHANGED <<uplink, ctxDone, setupVars, runs, ghostVars>>

(* External: the process is killed; the kernel removes the TUN. *)
Crash ==
  /\ pc # "rest"
  /\ table' = {e \in table : e.via # "tun"}
  /\ outcome' = "crashed"
  /\ pc' = "rest"
  /\ UNCHANGED <<uplink, ctxDone, setupVars, runs, host, before, torn, stuck, moved>>

(* External: the host's default route changes; when the old uplink went down *)
(* the kernel has removed its routes.                                        *)
Roam ==
  /\ uplink' \in (Uplinks \cup {NoUplink}) \ {uplink}
  /\ table' \in {table, {e \in table : e.via # uplink}}
  /\ moved' = (moved \/ table' # table)
  /\ UNCHANGED <<pc, ctxDone, setupVars, runs, host, before, outcome, torn, stuck>>

Next ==
  \/ Start \/ CancelCtx \/ DefaultRoute \/ DefaultRouteFail
  \/ Command \/ CommandFail \/ CommandKilled \/ SetupDone
  \/ CleanUp \/ Undo \/ UndoDone \/ CloseDevice \/ Crash \/ Roam

Spec == Init /\ [][Next]_vars

(* One goroutine runs them all: a started command ends or is killed by its   *)
(* context, and Run ends once it is told to.                                 *)
Fairness ==
  WF_vars(\/ DefaultRoute \/ DefaultRouteFail
          \/ Command \/ CommandFail \/ CommandKilled \/ SetupDone
          \/ (CleanUp /\ ctxDone) \/ Undo \/ UndoDone \/ CloseDevice)

FairSpec == Spec /\ Fairness
-----------------------------------------------------------------------------
(* The tunnel never carries its own connection: while one of the halves that *)
(* replace the default route leads to the TUN, the route to the server does  *)
(* not.  That needs the order of the commands and the reverse order of the   *)
(* rollback (client_linux.go:28,44,56), and holds on every path of setup,    *)
(* rollback and cleanup unless a command was killed after its effect, an     *)
(* undo command failed, or the uplink that SetupClient saw went down.        *)
NoLoop ==
  (/\ \E e \in table : e.key \in {"low", "high"} /\ e.via = "tun"
   /\ ~torn /\ ~stuck /\ ~moved)
    => Entry("server", orig) \in table

(* SetupClient adds all or nothing, and the cleanup undoes it: when a run    *)
(* has ended and the TUN is closed the host has no entry it did not have     *)
(* before, whichever command failed.  A command killed after its effect and  *)
(* a failed undo command are the only exceptions, and they can leave nothing *)
(* but the route to the server, which does not lead to the TUN.  That the    *)
(* host has lost no entry either is what RemovesOnlyItsOwn says.             *)
Transactional ==
  pc = "rest" /\ outcome # "crashed" =>
    \A e \in table \ before : e.key = "server" /\ (torn \/ stuck)

(* The next run repairs what a killed run left behind: after a run that was  *)
(* set up and cleaned up the host has only entries of its own, even when     *)
(* earlier runs crashed and the host has moved to another uplink since: the  *)
(* stale route has the same key and replace overwrites it.                   *)
RepairsCrash ==
  pc = "rest" /\ outcome = "ok" /\ ~stuck => table \subseteq host

(* What docs/ARCHITECTURE.md says of a graceful shutdown: a run that ended   *)
(* without a failure leaves every entry the host had, unless its uplink went *)
(* down meanwhile.                                                           *)
RemovesOnlyItsOwn ==
  pc = "rest" /\ outcome = "ok" /\ ~moved => before \cap host \subseteq table

(* A signal at any moment of setup, rollback or session ends with the TUN    *)
(* closed, and with it every entry that leads there.                         *)
SignalRestores ==
  (ctxDone /\ pc # "rest") ~> (pc = "rest" /\ \A e \in table : e.via # "tun")
=============================================================================
