---------------------------- MODULE WindowsSetup ----------------------------
(***************************************************************************)
(* SetupClient of internal/platform/client_windows.go: one PowerShell      *)
(* script that removes what an earlier run may have left, makes the        *)
(* address and the routes, and removes everything again when a statement   *)
(* fails; and the second script, the cleanup that Client.Run defers.       *)
(*                                                                         *)
(* The difference to LinuxSetup is that New-NetRoute adds an entry where   *)
(* ip route replace puts one in the place of another, and that the undo is *)
(* part of the script: a context that ends kills powershell.exe and with   *)
(* it the catch block.  Entries are as in LinuxSetup.                      *)
(***************************************************************************)
EXTENDS Integers, Sequences, SequencesExt

CONSTANTS
  Uplinks,     \* interface and next hop of the default routes the host may have
  NoUplink,    \* the host has no usable default route
  BlockIPv6,   \* cfg.BlockIPv6
  DNS,         \* whether cfg.DNS is not empty
  HostEntries, \* entries the host may have of its own
  MaxRuns      \* bound: times the client is started

ASSUME WindowsAssumption ==
  /\ NoUplink \notin Uplinks /\ "tun" \notin Uplinks
  /\ BlockIPv6 \in BOOLEAN /\ DNS \in BOOLEAN /\ MaxRuns \in Nat
  /\ \A e \in HostEntries : e.via # "tun"

VARIABLES
  table,    \* the host's addresses, routes and resolver settings
  uplink,   \* the host's best default route
  pc,       \* where the run is
  orig,     \* $orig: the default route the script found
  step,     \* statements of this part of the script that are done
  runs,     \* times the client was started
  host,     \* ghost: the entries the host had of its own
  before,   \* ghost: the table when this run began
  outcome,  \* ghost: how this run went
  stuck     \* ghost: a silent Remove failed, or did not run, on an entry that was there

ghostVars == <<host, before, outcome, stuck>>
vars      == <<table, uplink, pc, orig, step, runs, ghostVars>>

Entry(k, v) == [key |-> k, via |-> v]

TunEntries(keys) == [i \in DOMAIN keys |-> Entry(keys[i], "tun")]

Removed_NotServer(u) == TunEntries(<<"low", "high", "gateway", "low6", "high6", "addr">>)

(* The Remove-NetRoute and Remove-NetIPAddress statements, in the order they *)
(* have in all three places.                                                 *)
Removed(u) ==
  << Entry("server", u) >> \o TunEntries(<<"low", "high", "gateway", "low6", "high6", "addr">>)

(* The same and -ResetServerAddresses, in the catch block and the cleanup.   *)
Undone(u) == Append(Removed(u), Entry("dns", "tun"))

(* The statements that make entries. *)
Made(u) ==
  TunEntries(<<"link", "addr">>) \o << Entry("server", u) >>
  \o TunEntries(<<"gateway", "low", "high">>)
  \o (IF BlockIPv6 THEN TunEntries(<<"low6", "high6">>) ELSE <<>>)
  \o (IF DNS THEN TunEntries(<<"dns">>) ELSE <<>>)

Init ==
  /\ table \in SUBSET HostEntries
  /\ uplink \in Uplinks /\ pc = "rest" /\ orig = NoUplink /\ step = 0 /\ runs = 0
  /\ host = table /\ before = table /\ outcome = "none" /\ stuck = FALSE

Goto(label) == pc' = label /\ step' = 0
-----------------------------------------------------------------------------
(* Client.Run opens the TUN and calls SetupClient. *)
Start ==
  /\ pc = "rest" /\ runs < MaxRuns
  /\ runs' = runs + 1
  /\ Goto("find") /\ orig' = NoUplink
  /\ before' = table /\ outcome' = "none" /\ stuck' = FALSE
  /\ UNCHANGED <<table, uplink, host>>

FindRoute ==
  /\ pc = "find" /\ uplink # NoUplink
  /\ orig' = uplink
  /\ Goto("preclean")
  /\ UNCHANGED <<table, uplink, runs, ghostVars>>

(* No adapter or no default route: the script throws before its try. *)
FindRouteFail ==
  /\ pc = "find"
  /\ outcome' = "failed"
  /\ Goto("close")
  /\ UNCHANGED <<table, uplink, orig, runs, host, before, stuck>>

(* A Remove under SilentlyContinue: it works, or nobody hears of it. *)
RemoveStep(list) ==
  /\ step < Len(list)
  /\ step' = step + 1
  /\ \/ table' = table \ {list[step + 1]} /\ UNCHANGED stuck
     \/ stuck' = (stuck \/ list[step + 1] \in table) /\ UNCHANGED table
  /\ UNCHANGED <<uplink, pc, orig, runs, host, before, outcome>>

PreClean == pc = "preclean" /\ RemoveStep(Removed(orig))

PreCleanDone_Early ==
  /\ pc = "preclean"
  /\ Goto("make")
  /\ UNCHANGED <<table, uplink, orig, runs, ghostVars>>

PreCleanDone ==
  /\ pc = "preclean" /\ step = Len(Removed(orig))
  /\ Goto("make")
  /\ UNCHANGED <<table, uplink, orig, runs, ghostVars>>

Make ==
  /\ pc = "make" /\ step < Len(Made(orig))
  /\ Made(orig)[step + 1] \notin table
  /\ table' = table \cup {Made(orig)[step + 1]}
  /\ step' = step + 1
  /\ UNCHANGED <<uplink, pc, orig, runs, ghostVars>>

(* A statement fails, by itself or on an entry that exists. *)
MakeFail ==
  /\ pc = "make" /\ step < Len(Made(orig))
  /\ Goto("catch")
  /\ UNCHANGED <<table, uplink, orig, runs, ghostVars>>

Catch == pc = "catch" /\ RemoveStep(Undone(orig))

CatchDone ==
  /\ pc = "catch" /\ step = Len(Undone(orig))
  /\ outcome' = "failed"
  /\ Goto("close")
  /\ UNCHANGED <<table, uplink, orig, runs, host, before, stuck>>

(* The context of Client.Run ends: powershell.exe is killed wherever it is. *)
Killed ==
  /\ pc \in {"find", "preclean", "make", "catch"}
  /\ outcome' = "killed"
  /\ Goto("close")
  /\ UNCHANGED <<table, uplink, orig, runs, host, before, stuck>>

Decode ==
  /\ pc = "make" /\ step = Len(Made(orig))
  /\ outcome' = "ok"
  /\ Goto("up")
  /\ UNCHANGED <<table, uplink, orig, runs, host, before, stuck>>

(* CombinedOutput is not the one JSON object: SetupClient returns no cleanup. *)
DecodeFail ==
  /\ pc = "make" /\ step = Len(Made(orig))
  /\ outcome' = "undecoded"
  /\ Goto("close")
  /\ UNCHANGED <<table, uplink, orig, runs, host, before, stuck>>

CleanUp ==
  /\ pc = "up"
  /\ Goto("cleanup")
  /\ UNCHANGED <<table, uplink, orig, runs, ghostVars>>

CleanUpStep == pc = "cleanup" /\ RemoveStep(Undone(orig))

(* The script has ended, or its ten seconds have. *)
CleanUpDone ==
  /\ pc = "cleanup"
  /\ stuck' = (stuck \/ \E i \in (step + 1)..Len(Undone(orig)) : Undone(orig)[i] \in table)
  /\ Goto("close")
  /\ UNCHANGED <<table, uplink, orig, runs, host, before, outcome>>

(* dev.Close. *)
CloseDevice ==
  /\ pc = "close"
  /\ table' = {e \in table : e.via # "tun"}
  /\ Goto("rest")
  /\ UNCHANGED <<uplink, orig, runs, ghostVars>>

(* External: the process is killed; the adapter goes with it. *)
Crash ==
  /\ pc # "rest"
  /\ table' = {e \in table : e.via # "tun"}
  /\ outcome' = "crashed"
  /\ Goto("rest")
  /\ UNCHANGED <<uplink, orig, runs, host, before, stuck>>

(* External: another default route is the best one now. *)
Roam ==
  /\ uplink' \in (Uplinks \cup {NoUplink}) \ {uplink}
  /\ UNCHANGED <<table, pc, orig, step, runs, ghostVars>>

Next ==
  \/ Start \/ FindRoute \/ FindRouteFail \/ PreClean \/ PreCleanDone
  \/ Make \/ MakeFail \/ Catch \/ CatchDone \/ Killed \/ Decode \/ DecodeFail
  \/ CleanUp \/ CleanUpStep \/ CleanUpDone \/ CloseDevice \/ Crash \/ Roam

Spec == Init /\ [][Next]_vars
-----------------------------------------------------------------------------
(* What a run that was killed, crashed or cut short left behind never makes  *)
(* a later run fail: no entry the script is about to make exists, unless one *)
(* of its own Remove statements has failed.  That is what the Remove         *)
(* statements at the head of the try are for (client_windows.go:39-41); only *)
(* routes to the server can be left over, as the others go with the TUN.     *)
NoConflict ==
  pc = "make" /\ step < Len(Made(orig)) /\ ~stuck => Made(orig)[step + 1] \notin table

(* The only trace a run can leave is a route to the server over an uplink,   *)
(* and only if a Remove did not work, the script was killed, its output was  *)
(* not understood or the process crashed; the catch block and the cleanup    *)
(* remove everything else in every other case (client_windows.go:55-62,79).  *)
(* A run that was set up and cleaned up leaves no such route over its own    *)
(* uplink, whatever earlier runs left there.                                 *)
OnlyServerRouteLeaks ==
  pc = "rest" =>
    /\ \A e \in table \ before :
         e.key = "server" /\ (stuck \/ outcome \in {"killed", "undecoded", "crashed"})
    /\ outcome = "ok" /\ ~stuck => Entry("server", orig) \notin table
=============================================================================
