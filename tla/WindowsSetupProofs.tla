------------------------- MODULE WindowsSetupProofs -------------------------
(***************************************************************************)
(* Proofs about WindowsSetup, for any uplinks, entries of the host and     *)
(* number of runs: nothing a run left behind makes a later one fail, and   *)
(* the only entry a run may leave behind is its route to the server.       *)
(***************************************************************************)
EXTENDS WindowsSetup, SequenceTheorems, TLAPS

(* The lists of entries the script works through. *)
LEMMA RemovedFacts ==
  ASSUME NEW u
  PROVE  Len(Removed(u)) = 7 /\ Removed(u)[1] = Entry("server", u)
BY DEF Removed, TunEntries

LEMMA UndoneFacts ==
  ASSUME NEW u
  PROVE  Len(Undone(u)) = 8 /\ Undone(u)[1] = Entry("server", u)
BY DEF Undone, Removed, TunEntries

LEMMA MadeLength == ASSUME NEW u PROVE Len(Made(u)) \in Nat
<1>1. CASE ~BlockIPv6 /\ ~DNS
  BY <1>1 DEF Made, TunEntries, Entry
<1>2. CASE BlockIPv6 /\ ~DNS
  BY <1>2 DEF Made, TunEntries, Entry
<1>3. CASE ~BlockIPv6 /\ DNS
  BY <1>3 DEF Made, TunEntries, Entry
<1>4. CASE BlockIPv6 /\ DNS
  BY <1>4 DEF Made, TunEntries, Entry
<1>5. QED
  BY <1>1, <1>2, <1>3, <1>4

LEMMA MadeEntries ==
  ASSUME NEW u, NEW i \in 1..Len(Made(u))
  PROVE  Made(u)[i].via = "tun" \/ Made(u)[i] = Entry("server", u)
<1>1. CASE ~BlockIPv6 /\ ~DNS
  BY <1>1 DEF Made, TunEntries, Entry
<1>2. CASE BlockIPv6 /\ ~DNS
  BY <1>2 DEF Made, TunEntries, Entry
<1>3. CASE ~BlockIPv6 /\ DNS
  BY <1>3 DEF Made, TunEntries, Entry
<1>4. CASE BlockIPv6 /\ DNS
  BY <1>4 DEF Made, TunEntries, Entry
<1>5. QED
  BY <1>1, <1>2, <1>3, <1>4

LEMMA MadeDiffer ==
  ASSUME NEW u, NEW i \in 1..Len(Made(u)), NEW j \in 1..Len(Made(u)), i < j
  PROVE  Made(u)[i].key # Made(u)[j].key
<1>1. CASE ~BlockIPv6 /\ ~DNS
  BY <1>1 DEF Made, TunEntries, Entry
<1>2. CASE BlockIPv6 /\ ~DNS
  BY <1>2 DEF Made, TunEntries, Entry
<1>3. CASE ~BlockIPv6 /\ DNS
  BY <1>3 DEF Made, TunEntries, Entry
<1>4. CASE BlockIPv6 /\ DNS
  BY <1>4 DEF Made, TunEntries, Entry
<1>5. QED
  BY <1>1, <1>2, <1>3, <1>4
-----------------------------------------------------------------------------
(* The inductive invariant.  The TUN is new when a run begins, so nothing    *)
(* leads to it before the first statement that makes an entry.               *)
TunIsNew ==
  /\ pc \in {"rest", "find", "preclean"} => \A e \in table : e.via # "tun"
  /\ pc \in {"find", "preclean"} => table \subseteq before

(* The first Remove of each list is that of the route to the server. *)
ServerRouteRemoved ==
  pc \in {"preclean", "catch", "cleanup"} /\ step >= 1 /\ ~stuck
    => Entry("server", orig) \notin table

(* What is still to be made does not exist. *)
StillToMake ==
  pc = "make" /\ ~stuck
    => \A i \in (step + 1)..Len(Made(orig)) : Made(orig)[i] \notin table

(* What this run added leads to the TUN, or is its route to the server. *)
OwnAdditions ==
  \A e \in table \ before : e.via = "tun" \/ e = Entry("server", orig)

(* What the end of a run knows of how it went. *)
Ending ==
  /\ pc \in {"up", "cleanup"} => outcome = "ok"
  /\ pc = "close" => outcome \in {"failed", "killed", "ok", "undecoded"}
  /\ pc = "close" /\ ~stuck /\ outcome = "failed" => Entry("server", orig) \notin table \ before
  /\ pc = "close" /\ ~stuck /\ outcome = "ok" => Entry("server", orig) \notin table

ScriptInv ==
  /\ step \in Nat /\ stuck \in BOOLEAN
  /\ TunIsNew /\ ServerRouteRemoved /\ StillToMake /\ OwnAdditions /\ Ending
  /\ OnlyServerRouteLeaks

LEMMA ScriptInit == Init => ScriptInv
<1> SUFFICES ASSUME Init PROVE ScriptInv
  OBVIOUS
<1>1. /\ step = 0 /\ stuck = FALSE /\ pc = "rest" /\ outcome = "none" /\ before = table
      /\ table \subseteq HostEntries
  BY DEF Init
<1>2. \A e \in table : e.via # "tun"
  BY <1>1, WindowsAssumption
<1>3. QED
  BY <1>1, <1>2 DEF ScriptInv, TunIsNew, ServerRouteRemoved, StillToMake, OwnAdditions, Ending,
     OnlyServerRouteLeaks

(* A Remove only takes entries away, and the first one takes the route to    *)
(* the server, or leaves it and is stuck.                                    *)
LEMMA RemoveStepKeeps ==
  ASSUME ScriptInv, NEW list, Len(list) \in Nat, list[1] = Entry("server", orig),
         pc \in {"preclean", "catch", "cleanup"}, RemoveStep(list)
  PROVE  ScriptInv'
<1>1. step' = step + 1 /\ step \in Nat /\ table' \subseteq table
      /\ pc' = pc /\ orig' = orig /\ before' = before /\ outcome' = outcome
  BY DEF ScriptInv, RemoveStep
<1>2. stuck' \in BOOLEAN /\ (~stuck' => ~stuck)
  <2>1. CASE UNCHANGED stuck
    BY <2>1 DEF ScriptInv
  <2>2. CASE stuck' = (stuck \/ list[step + 1] \in table)
    BY <2>2 DEF ScriptInv
  <2>3. QED
    BY <2>1, <2>2 DEF RemoveStep
<1>3. TunIsNew'
  BY <1>1 DEF ScriptInv, TunIsNew
<1>4. ServerRouteRemoved'
  <2>1. CASE step >= 1
    BY <1>1, <1>2, <2>1 DEF ScriptInv, ServerRouteRemoved
  <2>2. CASE step = 0
    <3>1. ~stuck' => list[step + 1] \notin table'
      BY DEF RemoveStep
    <3>2. list[step + 1] = Entry("server", orig)
      BY <2>2
    <3>3. QED
      BY <1>1, <3>1, <3>2 DEF ServerRouteRemoved, Entry
  <2>3. QED
    BY <1>1, <2>1, <2>2
<1>5. OwnAdditions'
  BY <1>1 DEF ScriptInv, OwnAdditions, Entry
<1>6. StillToMake' /\ Ending' /\ OnlyServerRouteLeaks'
  BY <1>1 DEF ScriptInv, StillToMake, Ending, OnlyServerRouteLeaks
<1>7. QED
  BY <1>1, <1>2, <1>3, <1>4, <1>5, <1>6 DEF ScriptInv

LEMMA ScriptNext == ScriptInv /\ [Next]_vars => ScriptInv'
<1> SUFFICES ASSUME ScriptInv, [Next]_vars PROVE ScriptInv'
  OBVIOUS
<1> USE DEF Goto
<1>1. CASE Start
  BY <1>1 DEF Start, ScriptInv, TunIsNew, ServerRouteRemoved, StillToMake, OwnAdditions, Ending,
     OnlyServerRouteLeaks
<1>2. CASE FindRoute
  BY <1>2 DEF FindRoute, ghostVars, ScriptInv, TunIsNew, ServerRouteRemoved, StillToMake,
     OwnAdditions, Ending, OnlyServerRouteLeaks
<1>3. CASE FindRouteFail
  BY <1>3 DEF FindRouteFail, ScriptInv, TunIsNew, ServerRouteRemoved, StillToMake, OwnAdditions,
     Ending, OnlyServerRouteLeaks, Entry
<1>4. CASE PreClean
  BY <1>4, RemovedFacts, RemoveStepKeeps DEF PreClean
<1>5. CASE PreCleanDone
  <2>1. step = 7 /\ pc = "preclean" /\ pc' = "make" /\ step' = 0
        /\ UNCHANGED <<table, orig, before, outcome, stuck>>
    BY <1>5, RemovedFacts DEF PreCleanDone, ghostVars
  <2>2. ~stuck => Entry("server", orig) \notin table
    BY <2>1 DEF ScriptInv, ServerRouteRemoved
  <2>3. \A e \in table : e.via # "tun"
    BY <2>1 DEF ScriptInv, TunIsNew
  <2>4. ~stuck => \A i \in 1..Len(Made(orig)) : Made(orig)[i] \notin table
    BY <2>2, <2>3, MadeEntries
  <2>5. StillToMake'
    BY <2>1, <2>4 DEF StillToMake
  <2>6. QED
    BY <2>1, <2>5 DEF ScriptInv, TunIsNew, ServerRouteRemoved, OwnAdditions, Ending,
       OnlyServerRouteLeaks, Entry
<1>6. CASE Make
  <2> DEFINE made == Made(orig)[step + 1]
  <2>1. /\ pc = "make" /\ pc' = "make" /\ step \in Nat /\ step' = step + 1
        /\ step < Len(Made(orig)) /\ table' = table \cup {made}
        /\ UNCHANGED <<orig, before, outcome, stuck>>
    BY <1>6 DEF Make, ghostVars, ScriptInv
  <2>2. Len(Made(orig)) \in Nat /\ step + 1 \in 1..Len(Made(orig))
    BY <2>1, MadeLength
  <2>3. StillToMake'
    <3>1. ASSUME ~stuck, NEW i \in (step + 2)..Len(Made(orig))
          PROVE  Made(orig)[i] \notin table /\ Made(orig)[i] # made
      <4>1. i \in (step + 1)..Len(Made(orig)) /\ i \in 1..Len(Made(orig)) /\ step + 1 < i
        BY <2>1, <2>2
      <4>2. QED
        BY <2>1, <2>2, <3>1, <4>1, MadeDiffer DEF ScriptInv, StillToMake
    <3>2. (step + 1) + 1 = step + 2
      BY <2>1
    <3>3. QED
      BY <2>1, <3>1, <3>2 DEF StillToMake
  <2>4. made.via = "tun" \/ made = Entry("server", orig)
    BY <2>2, MadeEntries
  <2>5. OwnAdditions'
    BY <2>1, <2>4 DEF ScriptInv, OwnAdditions, Entry
  <2>6. QED
    BY <2>1, <2>3, <2>5 DEF ScriptInv, TunIsNew, ServerRouteRemoved, Ending, OnlyServerRouteLeaks
<1>7. CASE MakeFail
  BY <1>7 DEF MakeFail, ghostVars, ScriptInv, TunIsNew, ServerRouteRemoved, StillToMake,
     OwnAdditions, Ending, OnlyServerRouteLeaks, Entry
<1>8. CASE Catch
  BY <1>8, UndoneFacts, RemoveStepKeeps DEF Catch
<1>9. CASE CatchDone
  <2>1. step = 8
    BY <1>9, UndoneFacts DEF CatchDone
  <2>2. QED
    BY <1>9, <2>1 DEF CatchDone, ScriptInv, TunIsNew, ServerRouteRemoved, StillToMake,
       OwnAdditions, Ending, OnlyServerRouteLeaks, Entry
<1>10. CASE Killed
  BY <1>10 DEF Killed, ScriptInv, TunIsNew, ServerRouteRemoved, StillToMake, OwnAdditions, Ending,
     OnlyServerRouteLeaks, Entry
<1>11. CASE Decode \/ DecodeFail
  BY <1>11 DEF Decode, DecodeFail, ScriptInv, TunIsNew, ServerRouteRemoved, StillToMake,
     OwnAdditions, Ending, OnlyServerRouteLeaks, Entry
<1>12. CASE CleanUp
  BY <1>12 DEF CleanUp, ghostVars, ScriptInv, TunIsNew, ServerRouteRemoved, StillToMake,
     OwnAdditions, Ending, OnlyServerRouteLeaks, Entry
<1>13. CASE CleanUpStep
  BY <1>13, UndoneFacts, RemoveStepKeeps DEF CleanUpStep
<1>14. CASE CleanUpDone
  <2>1. /\ pc = "cleanup" /\ pc' = "close" /\ step' = 0 /\ step \in Nat
        /\ UNCHANGED <<table, orig, before, outcome>> /\ outcome = "ok"
    BY <1>14 DEF CleanUpDone, ScriptInv, Ending
  <2>2. stuck' \in BOOLEAN /\ (~stuck' => ~stuck)
    BY <1>14 DEF CleanUpDone, ScriptInv
  <2>3. ~stuck' /\ step = 0 => Entry("server", orig) \notin table
    <3> SUFFICES ASSUME ~stuck', step = 0 PROVE Undone(orig)[1] \notin table
      BY UndoneFacts
    <3>1. ~(\E i \in (step + 1)..Len(Undone(orig)) : Undone(orig)[i] \in table)
      BY <1>14, Zenon DEF CleanUpDone
    <3>2. 1 \in (step + 1)..Len(Undone(orig))
      BY UndoneFacts
    <3>3. QED
      BY <3>1, <3>2
  <2>4. ~stuck' => Entry("server", orig) \notin table
    BY <2>1, <2>2, <2>3 DEF ScriptInv, ServerRouteRemoved
  <2>5. QED
    BY <2>1, <2>2, <2>4 DEF ScriptInv, TunIsNew, ServerRouteRemoved, StillToMake, OwnAdditions,
       Ending, OnlyServerRouteLeaks, Entry
<1>15. CASE CloseDevice
  <2>1. /\ pc = "close" /\ pc' = "rest" /\ step' = 0 /\ table' = {e \in table : e.via # "tun"}
        /\ UNCHANGED <<orig, before, outcome, stuck>>
    BY <1>15 DEF CloseDevice, ghostVars
  <2>2. \A e \in table' \ before' : e = Entry("server", orig) /\ e.key = "server"
    BY <2>1 DEF ScriptInv, OwnAdditions, Entry
  <2>3. OnlyServerRouteLeaks'
    BY <2>1, <2>2 DEF ScriptInv, Ending, OnlyServerRouteLeaks, Entry
  <2>4. QED
    BY <2>1, <2>3 DEF ScriptInv, TunIsNew, ServerRouteRemoved, StillToMake, OwnAdditions, Ending,
       Entry
<1>16. CASE Crash
  <2>1. /\ pc' = "rest" /\ step' = 0 /\ table' = {e \in table : e.via # "tun"}
        /\ outcome' = "crashed" /\ UNCHANGED <<orig, before, stuck>>
    BY <1>16 DEF Crash
  <2>2. \A e \in table' \ before' : e.key = "server"
    BY <2>1 DEF ScriptInv, OwnAdditions, Entry
  <2>3. QED
    BY <2>1, <2>2 DEF ScriptInv, TunIsNew, ServerRouteRemoved, StillToMake, OwnAdditions, Ending,
       OnlyServerRouteLeaks, Entry
<1>17. CASE Roam \/ UNCHANGED vars
  BY <1>17 DEF Roam, vars, ghostVars, ScriptInv, TunIsNew, ServerRouteRemoved, StillToMake,
     OwnAdditions, Ending, OnlyServerRouteLeaks, Entry
<1>18. QED
  BY <1>1, <1>2, <1>3, <1>4, <1>5, <1>6, <1>7, <1>8, <1>9, <1>10, <1>11, <1>12, <1>13, <1>14,
     <1>15, <1>16, <1>17 DEF Next

LEMMA ScriptInvariant == Spec => []ScriptInv
BY ScriptInit, ScriptNext, PTL DEF Spec

(* What a killed or crashed run left behind never makes a later one fail:    *)
(* no statement of the script meets the entry it is to make, whatever the    *)
(* uplinks, the entries of the host and the number of runs before.           *)
THEOREM NothingConflicts == Spec => []NoConflict
<1>1. ScriptInv => NoConflict
  <2> SUFFICES ASSUME ScriptInv, pc = "make", step < Len(Made(orig)), ~stuck
               PROVE  Made(orig)[step + 1] \notin table
    BY DEF NoConflict
  <2>1. step + 1 \in (step + 1)..Len(Made(orig))
    BY MadeLength DEF ScriptInv
  <2>2. QED
    BY <2>1 DEF ScriptInv, StillToMake
<1>2. QED
  BY <1>1, ScriptInvariant, PTL

(* A run leaves at most its route to the server, and that only when a Remove *)
(* did not work, or the script was killed, not understood or crashed.        *)
THEOREM OnlyServerRouteRemains == Spec => []OnlyServerRouteLeaks
<1>1. ScriptInv => OnlyServerRouteLeaks
  BY DEF ScriptInv
<1>2. QED
  BY <1>1, ScriptInvariant, PTL
==============================================================================
