--------------------------- MODULE MCWindowsSetup ---------------------------
(* Instances of WindowsSetup: two uplinks, over either of which the host    *)
(* may have a route to the server of its own.                               *)
EXTENDS WindowsSetup

CONSTANTS u1, u2, none

MCUplinks == {u1, u2}

MCHostEntries == {Entry("server", u1), Entry("server", u2)}
=============================================================================
