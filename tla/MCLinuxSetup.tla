---------------------------- MODULE MCLinuxSetup ----------------------------
(* Instances of LinuxSetup: two uplinks; the host may have a route to the   *)
(* server over one of them, which need not be the one it starts on, and the *)
(* lower half of another VPN.                                               *)
EXTENDS LinuxSetup

CONSTANTS u1, u2, none

MCUplinks == {u1, u2}

MCHostEntries == {Entry("server", u1), Entry("low", u1)}
=============================================================================
