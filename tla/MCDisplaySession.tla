-------------------------- MODULE MCDisplaySession --------------------------
(* Instances of DisplaySession for TLC.                                    *)
EXTENDS DisplaySession, TLC

CONSTANTS p1, p2, m1, m2

TwoProcs == {p1, p2}
TwoMonitors == {m1, m2}
OneMonitor == {m1}

CarefulCommands == Careful
RescueCommands == {"start", "stop", "rescue"}

Symmetric == Permutations(TwoProcs) \union Permutations(TwoMonitors)
=============================================================================
