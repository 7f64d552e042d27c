---------------------------- MODULE MCRaftTest ----------------------------
(* RaftTest for TLC.                                                       *)
EXTENDS RaftTest, TLC

CONSTANTS s1, s2, x, y

TwoServers == {s1, s2}
TwoCommands == {x, y}
XYX == <<x, y, x>>
XY == <<x, y>>
OneCallsXY == {<<x, 2>>, <<y, 1>>}
WaitForTwo == {<<2, 1>>}
None == {}
=============================================================================
