----------------------------- MODULE MCTester -----------------------------
(* Tester for TLC: a group of two servers and one client.                  *)
EXTENDS Tester, TLC

CONSTANTS s1, s2, c1

TwoServers == {s1, s2}
OneClient == {c1}
=============================================================================
