----------------------------- MODULE MCKVSystem -----------------------------
(* KVSystem and its refinement for TLC: operations are named by client and *)
(* number; clients and the slots of late handlers are interchangeable.     *)
EXTENDS KVRefinement, TLC

CONSTANTS c1, c2, s1, s2

MCClients == {c1, c2}
MCIds == MCClients \X (1..MaxOps)
OneSlot == {s1}
TwoSlots == {s1, s2}
Symmetry == Permutations({c1, c2}) \cup Permutations({s1, s2})
=============================================================================
