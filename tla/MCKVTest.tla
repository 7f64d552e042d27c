------------------------------ MODULE MCKVTest ------------------------------
(* KVTest for TLC. *)
EXTENDS KVTest, TLC

CONSTANTS c1, c2, s1

MCClients == {c1, c2, Checker}
MCEntries == MCClients \X (0..3)
MCValues == MCEntries \cup SeqOf(MCEntries, 3)
MCMaxPuts == (c1 :> 2) @@ (c2 :> 1)
OneSlot == {s1}
=============================================================================
