------------------------------- MODULE MCLock -------------------------------
(* Lock for TLC: two clients of one lock.                                  *)
EXTENDS Lock, TLC

CONSTANTS c1, c2

TwoClients == {c1, c2}
OneLock == [c \in Clients |-> "l"]
NoSlots == {}
OneSlot == {"s"}
=============================================================================
