----------------------------- MODULE ServerGrp -----------------------------
(***************************************************************************)
(* A group of servers of lab1/src/tester1 (group.go, srv.go, persister.go, *)
(* daemonclnt.go, daemonsrv.go) over the network of Network.  A server     *)
(* runs in a process of its own, the daemon; the tester starts it, cuts it *)
(* off and connects it again, shuts it down and starts its next            *)
(* incarnation from what the last one had persisted.                       *)
(*                                                                         *)
(* Life of a server, one step of StartServer or ShutdownServer each:       *)
(*                                                                         *)
(*   down   no daemon                                                      *)
(*   made   new client ends, no daemon yet                                 *)
(*   init   the daemon runs with the saved state                           *)
(*   up     the server is on the network                                   *)
(*   cut    shutting down: disconnected                                    *)
(*   off    not on the network any more                                    *)
(*   saved  the persister was copied to the tester; then the daemon is     *)
(*          killed                                                         *)
(*                                                                         *)
(* The tester runs one of its operations at a time.  A call only ever      *)
(* looks at its own end, so the Enable calls of one connect or disconnect  *)
(* are taken together.                                                     *)
(***************************************************************************)
EXTENDS Network

VARIABLES
  life, inst,   \* of each server
  connected,    \* ServerGrp.connected, as a set
  disk,         \* disk[i]: the Persister of i's daemon
  saved,        \* saved[i]: Server.saved, the tester's copy
  split,        \* a Partition in progress: one side, and who is to be moved
  apart         \* history: the pairs that were put in different partitions

grpVars == <<life, inst, connected, disk, saved, split, apart>>

Lives == {"down", "made", "init", "up", "cut", "off", "saved"}

\* What is persisted is represented by the calls it reflects.
Persister == [raftstate : SUBSET Nat, snapshot : SUBSET Nat]

MakePersister == [raftstate |-> {}, snapshot |-> {}]

GrpTypeOK ==
  /\ life \in [Servers -> Lives]
  /\ inst \in [Servers -> 0..MaxInst]
  /\ connected \subseteq Servers
  /\ disk \in [Servers -> Persister]
  /\ saved \in [Servers -> Persister]
  /\ split \in [side : SUBSET Servers, todo : SUBSET Servers]
  /\ apart \subseteq Servers \X Servers

NoSplit == [side |-> {}, todo |-> {}]

MakeSrvGrp ==
  /\ life = [i \in Servers |-> "down"]
  /\ inst = [i \in Servers |-> 0]
  /\ connected = {}
  /\ disk = [i \in Servers |-> MakePersister]
  /\ saved = [i \in Servers |-> MakePersister]
  /\ split = NoSplit
  /\ apart = {}

\* The tester is not in the middle of an operation.
Quiet ==
  /\ \A i \in Servers : life[i] \in {"down", "up"}
  /\ split.todo = {}

Go(i, l) == life' = [life EXCEPT ![i] = l]

-----------------------------------------------------------------------------
(* Connections between the servers. *)

\* The current ends from i to js and from js to i.
Between(i, js) ==
  {<<i, inst[i], j>> : j \in js} \cup {<<j, inst[j], i>> : j \in js}

\* Mutant of Connect: only the outgoing ends are enabled.
ConnectOut(w, i, to) ==
  LET c == w.connected \cup {i} IN
  [connected |-> c,
   enabled   |-> w.enabled \cup {<<i, inst[i], j>> : j \in to \cap c}]

\* connect(i, to): only servers that are connected get a connection.
Connect(w, i, to) ==
  LET c == w.connected \cup {i} IN
  [connected |-> c, enabled |-> w.enabled \cup Between(i, to \cap c)]

\* disconnect(i, from)
Disconnect(w, i, from) ==
  [connected |-> w.connected \ {i}, enabled |-> w.enabled \ Between(i, from)]

Wired == [connected |-> connected, enabled |-> enabled]

SetWires(w) == connected' = w.connected /\ enabled' = w.enabled

\* StartServers connects every server, also one that could not be started.
ConnectOne(i) ==
  /\ Quiet
  /\ SetWires(Connect(Wired, i, Servers))
  /\ apart' = {p \in apart : i \notin {p[1], p[2]}}
  /\ UNCHANGED <<servers, req, late, calls, acked, life, inst, disk,
                 saved, split>>

DisconnectAll(i) ==
  /\ Quiet
  /\ SetWires(Disconnect(Wired, i, Servers))
  /\ UNCHANGED <<servers, req, late, calls, acked,
                 life, inst, disk, saved, split, apart>>

\* Partition(p, the rest)
Partition(p) ==
  /\ Quiet
  /\ split' = [side |-> p, todo |-> Servers]
  /\ UNCHANGED <<netVars, life, inst, connected, disk, saved, apart>>

\* One round of its loops: server i leaves the others and joins its own
\* side.  The servers of the first side come first.
Regroup(i) ==
  LET own    == IF i \in split.side THEN split.side ELSE Servers \ split.side
      others == Servers \ own
  IN
  /\ i \in split.todo
  /\ i \notin split.side => split.todo \cap split.side = {}
  /\ SetWires(Connect(Disconnect(Wired, i, others), i, own))
  /\ split' = IF split.todo = {i} THEN NoSplit
                                  ELSE [split EXCEPT !.todo = @ \ {i}]
  /\ apart' = {p \in apart : i \notin {p[1], p[2]}} \cup
              ({i} \X others) \cup (others \X {i})
  /\ UNCHANGED <<servers, req, late, calls, acked, life, inst, disk, saved>>

-----------------------------------------------------------------------------
(* StartServer and ShutdownServer. *)

\* startServer: a fresh set of ends, and the saved state carried over.  "If
\* restart servers, first call shutdownserver": it is not connected.
StartServer(i) ==
  /\ Quiet
  /\ life[i] = "down"
  /\ i \notin connected
  /\ inst[i] < MaxInst
  /\ inst' = [inst EXCEPT ![i] = @ + 1]
  /\ Go(i, "made")
  /\ UNCHANGED <<netVars, connected, disk, saved, split, apart>>

\* runDaemon, dc.init and dc.waitInit.
RunDaemon(i) ==
  /\ life[i] = "made"
  /\ disk' = [disk EXCEPT ![i] = saved[i]]
  /\ Go(i, "init")
  /\ UNCHANGED <<netVars, inst, connected, saved, split, apart>>

\* The process cannot be started: StartServer returns an error.
RunDaemonFails(i) ==
  /\ life[i] = "made"
  /\ Go(i, "down")
  /\ UNCHANGED <<netVars, inst, connected, disk, saved, split, apart>>

AddServer(i) ==
  /\ life[i] = "init"
  /\ servers' = [servers EXCEPT ![i] = inst[i]]
  /\ Go(i, "up")
  /\ UNCHANGED <<enabled, req, late, calls, acked,
                 inst, connected, disk, saved, split, apart>>

\* Without a daemon there is nothing to do but to disconnect.
ShutdownServer(i) ==
  /\ Quiet
  /\ SetWires(Disconnect(Wired, i, Servers))
  /\ Go(i, IF life[i] = "up" THEN "cut" ELSE "down")
  /\ UNCHANGED <<servers, req, late, calls, acked,
                 inst, disk, saved, split, apart>>

DeleteServer(i) ==
  /\ life[i] = "cut"
  /\ servers' = [servers EXCEPT ![i] = 0]
  /\ Go(i, "off")
  /\ UNCHANGED <<enabled, req, late, calls, acked,
                 inst, connected, disk, saved, split, apart>>

\* Mutant of CheckpointPersister: the snapshot of the last copy is kept.
CheckpointOldSnapshot(i) ==
  /\ life[i] = "off"
  /\ saved' = [saved EXCEPT ![i].raftstate = disk[i].raftstate]
  /\ Go(i, "saved")
  /\ UNCHANGED <<netVars, inst, connected, disk, split, apart>>

\* CheckpointPersister in the daemon: it makes no more calls, and its
\* persister is copied.  Only the listener is closed: requests that come
\* over existing connections are still served.
CheckpointPersister(i) ==
  /\ life[i] = "off"
  /\ saved' = [saved EXCEPT ![i] = disk[i]]
  /\ Go(i, "saved")
  /\ UNCHANGED <<netVars, inst, connected, disk, split, apart>>

\* The daemon is killed.  The handlers that it was running are gone, and so
\* is whoever waits for its own call; a handler that runs for this call at
\* another server is left behind.
Kill(i) ==
  /\ life[i] = "saved"
  /\ late' = {h \in late : h.server # i} \cup
             (IF req[i].st = "running" /\ Target(i) # i THEN {Left(i)} ELSE {})
  /\ req' = [req EXCEPT ![i] = NoRequest]
  /\ disk' = [disk EXCEPT ![i] = MakePersister]
  /\ Go(i, "down")
  /\ UNCHANGED <<enabled, servers, calls, acked,
                 inst, connected, saved, split, apart>>

-----------------------------------------------------------------------------
(* The daemons: a service saves what a call does before it answers. *)

DaemonRuns(i, n) ==
  inst[i] = n /\ life[i] \in {"init", "up", "cut", "off", "saved"}

\* Persister.Save: both parts at once.
Save(i, id) ==
  disk' = [disk EXCEPT ![i] = [raftstate |-> disk[i].raftstate \cup {id},
                               snapshot  |-> disk[i].snapshot \cup {id}]]

\* A call by a daemon goes through the tester into the network.
DaemonCall(i, j) ==
  /\ life[i] \in {"init", "up", "cut", "off"}
  /\ Send(i, <<i, inst[i], j>>)
  /\ UNCHANGED <<enabled, grpVars>>

RunHandler(x) ==
  /\ req[x].st = "running"
  /\ DaemonRuns(Target(x), req[x].inst)
  /\ Save(Target(x), req[x].id)
  /\ SetReq(x, "executed", req[x].inst, TRUE)
  /\ UNCHANGED <<enabled, servers, late, calls, acked,
                 life, inst, connected, saved, split, apart>>

\* The reply comes back from the daemon.
DaemonReplies(x) ==
  /\ req[x].st = "executed"
  /\ SetReq(x, "answered", req[x].inst, TRUE)
  /\ UNCHANGED <<enabled, servers, late, calls, acked, grpVars>>

\* The daemon was killed: forward returns false.
ForwardFails(x) ==
  /\ req[x].st \in {"running", "executed"}
  /\ ~DaemonRuns(Target(x), req[x].inst)
  /\ SetReq(x, "answered", req[x].inst, FALSE)
  /\ UNCHANGED <<enabled, servers, late, calls, acked, grpVars>>

\* A handler that nobody waits for.
RunLate(h) ==
  /\ DaemonRuns(h.server, h.inst)
  /\ Save(h.server, h.id)
  /\ late' = late \ {h}
  /\ UNCHANGED <<enabled, servers, req, calls, acked,
                 life, inst, connected, saved, split, apart>>

=============================================================================
