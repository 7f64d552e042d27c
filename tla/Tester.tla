------------------------------- MODULE Tester -------------------------------
(***************************************************************************)
(* A test of lab1/src/tester1: clients (clnts.go) that call the servers of *)
(* a group (ServerGrp) through the network (Network), while the tester     *)
(* connects, partitions, shuts down and restarts them.                     *)
(*                                                                         *)
(* A Clnt makes the end to a server when it first calls it.  srvs[c] is    *)
(* the set of servers it may connect to; nil, in the code, allows all and  *)
(* is the set of all servers here.                                         *)
(***************************************************************************)
EXTENDS ServerGrp

VARIABLES
  clnts,   \* the clients that exist
  ends,    \* ends[c]: servers for which c has made an end
  srvs     \* srvs[c]

clntVars == <<clnts, ends, srvs>>
vars == <<netVars, grpVars, clntVars>>

TypeOK ==
  /\ NetTypeOK
  /\ GrpTypeOK
  /\ clnts \subseteq Clients
  /\ ends \in [Clients -> SUBSET Servers]
  /\ srvs \in [Clients -> SUBSET Servers]

Init ==
  /\ MakeNetwork
  /\ MakeSrvGrp
  /\ clnts = {}
  /\ ends = [c \in Clients |-> {}]
  /\ srvs = [c \in Clients |-> {}]

-----------------------------------------------------------------------------
(* Clients. *)

EndTo(c, i) == <<c, 0, i>>

EndsOf(c) == {EndTo(c, i) : i \in ends[c]}

Rest == <<servers, req, late, calls, acked, grpVars>>

MakeClientTo(c, to) ==
  /\ c \notin clnts
  /\ clnts' = clnts \cup {c}
  /\ srvs' = [srvs EXCEPT ![c] = to]
  /\ UNCHANGED <<enabled, Rest, ends>>

\* Mutant of MakeEnd: a new end is always enabled.
MakeEndEnabled(c, i) ==
  /\ enabled' = IF i \in ends[c] THEN enabled ELSE enabled \cup {EndTo(c, i)}
  /\ ends' = [ends EXCEPT ![c] = @ \cup {i}]

\* The end to server i, made if this is the first call.
MakeEnd(c, i) ==
  /\ enabled' = IF i \in srvs[c] \ ends[c] THEN enabled \cup {EndTo(c, i)}
                                           ELSE enabled
  /\ ends' = [ends EXCEPT ![c] = @ \cup {i}]

ClntCall(c, i) ==
  /\ c \in clnts
  /\ MakeEnd(c, i)
  /\ Send(c, EndTo(c, i))
  /\ UNCHANGED <<grpVars, clnts, srvs>>

ClntConnectAll(c) ==
  /\ c \in clnts
  /\ enabled' = enabled \cup EndsOf(c)
  /\ srvs' = [srvs EXCEPT ![c] = Servers]
  /\ UNCHANGED <<Rest, clnts, ends>>

\* Ends to other servers are left as they are.  The callers name a server;
\* with an empty list the client would keep the ends it has.
ClntConnectTo(c, to) ==
  /\ c \in clnts
  /\ enabled' = enabled \cup {EndTo(c, i) : i \in ends[c] \cap to}
  /\ srvs' = [srvs EXCEPT ![c] = to]
  /\ UNCHANGED <<Rest, clnts, ends>>

ClntDisconnect(c, i) ==
  /\ c \in clnts
  /\ enabled' = enabled \ {EndTo(c, i)}
  /\ UNCHANGED <<Rest, clntVars>>

ClntDisconnectAll(c) ==
  /\ c \in clnts
  /\ enabled' = enabled \ EndsOf(c)
  /\ srvs' = [srvs EXCEPT ![c] = {}]
  /\ UNCHANGED <<Rest, clnts, ends>>

\* A client is deleted when its function has returned.
DeleteClient(c) ==
  /\ c \in clnts
  /\ req[c].st = "idle"
  /\ clnts' = clnts \ {c}
  /\ enabled' = enabled \ EndsOf(c)
  /\ ends' = [ends EXCEPT ![c] = {}]
  /\ srvs' = [srvs EXCEPT ![c] = {}]
  /\ UNCHANGED Rest

-----------------------------------------------------------------------------
ClntStep(c) ==
  \/ \E to \in SUBSET Servers : MakeClientTo(c, to)
  \/ \E i \in Servers : ClntCall(c, i)
  \/ ClntConnectAll(c)
  \/ \E to \in (SUBSET Servers) \ {{}} : ClntConnectTo(c, to)
  \/ \E i \in Servers : ClntDisconnect(c, i)
  \/ ClntDisconnectAll(c)
  \/ DeleteClient(c)

StartStep(i) ==
  \/ RunDaemon(i)
  \/ RunDaemonFails(i)
  \/ AddServer(i)

ShutdownStep(i) ==
  \/ DeleteServer(i)
  \/ CheckpointPersister(i)
  \/ Kill(i)

GrpStep ==
  \/ \E i \in Servers :
       \/ StartServer(i)
       \/ ShutdownServer(i)
       \/ StartStep(i)
       \/ ShutdownStep(i)
       \/ ConnectOne(i)
       \/ DisconnectAll(i)
       \/ Regroup(i)
       \/ \E j \in Servers \ {i} : DaemonCall(i, j)
  \/ \E p \in SUBSET Servers : Partition(p)
  \/ \E h \in late : RunLate(h)

\* The progress of a call that the network and the daemon's socket make.
NetStep(x) ==
  \/ /\ \/ StartHandler(x)
        \/ LoseRequest(x)
        \/ GiveUp(x)
        \/ Accept(x)
        \/ LoseReply(x)
        \/ Deliver(x)
     /\ UNCHANGED grpVars
  \/ DaemonReplies(x)
  \/ ForwardFails(x)

CallStep(x) == NetStep(x) \/ RunHandler(x)

Next ==
  \/ \E c \in Clients : ClntStep(c)
  \/ GrpStep /\ UNCHANGED clntVars
  \/ \E x \in Callers : CallStep(x) /\ UNCHANGED clntVars

Spec == Init /\ [][Next]_vars

(***************************************************************************)
(* Fairness: the goroutines of the network and the processes keep running, *)
(* and the tester ends what it has begun.  A handler is sure to finish     *)
(* only at a server that can be reached: one that has been cut off for     *)
(* good may wait for ever, for the other servers for example.              *)
(***************************************************************************)
SureStep(x) == NetStep(x) \/ (~IsServerDead(x) /\ RunHandler(x))

Fairness ==
  /\ \A x \in Callers : WF_vars(SureStep(x) /\ UNCHANGED clntVars)
  /\ \A i \in Servers :
       WF_vars((StartStep(i) \/ ShutdownStep(i)) /\ UNCHANGED clntVars)

FairSpec == Spec /\ Fairness

-----------------------------------------------------------------------------
(* Properties. *)

Holds(p, id) == id \in p.raftstate /\ id \in p.snapshot

\* The call is in the state that survives: until the checkpoint that of the
\* daemon, from then on the tester's copy.
Durable(i, id) ==
  /\ life[i] \in {"init", "up", "cut", "off"} => Holds(disk[i], id)
  /\ life[i] \in {"saved", "down", "made"} => Holds(saved[i], id)

\* A call that returned true is in what the next incarnation of its server
\* starts from ("avoid situation in which a client gets a positive reply to
\* an Append, but the server persisted the update into the old Persister",
\* processReq), whatever was shut down, restarted or delayed meanwhile.
AckedIsDurable == \A a \in acked : Durable(a.server, a.id)

\* The state and the snapshot a daemon is started with belong together
\* (Persister.Save: "to help avoid them getting out of sync").
SnapshotInSync ==
  \A i \in Servers : saved[i].raftstate = saved[i].snapshot

\* Two servers can call each other in both directions, if both are connected
\* and no partition separates them, and otherwise in neither.
ConnectedAsAsked ==
  \A i, j \in Servers :
    <<i, inst[i], j>> \in enabled
      <=> {i, j} \subseteq connected /\ <<i, j>> \notin apart

\* "if len(srvs) = 0, client cannot connect to any servers" (Clnt).
CutOffClient ==
  \A c \in clnts, i \in Servers : srvs[c] = {} => EndTo(c, i) \notin enabled

\* Every call returns, true or false, although its server may be cut off,
\* deleted, killed or replaced at any time and its handler may then hang: its
\* caller is idle again and again ("periodically check if the server has been
\* killed and the RPC should get a failure reply", processReq).
EveryCallReturns ==
  \A x \in Callers : []<>(req[x].st = "idle")

-----------------------------------------------------------------------------
(* The inductive invariants behind the safety properties. *)

\* Only the current incarnation is on the network, before its checkpoint.
OnNetwork ==
  \A i \in Servers :
    servers[i] # 0 => servers[i] = inst[i] /\ life[i] \in {"up", "cut"}

\* Handlers were started at incarnations that exist or have existed, and not
\* at one that is still being started.
InstKnown ==
  \A x \in Callers :
    req[x].st \notin {"idle", "sent"} =>
      /\ req[x].inst <= inst[Target(x)]
      /\ life[Target(x)] \in {"made", "init"} => req[x].inst # inst[Target(x)]

\* What has been carried out is in the persister of the daemon that did it.
ExecutedIsSaved ==
  \A x \in Callers :
    /\ req[x].st = "executed" \/ (req[x].st = "answered" /\ req[x].ok)
    /\ DaemonRuns(Target(x), req[x].inst)
    => Holds(disk[Target(x)], req[x].id)

DeliveringIsDurable ==
  \A x \in Callers :
    req[x].st = "delivering" /\ req[x].ok => Durable(Target(x), req[x].id)

DurableInv ==
  /\ OnNetwork
  /\ InstKnown
  /\ ExecutedIsSaved
  /\ DeliveringIsDurable
  /\ AckedIsDurable

InSync(p) == p.raftstate = p.snapshot

SyncInv == \A i \in Servers : InSync(disk[i]) /\ InSync(saved[i])

\* No end of an incarnation to come is enabled.
WiresInv ==
  /\ \A i, j \in Servers, n \in 0..MaxInst :
       <<i, n, j>> \in enabled => n <= inst[i]
  /\ ConnectedAsAsked

\* A client has made every end of it that is enabled.
ClntInv ==
  /\ \A c \in Clients, i \in Servers :
       EndTo(c, i) \in enabled => i \in ends[c]
  /\ \A c \in Clients : c \notin clnts => ends[c] = {}
  /\ CutOffClient

=============================================================================
