---------------------------- MODULE TesterProofs ----------------------------
(***************************************************************************)
(* Proofs about Tester: types, durability of acknowledged calls, the two   *)
(* parts of a persister in step, connections as asked for, and clients     *)
(* that are cut off.                                                       *)
(***************************************************************************)
EXTENDS Tester, TLAPS

-----------------------------------------------------------------------------
(* Requests. *)

\* SetReq changes the state and the answer of one request.
LEMMA SetReqEffect ==
  ASSUME NetTypeOK, NEW x \in Callers, NEW s \in States,
         NEW n \in 0..MaxInst, NEW ok \in BOOLEAN,
         SetReq(x, s, n, ok)
  PROVE  /\ req' \in [Callers -> Requests]
         /\ \A y \in Callers \ {x} : req'[y] = req[y]
         /\ req'[x].st = s
         /\ req'[x].ok = ok
         /\ req'[x].end = req[x].end
         /\ req'[x].inst = n
         /\ req'[x].id = req[x].id
BY DEF NetTypeOK, SetReq, Requests

\* The server that a request goes to.
LEMMA TargetType ==
  ASSUME NetTypeOK, NEW x \in Callers, req[x].st # "idle"
  PROVE  Target(x) \in Servers
BY DEF NetTypeOK, Target, Ends, Requests

\* SetReq keeps the types of the network.
LEMMA SetReqType ==
  ASSUME NetTypeOK, NEW x \in Callers, NEW s \in States \ {"sent"},
         NEW n \in (0..MaxInst) \ {0}, NEW ok \in BOOLEAN,
         req[x].st # "idle", SetReq(x, s, n, ok)
  PROVE  /\ req' \in [Callers -> Requests]
         /\ \A y \in Callers :
              /\ req'[y].st # "idle" => req'[y].end \in Ends
              /\ req'[y].st \notin {"idle", "sent"} => req'[y].inst # 0
<1>1. s \in States /\ n \in 0..MaxInst
  OBVIOUS
<1>2. /\ req' \in [Callers -> Requests]
      /\ \A y \in Callers \ {x} : req'[y] = req[y]
      /\ req'[x].end = req[x].end
      /\ req'[x].inst = n
  BY <1>1, SetReqEffect
<1> QED
  BY <1>2 DEF NetTypeOK

\* A call that returns keeps the types of the network.
LEMMA FinishType ==
  ASSUME NetTypeOK, NEW x \in Callers, NEW ok \in BOOLEAN,
         req[x].st # "idle", Finish(x, ok)
  PROVE  /\ req' \in [Callers -> Requests]
         /\ \A y \in Callers :
              /\ req'[y].st # "idle" => req'[y].end \in Ends
              /\ req'[y].st \notin {"idle", "sent"} => req'[y].inst # 0
         /\ acked' \subseteq [server : Servers, id : 0..MaxCalls]
<1>1. Target(x) \in Servers /\ req[x].id \in 0..MaxCalls
  BY TargetType DEF NetTypeOK, Requests
<1>2. NoRequest \in Requests /\ NoRequest.st = "idle"
  BY NetworkAssumption DEF NoRequest, Requests, States
<1>3. /\ req' \in [Callers -> Requests]
      /\ \A y \in Callers \ {x} : req'[y] = req[y]
      /\ req'[x].st = "idle"
  BY <1>2 DEF Finish, NetTypeOK
<1>4. acked' \subseteq [server : Servers, id : 0..MaxCalls]
  BY <1>1 DEF Finish, NetTypeOK
<1> QED
  BY <1>3, <1>4 DEF NetTypeOK

\* A new call keeps the types of the network.
LEMMA SendType ==
  ASSUME NetTypeOK, NEW x \in Callers, NEW e \in Ends, Send(x, e),
         enabled' \subseteq Ends
  PROVE  NetTypeOK'
<1> DEFINE r == [st |-> "sent", end |-> e, inst |-> 0, id |-> calls + 1,
                 ok |-> FALSE]
<1>1. r \in Requests /\ calls' \in 0..MaxCalls
  BY NetworkAssumption DEF Send, NetTypeOK, Requests, States
<1>2. /\ req' \in [Callers -> Requests]
      /\ \A y \in Callers \ {x} : req'[y] = req[y]
      /\ req'[x] = r
  BY <1>1 DEF Send, NetTypeOK
<1> QED
  BY <1>1, <1>2 DEF Send, NetTypeOK

-----------------------------------------------------------------------------
(* Types. *)

\* connect and disconnect only touch ends and servers that exist.
LEMMA WiresType ==
  ASSUME GrpTypeOK, NEW w, w.connected \subseteq Servers,
         w.enabled \subseteq Ends, NEW i \in Servers, NEW js \in SUBSET Servers
  PROVE  /\ Connect(w, i, js).connected \subseteq Servers
         /\ Connect(w, i, js).enabled \subseteq Ends
         /\ Disconnect(w, i, js).connected \subseteq Servers
         /\ Disconnect(w, i, js).enabled \subseteq Ends
<1>1. \A c : Between(i, js \cap c) \subseteq Ends
  BY DEF GrpTypeOK, Between, Ends, Callers
<1> QED
  BY <1>1 DEF Connect, Disconnect

\* A handler that is left behind has the right type.
LEMMA LeftType ==
  ASSUME NetTypeOK, NEW x \in Callers, req[x].st = "running"
  PROVE  Left(x) \in Handlers
BY TargetType DEF NetTypeOK, Left, Handlers, Requests

\* Saving keeps the type of the persisters.
LEMMA SaveType ==
  ASSUME GrpTypeOK, NEW i \in Servers, NEW id \in Nat, Save(i, id)
  PROVE  disk' \in [Servers -> Persister]
BY DEF GrpTypeOK, Save, Persister

\* The steps of a client keep the types.
LEMMA ClntStepType ==
  ASSUME TypeOK, NEW c \in Clients, ClntStep(c)
  PROVE  TypeOK'
<1> USE DEF TypeOK
<1>e. ASSUME NEW i \in Servers
      PROVE  EndTo(c, i) \in Ends
  BY NetworkAssumption DEF EndTo, Ends, Callers
<1>f. EndsOf(c) \subseteq Ends
  BY <1>e DEF EndsOf
<1>r. ASSUME Rest' = Rest, enabled' \subseteq Ends
      PROVE  NetTypeOK' /\ GrpTypeOK'
  BY <1>r DEF Rest, grpVars, NetTypeOK, GrpTypeOK
<1>n. enabled \subseteq Ends
  BY DEF NetTypeOK
<1>1. CASE \E to \in SUBSET Servers : MakeClientTo(c, to)
  <2>1. PICK to \in SUBSET Servers : MakeClientTo(c, to)
    BY <1>1
  <2>2. NetTypeOK' /\ GrpTypeOK'
    BY <2>1, <1>r, <1>n DEF MakeClientTo
  <2> QED
    BY <2>1, <2>2 DEF MakeClientTo
<1>2. CASE \E i \in Servers : ClntCall(c, i)
  <2>1. PICK i \in Servers : ClntCall(c, i)
    BY <1>2
  <2>2. /\ enabled' \subseteq Ends
        /\ ends' \in [Clients -> SUBSET Servers]
    BY <2>1, <1>e, <1>n DEF ClntCall, MakeEnd
  <2>3. NetTypeOK'
    BY <2>1, <2>2, <1>e, SendType DEF ClntCall, Callers
  <2>4. GrpTypeOK'
    BY <2>1 DEF ClntCall, grpVars, GrpTypeOK
  <2> QED
    BY <2>1, <2>2, <2>3, <2>4 DEF ClntCall
<1>3. CASE ClntConnectAll(c)
  <2>1. NetTypeOK' /\ GrpTypeOK'
    BY <1>3, <1>f, <1>r, <1>n DEF ClntConnectAll
  <2> QED
    BY <1>3, <2>1 DEF ClntConnectAll
<1>4. CASE \E to \in (SUBSET Servers) \ {{}} : ClntConnectTo(c, to)
  <2>1. PICK to \in SUBSET Servers : ClntConnectTo(c, to)
    BY <1>4
  <2>2. {EndTo(c, i) : i \in ends[c] \cap to} \subseteq Ends
    BY <1>e
  <2>3. NetTypeOK' /\ GrpTypeOK'
    BY <2>1, <2>2, <1>r, <1>n DEF ClntConnectTo
  <2> QED
    BY <2>1, <2>3 DEF ClntConnectTo
<1>5. CASE \E i \in Servers : ClntDisconnect(c, i)
  <2>1. PICK i \in Servers : ClntDisconnect(c, i)
    BY <1>5
  <2>2. NetTypeOK' /\ GrpTypeOK'
    BY <2>1, <1>r, <1>n DEF ClntDisconnect
  <2> QED
    BY <2>1, <2>2 DEF ClntDisconnect, clntVars
<1>6. CASE ClntDisconnectAll(c)
  <2>1. NetTypeOK' /\ GrpTypeOK'
    BY <1>6, <1>r, <1>n DEF ClntDisconnectAll
  <2> QED
    BY <1>6, <2>1 DEF ClntDisconnectAll
<1>7. CASE DeleteClient(c)
  <2>1. NetTypeOK' /\ GrpTypeOK'
    BY <1>7, <1>r, <1>n DEF DeleteClient
  <2> QED
    BY <1>7, <2>1 DEF DeleteClient
<1> QED
  BY <1>1, <1>2, <1>3, <1>4, <1>5, <1>6, <1>7 DEF ClntStep

\* The progress of a call keeps the types.
LEMMA CallStepType ==
  ASSUME TypeOK, NEW x \in Callers, CallStep(x), UNCHANGED clntVars
  PROVE  TypeOK'
<1> USE DEF TypeOK
<1>s. /\ {"running", "executed", "answered", "delivering"}
            \subseteq States \ {"sent"}
  BY DEF States
<1>r. /\ req[x].inst \in 0..MaxInst
      /\ req[x].ok \in BOOLEAN
      /\ req[x].st \notin {"idle", "sent"} => req[x].inst # 0
      /\ req[x].st # "idle" => Target(x) \in Servers
      /\ req[x].id \in 0..MaxCalls
      /\ req[x].id \in Nat
  BY TargetType, NetworkAssumption DEF NetTypeOK, Requests
<1>g. ASSUME UNCHANGED grpVars, NetTypeOK'
      PROVE  TypeOK'
  BY <1>g DEF grpVars, GrpTypeOK, clntVars
<1>1. CASE StartHandler(x) /\ UNCHANGED grpVars
  <2>1. servers[Target(x)] \in (0..MaxInst) \ {0} /\ req[x].st # "idle"
    BY <1>1, <1>r DEF StartHandler, Routable, NetTypeOK
  <2>2. NetTypeOK'
    BY <1>1, <2>1, <1>s, SetReqType DEF StartHandler, NetTypeOK
  <2> QED
    BY <1>1, <2>2, <1>g
<1>2. CASE LoseRequest(x) /\ UNCHANGED grpVars
  <2>1. NetTypeOK'
    BY <1>2, FinishType DEF LoseRequest, NetTypeOK
  <2> QED
    BY <1>2, <2>1, <1>g
<1>3. CASE GiveUp(x) /\ UNCHANGED grpVars
  <2>1. late' \subseteq Handlers
    BY <1>3, LeftType DEF GiveUp, NetTypeOK
  <2>2. NetTypeOK'
    BY <1>3, <2>1, FinishType DEF GiveUp, NetTypeOK
  <2> QED
    BY <1>3, <2>2, <1>g
<1>4. CASE Accept(x) /\ UNCHANGED grpVars
  <2>1. NetTypeOK'
    BY <1>4, <1>r, <1>s, SetReqType DEF Accept, NetTypeOK
  <2> QED
    BY <1>4, <2>1, <1>g
<1>5. CASE LoseReply(x) /\ UNCHANGED grpVars
  <2>1. NetTypeOK'
    BY <1>5, FinishType DEF LoseReply, NetTypeOK
  <2> QED
    BY <1>5, <2>1, <1>g
<1>6. CASE Deliver(x) /\ UNCHANGED grpVars
  <2>1. NetTypeOK'
    BY <1>6, <1>r, FinishType DEF Deliver, NetTypeOK
  <2> QED
    BY <1>6, <2>1, <1>g
<1>7. CASE RunHandler(x)
  <2>1. NetTypeOK'
    BY <1>7, <1>r, <1>s, SetReqType DEF RunHandler, NetTypeOK
  <2>2. disk' \in [Servers -> Persister]
    BY <1>7, <1>r, SaveType DEF RunHandler
  <2> QED
    BY <1>7, <2>1, <2>2 DEF RunHandler, GrpTypeOK, clntVars
<1>8. CASE DaemonReplies(x)
  <2>1. NetTypeOK'
    BY <1>8, <1>r, <1>s, SetReqType DEF DaemonReplies, NetTypeOK
  <2> QED
    BY <1>8, <2>1, <1>g DEF DaemonReplies
<1>9. CASE ForwardFails(x)
  <2>1. NetTypeOK'
    BY <1>9, <1>r, <1>s, SetReqType DEF ForwardFails, NetTypeOK
  <2> QED
    BY <1>9, <2>1, <1>g DEF ForwardFails
<1> QED
  BY <1>1, <1>2, <1>3, <1>4, <1>5, <1>6, <1>7, <1>8, <1>9 DEF CallStep, NetStep

\* The steps of the tester and of the daemons keep the types.
LEMMA GrpStepType ==
  ASSUME TypeOK, GrpStep, UNCHANGED clntVars
  PROVE  TypeOK'
<1> USE DEF TypeOK
<1>w. ASSUME NEW i \in Servers, NEW js \in SUBSET Servers
      PROVE  /\ Connect(Wired, i, js).connected \subseteq Servers
             /\ Connect(Wired, i, js).enabled \subseteq Ends
             /\ Disconnect(Wired, i, js).connected \subseteq Servers
             /\ Disconnect(Wired, i, js).enabled \subseteq Ends
  <2>1. Wired.connected \subseteq Servers /\ Wired.enabled \subseteq Ends
    BY DEF Wired, NetTypeOK, GrpTypeOK
  <2> QED
    BY <2>1, WiresType
<1>n. ASSUME UNCHANGED netVars
      PROVE  NetTypeOK'
  BY <1>n DEF netVars, NetTypeOK
<1>c. clnts' \subseteq Clients /\ ends' \in [Clients -> SUBSET Servers]
      /\ srvs' \in [Clients -> SUBSET Servers]
  BY DEF clntVars
<1>1. ASSUME NEW i \in Servers, StartServer(i)
      PROVE  TypeOK'
  <2>1. inst' \in [Servers -> 0..MaxInst] /\ life' \in [Servers -> Lives]
    BY <1>1, NetworkAssumption DEF StartServer, Go, Lives, GrpTypeOK
  <2> QED
    BY <1>1, <1>n, <1>c, <2>1 DEF StartServer, GrpTypeOK
<1>2. ASSUME NEW i \in Servers, ShutdownServer(i)
      PROVE  TypeOK'
  <2>1. life' \in [Servers -> Lives]
    BY <1>2 DEF ShutdownServer, Go, Lives, GrpTypeOK
  <2>2. connected' \subseteq Servers /\ enabled' \subseteq Ends
    BY <1>2, <1>w DEF ShutdownServer, SetWires
  <2> QED
    BY <1>2, <1>c, <2>1, <2>2 DEF ShutdownServer, GrpTypeOK, NetTypeOK
<1>3. ASSUME NEW i \in Servers, RunDaemon(i)
      PROVE  TypeOK'
  <2>1. life' \in [Servers -> Lives] /\ disk' \in [Servers -> Persister]
    BY <1>3 DEF RunDaemon, Go, Lives, GrpTypeOK
  <2> QED
    BY <1>3, <1>n, <1>c, <2>1 DEF RunDaemon, GrpTypeOK
<1>4. ASSUME NEW i \in Servers, RunDaemonFails(i)
      PROVE  TypeOK'
  <2>1. life' \in [Servers -> Lives]
    BY <1>4 DEF RunDaemonFails, Go, Lives, GrpTypeOK
  <2> QED
    BY <1>4, <1>n, <1>c, <2>1 DEF RunDaemonFails, GrpTypeOK
<1>5. ASSUME NEW i \in Servers, AddServer(i)
      PROVE  TypeOK'
  <2>1. life' \in [Servers -> Lives] /\ servers' \in [Servers -> 0..MaxInst]
    BY <1>5 DEF AddServer, Go, Lives, GrpTypeOK, NetTypeOK
  <2> QED
    BY <1>5, <1>c, <2>1 DEF AddServer, GrpTypeOK, NetTypeOK
<1>6. ASSUME NEW i \in Servers, DeleteServer(i)
      PROVE  TypeOK'
  <2>1. life' \in [Servers -> Lives] /\ servers' \in [Servers -> 0..MaxInst]
    BY <1>6, NetworkAssumption
       DEF DeleteServer, Go, Lives, GrpTypeOK, NetTypeOK
  <2> QED
    BY <1>6, <1>c, <2>1 DEF DeleteServer, GrpTypeOK, NetTypeOK
<1>7. ASSUME NEW i \in Servers, CheckpointPersister(i)
      PROVE  TypeOK'
  <2>1. life' \in [Servers -> Lives] /\ saved' \in [Servers -> Persister]
    BY <1>7 DEF CheckpointPersister, Go, Lives, GrpTypeOK
  <2> QED
    BY <1>7, <1>n, <1>c, <2>1 DEF CheckpointPersister, GrpTypeOK
<1>8. ASSUME NEW i \in Servers, Kill(i)
      PROVE  TypeOK'
  <2>1. life' \in [Servers -> Lives] /\ disk' \in [Servers -> Persister]
    BY <1>8 DEF Kill, Go, Lives, GrpTypeOK, MakePersister, Persister
  <2>2. late' \subseteq Handlers
    BY <1>8, LeftType DEF Kill, NetTypeOK, Callers
  <2>3. NoRequest \in Requests /\ NoRequest.st = "idle"
    BY NetworkAssumption DEF NoRequest, Requests, States
  <2>4. /\ req' \in [Callers -> Requests]
        /\ \A y \in Callers \ {i} : req'[y] = req[y]
        /\ req'[i].st = "idle"
    BY <1>8, <2>3 DEF Kill, NetTypeOK, Callers
  <2>5. NetTypeOK'
    BY <1>8, <2>2, <2>4 DEF Kill, NetTypeOK
  <2> QED
    BY <1>8, <1>c, <2>1, <2>5 DEF Kill, GrpTypeOK
<1>9. ASSUME NEW i \in Servers, ConnectOne(i)
      PROVE  TypeOK'
  <2>1. connected' \subseteq Servers /\ enabled' \subseteq Ends
    BY <1>9, <1>w DEF ConnectOne, SetWires
  <2> QED
    BY <1>9, <1>c, <2>1 DEF ConnectOne, GrpTypeOK, NetTypeOK
<1>10. ASSUME NEW i \in Servers, DisconnectAll(i)
       PROVE  TypeOK'
  <2>1. connected' \subseteq Servers /\ enabled' \subseteq Ends
    BY <1>10, <1>w DEF DisconnectAll, SetWires
  <2> QED
    BY <1>10, <1>c, <2>1 DEF DisconnectAll, GrpTypeOK, NetTypeOK
<1>11. ASSUME NEW i \in Servers, Regroup(i)
       PROVE  TypeOK'
  <2> DEFINE own == IF i \in split.side THEN split.side
                                        ELSE Servers \ split.side
             others == Servers \ own
             w == Disconnect(Wired, i, others)
  <2>1. own \in SUBSET Servers /\ others \in SUBSET Servers
    BY DEF GrpTypeOK
  <2>2. w.connected \subseteq Servers /\ w.enabled \subseteq Ends
    BY <2>1, <1>w
  <2>3. connected' = Connect(w, i, own).connected
        /\ enabled' = Connect(w, i, own).enabled
    BY <1>11 DEF Regroup, SetWires
  <2>4. connected' \subseteq Servers /\ enabled' \subseteq Ends
    <3> HIDE DEF w, own, others
    <3> QED
      BY <2>1, <2>2, <2>3, WiresType
  <2>5. split' \in [side : SUBSET Servers, todo : SUBSET Servers]
    BY <1>11 DEF Regroup, NoSplit, GrpTypeOK
  <2>6. apart' \subseteq Servers \X Servers
    BY <1>11, <2>1 DEF Regroup, GrpTypeOK
  <2> QED
    BY <1>11, <1>c, <2>4, <2>5, <2>6 DEF Regroup, GrpTypeOK, NetTypeOK
<1>12. ASSUME NEW i \in Servers, NEW j \in Servers, DaemonCall(i, j)
       PROVE  TypeOK'
  <2>1. <<i, inst[i], j>> \in Ends
    BY DEF GrpTypeOK, Ends, Callers
  <2>2. NetTypeOK'
    BY <1>12, <2>1, SendType DEF DaemonCall, NetTypeOK, Callers
  <2> QED
    BY <1>12, <1>c, <2>2 DEF DaemonCall, grpVars, GrpTypeOK
<1>13. ASSUME NEW p \in SUBSET Servers, Partition(p)
       PROVE  TypeOK'
  BY <1>13, <1>n, <1>c DEF Partition, GrpTypeOK
<1>14. ASSUME NEW h \in late, RunLate(h)
       PROVE  TypeOK'
  <2>1. h.server \in Servers /\ h.id \in Nat
    BY NetworkAssumption DEF NetTypeOK, Handlers
  <2>2. disk' \in [Servers -> Persister]
    BY <1>14, <2>1, SaveType DEF RunLate
  <2> QED
    BY <1>14, <1>c, <2>2 DEF RunLate, GrpTypeOK, NetTypeOK
<1> QED
  BY <1>1, <1>2, <1>3, <1>4, <1>5, <1>6, <1>7, <1>8, <1>9, <1>10, <1>11,
     <1>12, <1>13, <1>14 DEF GrpStep, StartStep, ShutdownStep

\* Every step keeps the types.
LEMMA TypeStep ==
  TypeOK /\ [Next]_vars => TypeOK'
<1> SUFFICES ASSUME TypeOK, [Next]_vars
             PROVE  TypeOK'
  OBVIOUS
<1>1. CASE \E c \in Clients : ClntStep(c)
  BY <1>1, ClntStepType
<1>2. CASE GrpStep /\ UNCHANGED clntVars
  BY <1>2, GrpStepType
<1>3. CASE \E x \in Callers : CallStep(x) /\ UNCHANGED clntVars
  BY <1>3, CallStepType
<1>4. CASE UNCHANGED vars
  BY <1>4 DEF vars, netVars, grpVars, clntVars, TypeOK, NetTypeOK, GrpTypeOK
<1> QED
  BY <1>1, <1>2, <1>3, <1>4 DEF Next

\* The initial state has the types.
LEMMA TypeInit ==
  Init => TypeOK
<1> SUFFICES ASSUME Init
             PROVE  TypeOK
  OBVIOUS
<1>1. NetTypeOK
  BY NetworkAssumption
     DEF Init, MakeNetwork, NetTypeOK, Requests, NoRequest, States
<1>2. GrpTypeOK
  BY NetworkAssumption
     DEF Init, MakeSrvGrp, GrpTypeOK, Lives, Persister, MakePersister, NoSplit
<1> QED
  BY <1>1, <1>2 DEF Init, TypeOK

\* The variables keep their types, for any servers, clients and bounds: in
\* particular every request under way has an end and, once started, runs at
\* an incarnation of a server.
THEOREM TypeCorrect == Spec => []TypeOK
BY TypeInit, TypeStep, PTL DEF Spec

-----------------------------------------------------------------------------
(* The two parts of a persister stay in step. *)

\* What a step can do to the persisters.
LEMMA DiskStep ==
  ASSUME TypeOK, [Next]_vars
  PROVE  \/ UNCHANGED <<disk, saved>>
         \/ \E i \in Servers, id \in Nat : Save(i, id) /\ saved' = saved
         \/ \E i \in Servers : RunDaemon(i) \/ CheckpointPersister(i) \/ Kill(i)
<1>1. CASE UNCHANGED vars
  BY <1>1 DEF vars, grpVars
<1>2. CASE \E c \in Clients : ClntStep(c)
  BY <1>2 DEF ClntStep, MakeClientTo, ClntCall, ClntConnectAll, ClntConnectTo,
     ClntDisconnect, ClntDisconnectAll, DeleteClient, Rest, grpVars
<1>3. CASE GrpStep
  <2>1. ASSUME NEW h \in late, RunLate(h)
        PROVE  h.server \in Servers /\ h.id \in Nat
               /\ Save(h.server, h.id) /\ saved' = saved
    BY <2>1, NetworkAssumption DEF RunLate, TypeOK, NetTypeOK, Handlers
  <2> QED
    BY <1>3, <2>1 DEF GrpStep, StartServer, ShutdownServer, StartStep,
       ShutdownStep, RunDaemonFails, AddServer, DeleteServer, ConnectOne,
       DisconnectAll, Regroup, DaemonCall, Partition, grpVars
<1>4. ASSUME NEW x \in Callers, CallStep(x)
      PROVE  \/ UNCHANGED <<disk, saved>>
             \/ \E i \in Servers, id \in Nat : Save(i, id) /\ saved' = saved
  <2>1. CASE RunHandler(x)
    <3>1. Target(x) \in Servers /\ req[x].id \in Nat
      BY <2>1, TargetType, NetworkAssumption
         DEF TypeOK, RunHandler, NetTypeOK, Requests
    <3> QED
      BY <2>1, <3>1 DEF RunHandler
  <2> QED
    BY <1>4, <2>1 DEF CallStep, NetStep, DaemonReplies, ForwardFails, grpVars
<1> QED
  BY <1>1, <1>2, <1>3, <1>4 DEF Next

\* Every step keeps SyncInv.
LEMMA SyncStep ==
  TypeOK /\ SyncInv /\ [Next]_vars => SyncInv'
<1> SUFFICES ASSUME TypeOK, SyncInv, [Next]_vars
             PROVE  SyncInv'
  OBVIOUS
<1> USE DEF SyncInv, InSync
<1>1. CASE UNCHANGED <<disk, saved>>
  BY <1>1
<1>2. ASSUME NEW i \in Servers, NEW id \in Nat, Save(i, id), saved' = saved
      PROVE  SyncInv'
  BY <1>2 DEF Save, TypeOK, GrpTypeOK
<1>3. ASSUME NEW i \in Servers, RunDaemon(i)
      PROVE  SyncInv'
  BY <1>3 DEF RunDaemon, TypeOK, GrpTypeOK
<1>4. ASSUME NEW i \in Servers, CheckpointPersister(i)
      PROVE  SyncInv'
  BY <1>4 DEF CheckpointPersister, TypeOK, GrpTypeOK
<1>5. ASSUME NEW i \in Servers, Kill(i)
      PROVE  SyncInv'
  BY <1>5 DEF Kill, MakePersister, TypeOK, GrpTypeOK
<1> QED
  BY <1>1, <1>2, <1>3, <1>4, <1>5, DiskStep

\* The state and the snapshot that a server is started with are always of the
\* same moment, however often it was checkpointed, killed and started again.
THEOREM SnapshotStaysInSync == Spec => []SnapshotInSync
<1>1. Init => SyncInv
  <2>1. MakePersister.raftstate = MakePersister.snapshot
    BY DEF MakePersister
  <2>2. Init => \A i \in Servers :
                  disk[i] = MakePersister /\ saved[i] = MakePersister
    BY DEF Init, MakeSrvGrp
  <2> QED
    BY <2>1, <2>2 DEF SyncInv, InSync
<1>2. SyncInv => SnapshotInSync
  BY DEF SyncInv, InSync, SnapshotInSync
<1> QED
  BY <1>1, <1>2, SyncStep, TypeCorrect, PTL DEF Spec

-----------------------------------------------------------------------------
(* Clients that are cut off. *)

\* The ends of the servers and those of the clients are different.
LEMMA EndsApart ==
  ASSUME TypeOK, NEW c \in Clients, NEW i \in Servers, NEW k \in Servers,
         NEW js \in SUBSET Servers
  PROVE  EndTo(c, k) \notin Between(i, js)
BY NetworkAssumption DEF EndTo, Between

\* The tester's steps leave the ends of clients alone.
LEMMA GrpLeavesClients ==
  ASSUME TypeOK, GrpStep, NEW c \in Clients, NEW k \in Servers
  PROVE  EndTo(c, k) \in enabled' <=> EndTo(c, k) \in enabled
<1>1. ASSUME NEW i \in Servers, ConnectOne(i)
      PROVE  EndTo(c, k) \in enabled' <=> EndTo(c, k) \in enabled
  BY <1>1, EndsApart DEF ConnectOne, SetWires, Connect, Wired
<1>2. ASSUME NEW i \in Servers, DisconnectAll(i) \/ ShutdownServer(i)
      PROVE  EndTo(c, k) \in enabled' <=> EndTo(c, k) \in enabled
  BY <1>2, EndsApart
     DEF DisconnectAll, ShutdownServer, SetWires, Disconnect, Wired
<1>3. ASSUME NEW i \in Servers, Regroup(i)
      PROVE  EndTo(c, k) \in enabled' <=> EndTo(c, k) \in enabled
  <2> DEFINE own == IF i \in split.side THEN split.side
                                        ELSE Servers \ split.side
             w == Disconnect(Wired, i, Servers \ own)
  <2>1. own \in SUBSET Servers
    BY DEF TypeOK, GrpTypeOK
  <2>2. enabled' = Connect(w, i, own).enabled
    BY <1>3 DEF Regroup, SetWires
  <2>3. w.enabled = enabled \ Between(i, Servers \ own)
    BY DEF Disconnect, Wired
  <2> HIDE DEF own, w
  <2>4. enabled' = w.enabled \cup Between(i, own \cap (w.connected \cup {i}))
    BY <2>2 DEF Connect
  <2>5. own \cap (w.connected \cup {i}) \in SUBSET Servers
    BY <2>1
  <2>6. EndTo(c, k) \notin Between(i, own \cap (w.connected \cup {i}))
    BY <2>5, EndsApart
  <2>7. EndTo(c, k) \notin Between(i, Servers \ own)
    BY EndsApart
  <2> QED
    BY <2>3, <2>4, <2>6, <2>7
<1> QED
  BY <1>1, <1>2, <1>3 DEF GrpStep, StartServer, StartStep, ShutdownStep,
     RunDaemon, RunDaemonFails, AddServer, DeleteServer, CheckpointPersister,
     Kill, DaemonCall, Partition, RunLate, netVars

\* Two ends of clients are the same only for the same client and server.
LEMMA EndToInjective ==
  ASSUME NEW c, NEW d, NEW i, NEW k
  PROVE  EndTo(c, i) = EndTo(d, k) <=> c = d /\ i = k
BY DEF EndTo

\* Every step keeps ClntInv.
LEMMA ClntInvStep ==
  TypeOK /\ ClntInv /\ [Next]_vars => ClntInv'
<1> SUFFICES ASSUME TypeOK, ClntInv, [Next]_vars
             PROVE  ClntInv'
  OBVIOUS
<1> USE DEF ClntInv, CutOffClient
<1>t. /\ ends \in [Clients -> SUBSET Servers]
      /\ srvs \in [Clients -> SUBSET Servers]
      /\ clnts \subseteq Clients
  BY DEF TypeOK
<1>1. ASSUME NEW c \in Clients, ClntStep(c)
      PROVE  ClntInv'
  <2>1. ASSUME NEW to \in SUBSET Servers, MakeClientTo(c, to)
        PROVE  ClntInv'
    BY <2>1, <1>t DEF MakeClientTo
  <2>2. ASSUME NEW i \in Servers, ClntCall(c, i)
        PROVE  ClntInv'
    BY <2>2, <1>t, EndToInjective DEF ClntCall, MakeEnd
  <2>3. CASE ClntConnectAll(c)
    BY <2>3, <1>t, EndToInjective DEF ClntConnectAll, EndsOf
  <2>4. ASSUME NEW to \in (SUBSET Servers) \ {{}}, ClntConnectTo(c, to)
        PROVE  ClntInv'
    <3>1. /\ enabled' = enabled \cup {EndTo(c, i) : i \in ends[c] \cap to}
          /\ srvs'[c] # {}
          /\ \A d \in Clients \ {c} : srvs'[d] = srvs[d]
          /\ UNCHANGED <<clnts, ends>>
      BY <2>4, <1>t DEF ClntConnectTo
    <3>2. ASSUME NEW d \in Clients, NEW k \in Servers,
                 EndTo(d, k) \in enabled', EndTo(d, k) \notin enabled
          PROVE  d = c /\ k \in ends[c]
      BY <3>1, <3>2, EndToInjective
    <3>3. \A d \in Clients, k \in Servers :
            EndTo(d, k) \in enabled' => k \in ends'[d]
      BY <3>1, <3>2
    <3>4. CutOffClient'
      BY <3>1, <3>2, <1>t
    <3> QED
      BY <3>1, <3>3, <3>4
  <2>5. ASSUME NEW i \in Servers, ClntDisconnect(c, i)
        PROVE  ClntInv'
    BY <2>5, <1>t DEF ClntDisconnect, clntVars
  <2>6. CASE ClntDisconnectAll(c)
    BY <2>6, <1>t, EndToInjective DEF ClntDisconnectAll, EndsOf
  <2>7. CASE DeleteClient(c)
    BY <2>7, <1>t, EndToInjective DEF DeleteClient, EndsOf
  <2> QED
    BY <1>1, <2>1, <2>2, <2>3, <2>4, <2>5, <2>6, <2>7 DEF ClntStep
<1>2. CASE GrpStep /\ UNCHANGED clntVars
  BY <1>2, <1>t, GrpLeavesClients DEF clntVars
<1>3. ASSUME NEW x \in Callers, CallStep(x), UNCHANGED clntVars
      PROVE  ClntInv'
  <2>1. enabled' = enabled
    BY <1>3 DEF CallStep, NetStep, StartHandler, LoseRequest, GiveUp,
       Accept, LoseReply, Deliver, RunHandler, DaemonReplies, ForwardFails
  <2> QED
    BY <1>3, <2>1 DEF clntVars
<1>4. CASE UNCHANGED vars
  BY <1>4 DEF vars, netVars, clntVars
<1> QED
  BY <1>1, <1>2, <1>3, <1>4 DEF Next

\* A client that was disconnected from all servers reaches none of them by
\* any end, those that it makes while it is cut off included.
THEOREM CutOffStays == Spec => []CutOffClient
<1>1. Init => ClntInv
  BY DEF Init, MakeNetwork, ClntInv, CutOffClient
<1>2. ClntInv => CutOffClient
  BY DEF ClntInv
<1> QED
  BY <1>1, <1>2, ClntInvStep, TypeCorrect, PTL DEF Spec

-----------------------------------------------------------------------------
(* Connections between servers. *)

\* The ends between server i and the servers js.
LEMMA BetweenEnds ==
  ASSUME NEW i \in Servers, NEW js \in SUBSET Servers,
         NEW a \in Servers, NEW b \in Servers, NEW n
  PROVE  <<a, n, b>> \in Between(i, js) <=>
           n = inst[a] /\ ((a = i /\ b \in js) \/ (b = i /\ a \in js))
BY DEF Between

\* The ends between servers are not touched by clients or calls.
LEMMA OthersLeaveWires ==
  ASSUME TypeOK,
         \/ \E c \in Clients : ClntStep(c)
         \/ \E x \in Callers : CallStep(x)
         \/ UNCHANGED vars
  PROVE  /\ UNCHANGED <<life, inst, connected, split, apart>>
         /\ \A a, b \in Servers, n \in 0..MaxInst :
              <<a, n, b>> \in enabled' <=> <<a, n, b>> \in enabled
<1>1. ASSUME NEW c \in Clients, ClntStep(c)
      PROVE  /\ UNCHANGED <<life, inst, connected, split, apart>>
             /\ \A a, b \in Servers, n \in 0..MaxInst :
                  <<a, n, b>> \in enabled' <=> <<a, n, b>> \in enabled
  <2>1. UNCHANGED <<life, inst, connected, split, apart>>
    BY <1>1 DEF ClntStep, MakeClientTo, ClntCall, ClntConnectAll,
       ClntConnectTo, ClntDisconnect, ClntDisconnectAll, DeleteClient, Rest,
       grpVars
  <2>2. ASSUME NEW a \in Servers, NEW b \in Servers, NEW n, NEW i
        PROVE  <<a, n, b>> # EndTo(c, i)
    BY NetworkAssumption DEF EndTo
  <2>3. ASSUME NEW a \in Servers, NEW b \in Servers, NEW n \in 0..MaxInst
        PROVE  <<a, n, b>> \in enabled' <=> <<a, n, b>> \in enabled
    BY <1>1, <2>2 DEF ClntStep, MakeClientTo, ClntCall, MakeEnd,
       ClntConnectAll, ClntConnectTo, ClntDisconnect, ClntDisconnectAll,
       DeleteClient, EndsOf
  <2> QED
    BY <2>1, <2>3
<1>2. ASSUME NEW x \in Callers, CallStep(x)
      PROVE  UNCHANGED <<life, inst, connected, split, apart, enabled>>
  BY <1>2 DEF CallStep, NetStep, StartHandler, LoseRequest, GiveUp,
     Accept, LoseReply, Deliver, RunHandler, DaemonReplies, ForwardFails, grpVars
<1>3. CASE UNCHANGED vars
  BY <1>3 DEF vars, netVars, grpVars
<1> QED
  BY <1>1, <1>2, <1>3

\* The steps of the tester keep WiresInv.
LEMMA GrpStepWires ==
  ASSUME TypeOK, WiresInv, GrpStep
  PROVE  WiresInv'
<1> USE DEF WiresInv, ConnectedAsAsked
<1>t. /\ life \in [Servers -> Lives]
      /\ inst \in [Servers -> 0..MaxInst]
      /\ connected \subseteq Servers
      /\ split.side \subseteq Servers
      /\ split.todo \subseteq Servers
  BY DEF TypeOK, GrpTypeOK
<1>1. ASSUME NEW i \in Servers, ConnectOne(i)
      PROVE  WiresInv'
  <2> DEFINE c == connected \cup {i}
  <2>1. /\ connected' = c
        /\ enabled' = enabled \cup Between(i, Servers \cap c)
        /\ apart' = {p \in apart : i \notin {p[1], p[2]}}
        /\ UNCHANGED inst
    BY <1>1 DEF ConnectOne, SetWires, Connect, Wired
  <2>2. Servers \cap c \in SUBSET Servers
    OBVIOUS
  <2>3. \A a, b \in Servers : <<a, b>> \in apart' <=>
          <<a, b>> \in apart /\ a # i /\ b # i
    BY <2>1
  <2>4. ASSUME NEW a \in Servers, NEW b \in Servers, NEW n
        PROVE  <<a, n, b>> \in enabled' <=>
                 \/ <<a, n, b>> \in enabled
                 \/ n = inst[a] /\ ((a = i /\ b \in c) \/ (b = i /\ a \in c))
    BY <2>1, <2>2, BetweenEnds
  <2> HIDE DEF c
  <2>5. i \in c /\ connected \subseteq c /\ \A a \in c : a = i \/ a \in connected
    BY DEF c
  <2>6. ConnectedAsAsked'
    <3> SUFFICES ASSUME NEW a \in Servers, NEW b \in Servers
                 PROVE  <<a, inst[a], b>> \in enabled' <=>
                          {a, b} \subseteq connected' /\ <<a, b>> \notin apart'
      BY <2>1
    <3>1. <<a, inst[a], b>> \in enabled <=>
            {a, b} \subseteq connected /\ <<a, b>> \notin apart
      OBVIOUS
    <3>2. <<a, inst[a], b>> \in enabled' <=>
            \/ <<a, inst[a], b>> \in enabled
            \/ (a = i /\ b \in c) \/ (b = i /\ a \in c)
      BY <2>4
    <3> QED
      BY <2>1, <2>3, <2>5, <3>1, <3>2
  <2>7. \A a, b \in Servers, n \in 0..MaxInst :
          <<a, n, b>> \in enabled' => n <= inst'[a]
    <3> SUFFICES ASSUME NEW a \in Servers, NEW b \in Servers,
                        NEW n \in 0..MaxInst, <<a, n, b>> \in enabled'
                 PROVE  n <= inst[a]
      BY <2>1
    <3>1. <<a, n, b>> \in enabled \/ n = inst[a]
      BY <2>4
    <3> QED
      BY <3>1, <1>t
  <2> QED
    BY <2>6, <2>7
<1>2. ASSUME NEW i \in Servers, DisconnectAll(i) \/ ShutdownServer(i)
      PROVE  WiresInv'
  <2>1. /\ connected' = connected \ {i}
        /\ enabled' = enabled \ Between(i, Servers)
        /\ UNCHANGED <<inst, apart>>
    BY <1>2 DEF DisconnectAll, ShutdownServer, SetWires, Disconnect, Wired
  <2>2. ASSUME NEW a \in Servers, NEW b \in Servers, NEW n
        PROVE  <<a, n, b>> \in enabled' <=>
                 /\ <<a, n, b>> \in enabled
                 /\ ~(n = inst[a] /\ (a = i \/ b = i))
    BY <2>1, BetweenEnds
  <2> QED
    BY <2>1, <2>2, <1>t
<1>3. ASSUME NEW i \in Servers, Regroup(i)
      PROVE  WiresInv'
  <2> DEFINE own == IF i \in split.side THEN split.side
                                        ELSE Servers \ split.side
             others == Servers \ own
             c == connected \cup {i}
  <2>1. /\ own \in SUBSET Servers
        /\ i \in own
        /\ own \cap c \in SUBSET Servers
        /\ others \in SUBSET Servers
    BY <1>t
  <2>2. /\ connected' = c
        /\ enabled' = (enabled \ Between(i, others)) \cup Between(i, own \cap c)
        /\ apart' = {p \in apart : i \notin {p[1], p[2]}} \cup
                    ({i} \X others) \cup (others \X {i})
        /\ UNCHANGED inst
    BY <1>3 DEF Regroup, SetWires, Connect, Disconnect, Wired
  <2> HIDE DEF own, others, c
  <2>4. \A a, b \in Servers : <<a, b>> \in apart' <=>
          \/ <<a, b>> \in apart /\ a # i /\ b # i
          \/ a = i /\ b \in others
          \/ b = i /\ a \in others
    BY <2>2
  <2>5. ASSUME NEW a \in Servers, NEW b \in Servers, NEW n
        PROVE  <<a, n, b>> \in enabled' <=>
                 \/ /\ <<a, n, b>> \in enabled
                    /\ ~(n = inst[a] /\ ((a = i /\ b \in others)
                                           \/ (b = i /\ a \in others)))
                 \/ n = inst[a] /\ ((a = i /\ b \in own \cap c)
                                      \/ (b = i /\ a \in own \cap c))
    BY <2>1, <2>2, BetweenEnds
  <2>6. /\ i \in c
        /\ connected \subseteq c
        /\ \A a \in c : a = i \/ a \in connected
        /\ c \subseteq Servers
    BY <1>t DEF c
  <2>7. \A a \in Servers : a \in others <=> a \notin own
    BY DEF others
  <2>8. ConnectedAsAsked'
    <3> SUFFICES ASSUME NEW a \in Servers, NEW b \in Servers
                 PROVE  <<a, inst[a], b>> \in enabled' <=>
                          {a, b} \subseteq connected' /\ <<a, b>> \notin apart'
      BY <2>2
    <3>1. <<a, inst[a], b>> \in enabled <=>
            {a, b} \subseteq connected /\ <<a, b>> \notin apart
      OBVIOUS
    <3>2. <<a, inst[a], b>> \in enabled' <=>
            \/ /\ <<a, inst[a], b>> \in enabled
               /\ ~((a = i /\ b \in others) \/ (b = i /\ a \in others))
            \/ (a = i /\ b \in own \cap c) \/ (b = i /\ a \in own \cap c)
      BY <2>5
    <3>3. <<a, b>> \in apart' <=>
            \/ <<a, b>> \in apart /\ a # i /\ b # i
            \/ a = i /\ b \in others
            \/ b = i /\ a \in others
      BY <2>4
    <3> QED
      BY <2>1, <2>2, <2>6, <2>7, <3>1, <3>2, <3>3
  <2>9. \A a, b \in Servers, n \in 0..MaxInst :
          <<a, n, b>> \in enabled' => n <= inst'[a]
    <3> SUFFICES ASSUME NEW a \in Servers, NEW b \in Servers,
                        NEW n \in 0..MaxInst, <<a, n, b>> \in enabled'
                 PROVE  n <= inst[a]
      BY <2>2
    <3>1. <<a, n, b>> \in enabled \/ n = inst[a]
      BY <2>5
    <3> QED
      BY <3>1, <1>t
  <2> QED
    BY <2>8, <2>9
<1>4. ASSUME NEW i \in Servers, StartServer(i)
      PROVE  WiresInv'
  <2>1. /\ inst' = [inst EXCEPT ![i] = inst[i] + 1]
        /\ i \notin connected
        /\ UNCHANGED <<enabled, connected, apart>>
    BY <1>4 DEF StartServer, netVars
  <2>3. inst'[i] = inst[i] + 1 /\ \A j \in Servers \ {i} : inst'[j] = inst[j]
    BY <2>1, <1>t
  <2>4. inst'[i] \in 0..MaxInst /\ ~(inst'[i] <= inst[i])
    BY <1>4, <2>3, <1>t, NetworkAssumption DEF StartServer
  <2>5. \A b \in Servers : <<i, inst'[i], b>> \notin enabled
    BY <2>4
  <2>6. ConnectedAsAsked'
    <3> SUFFICES ASSUME NEW a \in Servers, NEW b \in Servers
                 PROVE  <<a, inst'[a], b>> \in enabled <=>
                          {a, b} \subseteq connected /\ <<a, b>> \notin apart
      <4>1. UNCHANGED <<enabled, connected, apart>>
        BY <2>1
      <4> QED
        BY <4>1
    <3>1. CASE a = i
      BY <3>1, <2>1, <2>5
    <3>2. CASE a # i
      <4>1. inst'[a] = inst[a]
        BY <3>2, <2>3
      <4> QED
        BY <4>1
    <3> QED
      BY <3>1, <3>2
  <2>7. inst[i] <= inst'[i]
    BY <2>3, <1>t
  <2>8. \A a, b \in Servers, n \in 0..MaxInst :
          <<a, n, b>> \in enabled' => n <= inst'[a]
    BY <2>1, <2>3, <2>7, <1>t
  <2> QED
    BY <2>6, <2>8
<1>5. ASSUME NEW i \in Servers,
             StartStep(i) \/ ShutdownStep(i)
      PROVE  WiresInv'
  <2>1. UNCHANGED <<enabled, inst, connected, apart>>
    BY <1>5 DEF StartStep, ShutdownStep, RunDaemon, RunDaemonFails,
       AddServer, DeleteServer, CheckpointPersister, Kill, netVars
  <2> QED
    BY <2>1, <1>t
<1>6. ASSUME NEW p \in SUBSET Servers, Partition(p)
      PROVE  WiresInv'
  BY <1>6 DEF Partition, netVars
<1>7. CASE \/ \E i, j \in Servers : DaemonCall(i, j)
           \/ \E h \in late : RunLate(h)
  BY <1>7 DEF DaemonCall, RunLate, Send, grpVars
<1> QED
  BY <1>1, <1>2, <1>3, <1>4, <1>5, <1>6, <1>7 DEF GrpStep

\* Every step keeps WiresInv.
LEMMA WiresStep ==
  TypeOK /\ WiresInv /\ [Next]_vars => WiresInv'
<1> SUFFICES ASSUME TypeOK, WiresInv, [Next]_vars
             PROVE  WiresInv'
  OBVIOUS
<1>1. CASE GrpStep
  BY <1>1, GrpStepWires
<1>2. CASE \/ \E c \in Clients : ClntStep(c)
           \/ \E x \in Callers : CallStep(x)
           \/ UNCHANGED vars
  <2>1. /\ UNCHANGED <<life, inst, connected, split, apart>>
        /\ \A a, b \in Servers, n \in 0..MaxInst :
             <<a, n, b>> \in enabled' <=> <<a, n, b>> \in enabled
    BY <1>2, OthersLeaveWires
  <2>2. inst \in [Servers -> 0..MaxInst]
    BY DEF TypeOK, GrpTypeOK
  <2> QED
    BY <2>1, <2>2 DEF WiresInv, ConnectedAsAsked
<1> QED
  BY <1>1, <1>2 DEF Next

\* After any sequence of connects, disconnects, partitions, shutdowns and
\* restarts, also in the middle of a partition, two servers reach each other
\* in both directions or in none, as their state says.
THEOREM ConnectedAsAskedHolds == Spec => []ConnectedAsAsked
<1>1. Init => WiresInv
  BY DEF Init, MakeNetwork, MakeSrvGrp, NoSplit, WiresInv, ConnectedAsAsked
<1>2. WiresInv => ConnectedAsAsked
  BY DEF WiresInv
<1> QED
  BY <1>1, <1>2, WiresStep, TypeCorrect, PTL DEF Spec

-----------------------------------------------------------------------------
(* Acknowledged calls are durable. *)

\* What a step can do to the life of a server.
LEMMA LifeStep ==
  ASSUME TypeOK, [Next]_vars
  PROVE  \/ UNCHANGED <<life, inst>>
         \/ \E i \in Servers : \/ StartServer(i) \/ ShutdownServer(i)
                               \/ StartStep(i) \/ ShutdownStep(i)
<1>1. CASE \/ \E c \in Clients : ClntStep(c)
           \/ \E x \in Callers : CallStep(x)
           \/ UNCHANGED vars
  BY <1>1, OthersLeaveWires
<1>2. CASE GrpStep
  BY <1>2 DEF GrpStep, ConnectOne, DisconnectAll, Regroup, DaemonCall,
     Partition, RunLate, grpVars
<1>3. \/ UNCHANGED vars
      \/ GrpStep
      \/ \E c \in Clients : ClntStep(c)
      \/ \E x \in Callers : CallStep(x)
  BY DEF Next
<1> QED
  BY <1>1, <1>2, <1>3

\* Saving forgets nothing.
LEMMA SaveKeeps ==
  ASSUME TypeOK, NEW i \in Servers, NEW id \in Nat, Save(i, id)
  PROVE  /\ \A k \in Servers : \A d : Holds(disk[k], d) => Holds(disk'[k], d)
         /\ Holds(disk'[i], id)
<1>1. /\ disk'[i].raftstate = disk[i].raftstate \cup {id}
      /\ disk'[i].snapshot = disk[i].snapshot \cup {id}
      /\ \A k \in Servers \ {i} : disk'[k] = disk[k]
  BY DEF Save, TypeOK, GrpTypeOK
<1> QED
  BY <1>1 DEF Holds

\* What is durable stays durable.
LEMMA DurableStep ==
  ASSUME TypeOK, [Next]_vars, NEW k \in Servers, NEW id, Durable(k, id)
  PROVE  Durable(k, id)'
<1> USE DEF Durable
<1>t. /\ life \in [Servers -> Lives]
      /\ disk \in [Servers -> Persister]
      /\ saved \in [Servers -> Persister]
  BY DEF TypeOK, GrpTypeOK
<1>1. ASSUME NEW i \in Servers, RunDaemon(i)
      PROVE  Durable(k, id)'
  BY <1>1, <1>t DEF RunDaemon, Go
<1>2. ASSUME NEW i \in Servers, CheckpointPersister(i)
      PROVE  Durable(k, id)'
  BY <1>2, <1>t DEF CheckpointPersister, Go
<1>3. ASSUME NEW i \in Servers, Kill(i)
      PROVE  Durable(k, id)'
  BY <1>3, <1>t DEF Kill, Go
<1>q. ASSUME NEW i \in Servers, ShutdownServer(i)
      PROVE  /\ \A j \in Servers \ {i} : life'[j] = life[j]
             /\ \/ life[i] = "up" /\ life'[i] = "cut"
                \/ life[i] = "down" /\ life'[i] = "down"
  BY <1>q, <1>t DEF ShutdownServer, Quiet, Go
<1>4. CASE UNCHANGED <<disk, saved>>
  <2>1. CASE UNCHANGED life
    BY <1>4, <2>1
  <2>2. ASSUME NEW i \in Servers, StartServer(i)
        PROVE  Durable(k, id)'
    BY <1>4, <2>2, <1>t DEF StartServer, Go
  <2>3. ASSUME NEW i \in Servers, ShutdownServer(i)
        PROVE  Durable(k, id)'
    BY <1>4, <2>3, <1>q
  <2>4. ASSUME NEW i \in Servers, RunDaemonFails(i)
        PROVE  Durable(k, id)'
    BY <1>4, <2>4, <1>t DEF RunDaemonFails, Go
  <2>5. ASSUME NEW i \in Servers, AddServer(i)
        PROVE  Durable(k, id)'
    BY <1>4, <2>5, <1>t DEF AddServer, Go
  <2>6. ASSUME NEW i \in Servers, DeleteServer(i)
        PROVE  Durable(k, id)'
    BY <1>4, <2>6, <1>t DEF DeleteServer, Go
  <2> QED
    BY <1>1, <1>2, <1>3, <2>1, <2>2, <2>3, <2>4, <2>5, <2>6, LifeStep
       DEF StartStep, ShutdownStep
<1>5. ASSUME NEW i \in Servers, NEW d \in Nat, Save(i, d), saved' = saved,
             life' = life
      PROVE  Durable(k, id)'
  BY <1>5, SaveKeeps
<1>6. ASSUME NEW i \in Servers, NEW d \in Nat, Save(i, d), saved' = saved
      PROVE  Durable(k, id)'
  <2>1. CASE life' = life
    BY <1>5, <1>6, <2>1
  <2>2. CASE \E j \in Servers : StartServer(j) \/ ShutdownServer(j)
                                  \/ RunDaemonFails(j) \/ AddServer(j)
                                  \/ DeleteServer(j)
    BY <1>4, <2>2 DEF StartServer, ShutdownServer, RunDaemonFails, AddServer,
       DeleteServer
  <2> QED
    BY <1>1, <1>2, <1>3, <2>1, <2>2, LifeStep DEF StartStep, ShutdownStep
<1> QED
  BY <1>1, <1>2, <1>3, <1>4, <1>6, DiskStep

\* What a step can do to a request.
LEMMA ReqStep ==
  ASSUME TypeOK, [Next]_vars, NEW y \in Callers
  PROVE  \/ req'[y] = req[y]
         \/ req'[y].st \in {"idle", "sent"}
         \/ StartHandler(y) /\ UNCHANGED grpVars
         \/ Accept(y) /\ UNCHANGED grpVars
         \/ RunHandler(y) \/ DaemonReplies(y) \/ ForwardFails(y)
<1>t. req \in [Callers -> Requests]
  BY DEF TypeOK, NetTypeOK
<1>1. ASSUME NEW x \in Callers, NEW s, NEW n, NEW ok, SetReq(x, s, n, ok),
             x # y
      PROVE  req'[y] = req[y]
  BY <1>1, <1>t DEF SetReq
<1>2. ASSUME NEW x \in Callers, NEW ok, Finish(x, ok)
      PROVE  req'[y] = req[y] \/ req'[y].st = "idle"
  BY <1>2, <1>t DEF Finish, NoRequest
<1>3. ASSUME NEW x \in Callers, NEW e, Send(x, e)
      PROVE  req'[y] = req[y] \/ req'[y].st = "sent"
  BY <1>3, <1>t DEF Send
<1>4. ASSUME NEW x \in Callers, CallStep(x)
      PROVE  \/ req'[y] = req[y]
             \/ req'[y].st = "idle"
             \/ StartHandler(y) /\ UNCHANGED grpVars
             \/ Accept(y) /\ UNCHANGED grpVars
             \/ RunHandler(y) \/ DaemonReplies(y) \/ ForwardFails(y)
  <2>1. CASE LoseRequest(x) \/ GiveUp(x) \/ LoseReply(x) \/ Deliver(x)
    BY <2>1, <1>2 DEF LoseRequest, GiveUp, LoseReply, Deliver
  <2>2. CASE x # y /\ (\/ StartHandler(x) \/ Accept(x) \/ RunHandler(x)
                       \/ DaemonReplies(x) \/ ForwardFails(x))
    BY <2>2, <1>1
       DEF StartHandler, Accept, RunHandler, DaemonReplies, ForwardFails
  <2> QED
    BY <1>4, <2>1, <2>2 DEF CallStep, NetStep
<1>5. ASSUME NEW c \in Clients, ClntStep(c)
      PROVE  req'[y] = req[y] \/ req'[y].st = "sent"
  BY <1>5, <1>3 DEF ClntStep, MakeClientTo, ClntCall, ClntConnectAll,
     ClntConnectTo, ClntDisconnect, ClntDisconnectAll, DeleteClient, Rest,
     Callers
<1>6. CASE GrpStep
  <2>1. ASSUME NEW i \in Servers, Kill(i)
        PROVE  req'[y] = req[y] \/ req'[y].st = "idle"
    BY <2>1, <1>t DEF Kill, NoRequest
  <2>2. ASSUME NEW i \in Servers, NEW j \in Servers, DaemonCall(i, j)
        PROVE  req'[y] = req[y] \/ req'[y].st = "sent"
    BY <2>2, <1>3 DEF DaemonCall, Callers
  <2> QED
    BY <1>6, <2>1, <2>2 DEF GrpStep, StartServer, ShutdownServer, StartStep,
       ShutdownStep, RunDaemon, RunDaemonFails, AddServer, DeleteServer,
       CheckpointPersister, ConnectOne, DisconnectAll, Regroup, Partition,
       RunLate, netVars
<1>7. CASE UNCHANGED vars
  BY <1>7 DEF vars, netVars
<1> QED
  BY <1>4, <1>5, <1>6, <1>7 DEF Next

\* What a step can do to the servers on the network.
LEMMA ServersStep ==
  ASSUME TypeOK, [Next]_vars
  PROVE  \/ servers' = servers
         \/ \E i \in Servers : AddServer(i) \/ DeleteServer(i)
<1>1. CASE UNCHANGED vars
  BY <1>1 DEF vars, netVars
<1>2. ASSUME NEW c \in Clients, ClntStep(c)
      PROVE  servers' = servers
  BY <1>2 DEF ClntStep, MakeClientTo, ClntCall, Send, ClntConnectAll,
     ClntConnectTo, ClntDisconnect, ClntDisconnectAll, DeleteClient, Rest
<1>3. ASSUME NEW x \in Callers, CallStep(x)
      PROVE  servers' = servers
  BY <1>3 DEF CallStep, NetStep, StartHandler, LoseRequest, GiveUp,
     Accept, LoseReply, Deliver, RunHandler, DaemonReplies, ForwardFails
<1>4. CASE GrpStep
  BY <1>4 DEF GrpStep, StartServer, ShutdownServer, StartStep, ShutdownStep,
     RunDaemon, RunDaemonFails, CheckpointPersister, Kill, ConnectOne,
     DisconnectAll, Regroup, DaemonCall, Send, Partition, RunLate, netVars
<1> QED
  BY <1>1, <1>2, <1>3, <1>4 DEF Next

\* What a step can do to the history of acknowledged calls.
LEMMA AckedStep ==
  ASSUME TypeOK, [Next]_vars
  PROVE  \/ acked' = acked
         \/ \E x \in Callers :
              /\ req[x].st = "delivering"
              /\ req[x].ok
              /\ acked' = acked \cup {[server |-> Target(x), id |-> req[x].id]}
<1>1. CASE UNCHANGED vars
  BY <1>1 DEF vars, netVars
<1>2. ASSUME NEW c \in Clients, ClntStep(c)
      PROVE  acked' = acked
  BY <1>2 DEF ClntStep, MakeClientTo, ClntCall, Send, ClntConnectAll,
     ClntConnectTo, ClntDisconnect, ClntDisconnectAll, DeleteClient, Rest
<1>3. ASSUME NEW x \in Callers, CallStep(x)
      PROVE  \/ acked' = acked
             \/ /\ req[x].st = "delivering"
                /\ req[x].ok
                /\ acked' = acked \cup {[server |-> Target(x), id |-> req[x].id]}
  BY <1>3 DEF CallStep, NetStep, StartHandler, LoseRequest, GiveUp,
     Accept, LoseReply, Deliver, RunHandler, DaemonReplies, ForwardFails, Finish
<1>4. CASE GrpStep
  BY <1>4 DEF GrpStep, StartServer, ShutdownServer, StartStep, ShutdownStep,
     RunDaemon, RunDaemonFails, AddServer, DeleteServer, CheckpointPersister,
     Kill, ConnectOne, DisconnectAll, Regroup, DaemonCall, Send, Partition,
     RunLate, netVars
<1> QED
  BY <1>1, <1>2, <1>3, <1>4 DEF Next

\* What a step can do to one incarnation.
LEMMA InstStep ==
  ASSUME TypeOK, [Next]_vars, NEW k \in Servers
  PROVE  \/ /\ inst'[k] = inst[k]
            /\ life'[k] \in {"made", "init"} => life[k] \in {"made", "init"}
         \/ /\ inst'[k] = inst[k] + 1
            /\ life[k] = "down"
            /\ life'[k] = "made"
<1>t. /\ life \in [Servers -> Lives]
      /\ inst \in [Servers -> 0..MaxInst]
  BY DEF TypeOK, GrpTypeOK
<1>1. ASSUME NEW i \in Servers, StartServer(i)
      PROVE  \/ inst'[k] = inst[k] /\ life'[k] = life[k]
             \/ /\ inst'[k] = inst[k] + 1
                /\ life[k] = "down"
                /\ life'[k] = "made"
  BY <1>1, <1>t DEF StartServer, Go
<1>2. ASSUME NEW i \in Servers,
             ShutdownServer(i) \/ StartStep(i) \/ ShutdownStep(i)
      PROVE  /\ inst'[k] = inst[k]
             /\ life'[k] \in {"made", "init"} => life[k] \in {"made", "init"}
  BY <1>2, <1>t DEF ShutdownServer, StartStep, ShutdownStep, RunDaemon,
     RunDaemonFails, AddServer, DeleteServer, CheckpointPersister, Kill, Go
<1> QED
  BY <1>1, <1>2, LifeStep

\* A daemon that runs before and after a step keeps what it holds; and one
\* that runs afterwards ran before, unless it has just been started.
LEMMA DaemonStep ==
  ASSUME TypeOK, [Next]_vars, NEW k \in Servers, NEW n, NEW d,
         DaemonRuns(k, n)'
  PROVE  /\ DaemonRuns(k, n) \/ (life[k] = "made" /\ inst[k] = n)
         /\ DaemonRuns(k, n) /\ Holds(disk[k], d) => Holds(disk'[k], d)
<1> USE DEF DaemonRuns
<1>t. /\ life \in [Servers -> Lives]
      /\ inst \in [Servers -> 0..MaxInst]
      /\ disk \in [Servers -> Persister]
  BY DEF TypeOK, GrpTypeOK
<1>1. DaemonRuns(k, n) \/ (life[k] = "made" /\ inst[k] = n)
  <2>1. CASE UNCHANGED <<life, inst>>
    BY <2>1
  <2>2. ASSUME NEW i \in Servers, StartServer(i) \/ ShutdownServer(i)
        PROVE  DaemonRuns(k, n)
    BY <2>2, <1>t DEF StartServer, ShutdownServer, Go
  <2>3. ASSUME NEW i \in Servers, StartStep(i) \/ ShutdownStep(i)
        PROVE  DaemonRuns(k, n) \/ (life[k] = "made" /\ inst[k] = n)
    BY <2>3, <1>t DEF StartStep, ShutdownStep, RunDaemon, RunDaemonFails,
       AddServer, DeleteServer, CheckpointPersister, Kill, Go
  <2> QED
    BY <2>1, <2>2, <2>3, LifeStep
<1>2. ASSUME DaemonRuns(k, n), Holds(disk[k], d)
      PROVE  Holds(disk'[k], d)
  <2>1. CASE UNCHANGED <<disk, saved>>
    BY <1>2, <2>1
  <2>2. ASSUME NEW i \in Servers, NEW id \in Nat, Save(i, id)
        PROVE  Holds(disk'[k], d)
    BY <1>2, <2>2, SaveKeeps
  <2>3. ASSUME NEW i \in Servers,
               RunDaemon(i) \/ CheckpointPersister(i) \/ Kill(i)
        PROVE  disk'[k] = disk[k]
    BY <1>2, <2>3, <1>t DEF RunDaemon, CheckpointPersister, Kill, Go
  <2> QED
    BY <1>2, <2>1, <2>2, <2>3, DiskStep
<1> QED
  BY <1>1, <1>2

\* The part of DurableInv about the servers.
LEMMA OnNetworkStep ==
  ASSUME TypeOK, OnNetwork, [Next]_vars
  PROVE  OnNetwork'
<1> USE DEF OnNetwork
<1>t. /\ life \in [Servers -> Lives]
      /\ inst \in [Servers -> 0..MaxInst]
      /\ servers \in [Servers -> 0..MaxInst]
  BY DEF TypeOK, NetTypeOK, GrpTypeOK
<1>1. ASSUME NEW i \in Servers, AddServer(i) \/ DeleteServer(i)
      PROVE  OnNetwork'
  BY <1>1, <1>t DEF AddServer, DeleteServer, Go
<1>2. ASSUME NEW i \in Servers, servers' = servers,
             \/ StartServer(i) \/ ShutdownServer(i) \/ RunDaemon(i)
             \/ RunDaemonFails(i) \/ CheckpointPersister(i) \/ Kill(i)
      PROVE  OnNetwork'
  <2>1. \A j \in Servers \ {i} : life'[j] = life[j] /\ inst'[j] = inst[j]
    BY <1>2, <1>t DEF StartServer, ShutdownServer, RunDaemon, RunDaemonFails,
       CheckpointPersister, Kill, Go
  <2>2. \/ life[i] = "up" /\ life'[i] = "cut" /\ inst'[i] = inst[i]
        \/ life[i] \notin {"up", "cut"}
    BY <1>2, <1>t DEF StartServer, ShutdownServer, RunDaemon, RunDaemonFails,
       CheckpointPersister, Kill, Quiet, Go
  <2> QED
    BY <1>2, <2>1, <2>2
<1>3. CASE servers' = servers /\ UNCHANGED <<life, inst>>
  BY <1>3
<1> QED
  BY <1>1, <1>2, <1>3, ServersStep, LifeStep DEF StartStep, ShutdownStep

\* Every step keeps DurableInv.
LEMMA DurableInvStep ==
  TypeOK /\ DurableInv /\ [Next]_vars => DurableInv'
<1> SUFFICES ASSUME TypeOK, DurableInv, [Next]_vars
             PROVE  DurableInv'
  OBVIOUS
<1>n. /\ OnNetwork
      /\ NetTypeOK
      /\ inst \in [Servers -> 0..MaxInst]
      /\ servers \in [Servers -> 0..MaxInst]
      /\ req \in [Callers -> Requests]
  BY DEF DurableInv, TypeOK, NetTypeOK, GrpTypeOK
<1>s. ASSUME NEW x \in Callers, NEW s \in States, NEW n \in 0..MaxInst,
             NEW ok \in BOOLEAN, SetReq(x, s, n, ok)
      PROVE  /\ req'[x].st = s
             /\ req'[x].ok = ok
             /\ req'[x].inst = n
             /\ req'[x].id = req[x].id
             /\ Target(x)' = Target(x)
  BY <1>s, <1>n, SetReqEffect DEF Target
<1>u. {"running", "executed", "answered", "delivering"} \subseteq States
  BY DEF States
<1>1. OnNetwork'
  BY OnNetworkStep DEF DurableInv
<1>2. ASSUME NEW y \in Callers, req[y].st \notin {"idle", "sent"}
      PROVE  /\ Target(y) \in Servers
             /\ req[y].inst \in 0..MaxInst
             /\ req[y].id \in Nat
             /\ req[y].inst <= inst[Target(y)]
             /\ life[Target(y)] \in {"made", "init"}
                  => req[y].inst # inst[Target(y)]
  BY <1>2, <1>n, TargetType, NetworkAssumption
     DEF DurableInv, InstKnown, Requests
<1>3. ASSUME NEW y \in Callers, Accept(y) \/ RunHandler(y)
                                  \/ DaemonReplies(y) \/ ForwardFails(y)
      PROVE  /\ req[y].st \notin {"idle", "sent"}
             /\ req'[y].inst = req[y].inst
             /\ req'[y].id = req[y].id
             /\ Target(y)' = Target(y)
  <2>1. /\ req[y].st \notin {"idle", "sent"}
        /\ req[y].inst \in 0..MaxInst
        /\ req[y].ok \in BOOLEAN
    BY <1>3, <1>n
       DEF Accept, RunHandler, DaemonReplies, ForwardFails, Requests
  <2>2. PICK s \in States, ok \in BOOLEAN : SetReq(y, s, req[y].inst, ok)
    BY <1>3, <2>1, <1>u
       DEF Accept, RunHandler, DaemonReplies, ForwardFails
  <2> QED
    BY <2>1, <2>2, <1>s
<1>4. ASSUME NEW y \in Callers, req'[y].st \notin {"idle", "sent"}
      PROVE  /\ req'[y].inst <= inst'[Target(y)']
             /\ life'[Target(y)'] \in {"made", "init"}
                  => req'[y].inst # inst'[Target(y)']
  <2>1. CASE req'[y] = req[y]
    <3>1. Target(y)' = Target(y) /\ req[y].st \notin {"idle", "sent"}
      BY <1>4, <2>1 DEF Target
    <3> QED
      BY <1>2, <1>n, <2>1, <3>1, InstStep
  <2>2. CASE StartHandler(y) /\ UNCHANGED grpVars
    <3>1. Target(y) \in Servers
      BY <2>2, <1>n, TargetType DEF StartHandler
    <3>2. servers[Target(y)] # 0 /\ servers[Target(y)] \in 0..MaxInst
      BY <2>2, <3>1, <1>n DEF StartHandler, Routable
    <3>3. req'[y].inst = servers[Target(y)] /\ Target(y)' = Target(y)
      BY <2>2, <3>2, <1>s, <1>u DEF StartHandler
    <3>4. servers[Target(y)] = inst[Target(y)]
          /\ life[Target(y)] \in {"up", "cut"}
      BY <3>1, <3>2, <1>n DEF OnNetwork
    <3> QED
      BY <2>2, <3>1, <3>3, <3>4, <1>n DEF grpVars
  <2>3. CASE \/ Accept(y) /\ UNCHANGED grpVars
             \/ RunHandler(y) \/ DaemonReplies(y) \/ ForwardFails(y)
    <3>1. UNCHANGED <<life, inst>>
      BY <2>3 DEF RunHandler, DaemonReplies, ForwardFails, grpVars
    <3> QED
      BY <2>3, <3>1, <1>2, <1>3
  <2> QED
    BY <1>4, <2>1, <2>2, <2>3, ReqStep
<1>5. InstKnown'
  BY <1>4 DEF InstKnown
<1>6. ASSUME NEW y \in Callers,
             req'[y].st = "executed" \/ (req'[y].st = "answered" /\ req'[y].ok),
             DaemonRuns(Target(y), req[y].inst)'
      PROVE  Holds(disk'[Target(y)'], req'[y].id)
  <2>1. CASE req'[y] = req[y]
    <3>1. /\ Target(y)' = Target(y)
          /\ req[y].st \notin {"idle", "sent"}
          /\ req[y].st = "executed" \/ (req[y].st = "answered" /\ req[y].ok)
      BY <1>6, <2>1 DEF Target
    <3>2. ASSUME NEW k, NEW n, NEW d,
                 k = Target(y), n = req[y].inst, d = req[y].id
          PROVE  Holds(disk'[k], d)
      <4>1. DaemonRuns(k, n)'
        BY <1>6, <2>1, <3>1, <3>2 DEF DaemonRuns
      <4>2. k \in Servers /\ ~(life[k] = "made" /\ inst[k] = n)
        BY <1>2, <3>1, <3>2
      <4>3. DaemonRuns(k, n)
        BY <4>1, <4>2, DaemonStep
      <4>4. Holds(disk[k], d)
        BY <3>1, <3>2, <4>3 DEF DurableInv, ExecutedIsSaved
      <4> QED
        BY <4>1, <4>2, <4>3, <4>4, DaemonStep
    <3> QED
      BY <2>1, <3>1, <3>2
  <2>2. CASE RunHandler(y)
    BY <2>2, <1>2, <1>3, SaveKeeps DEF RunHandler
  <2>3. CASE DaemonReplies(y)
    <3>1. /\ Target(y)' = Target(y)
          /\ req'[y].inst = req[y].inst
          /\ req'[y].id = req[y].id
          /\ UNCHANGED <<life, inst, disk>>
          /\ req[y].st = "executed"
      BY <2>3, <1>3 DEF DaemonReplies, grpVars
    <3>2. DaemonRuns(Target(y), req[y].inst)
      BY <1>6, <3>1 DEF DaemonRuns
    <3> QED
      BY <3>1, <3>2 DEF DurableInv, ExecutedIsSaved
  <2>4. CASE StartHandler(y) \/ Accept(y) \/ ForwardFails(y)
    <3>1. /\ StartHandler(y) => servers[Target(y)] \in 0..MaxInst
          /\ req[y].inst \in 0..MaxInst
          /\ req[y].ok \in BOOLEAN
      BY <1>n, TargetType DEF StartHandler, Requests
    <3>2. PICK n \in 0..MaxInst, ok \in BOOLEAN :
            \/ SetReq(y, "running", n, ok)
            \/ SetReq(y, "delivering", n, ok)
            \/ SetReq(y, "answered", n, FALSE)
      BY <2>4, <3>1 DEF StartHandler, Accept, ForwardFails
    <3>3. /\ "running" \in States
          /\ "delivering" \in States
          /\ "answered" \in States
          /\ FALSE \in BOOLEAN
      BY <1>u
    <3>4. CASE SetReq(y, "running", n, ok)
      <4>1. req'[y].st = "running"
        BY <3>3, <3>4, <1>s
      <4> QED
        BY <4>1, <1>6
    <3>5. CASE SetReq(y, "delivering", n, ok)
      <4>1. req'[y].st = "delivering"
        BY <3>3, <3>5, <1>s
      <4> QED
        BY <4>1, <1>6
    <3>6. CASE SetReq(y, "answered", n, FALSE)
      <4>1. req'[y].st = "answered" /\ req'[y].ok = FALSE
        BY <3>3, <3>6, <1>s
      <4> QED
        BY <4>1, <1>6
    <3> QED
      BY <3>2, <3>4, <3>5, <3>6
  <2> QED
    BY <1>6, <2>1, <2>2, <2>3, <2>4, ReqStep
<1>7. ExecutedIsSaved'
  BY <1>6 DEF ExecutedIsSaved
<1>8. ASSUME NEW y \in Callers, req'[y].st = "delivering", req'[y].ok
      PROVE  Durable(Target(y), req[y].id)'
  <2>1. CASE req'[y] = req[y]
    <3>1. Target(y)' = Target(y) /\ req[y].st = "delivering" /\ req[y].ok
      BY <1>8, <2>1 DEF Target
    <3>2. Durable(Target(y), req[y].id)
      BY <3>1 DEF DurableInv, DeliveringIsDurable
    <3>3. Target(y) \in Servers
      BY <3>1, <1>2
    <3>4. ASSUME NEW k, NEW id, k = Target(y), id = req[y].id
          PROVE  Durable(k, id)'
      BY <3>2, <3>3, <3>4, DurableStep
    <3> QED
      BY <2>1, <3>1, <3>4 DEF Durable
  <2>2. CASE Accept(y) /\ UNCHANGED grpVars
    <3>1. /\ req[y].st = "answered"
          /\ req[y].ok \in BOOLEAN
          /\ req[y].inst \in 0..MaxInst
          /\ req[y].inst # 0
          /\ Target(y) \in Servers
          /\ servers[Target(y)] = req[y].inst
      BY <2>2, <1>2, <1>n DEF Accept, IsServerDead, NetTypeOK, Requests
    <3>2. /\ req'[y].ok = req[y].ok
          /\ req'[y].id = req[y].id
          /\ Target(y)' = Target(y)
      BY <2>2, <3>1, <1>s, <1>u DEF Accept
    <3>3. servers[Target(y)] = inst[Target(y)]
          /\ life[Target(y)] \in {"up", "cut"}
      BY <3>1, <1>n DEF OnNetwork
    <3>4. DaemonRuns(Target(y), req[y].inst)
      BY <3>1, <3>3 DEF DaemonRuns
    <3>5. Holds(disk[Target(y)], req[y].id)
      BY <1>8, <3>1, <3>2, <3>4 DEF DurableInv, ExecutedIsSaved
    <3>6. UNCHANGED <<life, disk, saved>>
      BY <2>2 DEF grpVars
    <3> QED
      BY <3>2, <3>3, <3>5, <3>6 DEF Durable
  <2>3. CASE \/ StartHandler(y) \/ RunHandler(y) \/ DaemonReplies(y)
             \/ ForwardFails(y)
    <3>1. /\ StartHandler(y) => servers[Target(y)] \in 0..MaxInst
          /\ req[y].inst \in 0..MaxInst
      BY <1>n, TargetType DEF StartHandler, Requests
    <3> QED
      BY <1>8, <2>3, <3>1, <1>s, <1>u
         DEF StartHandler, RunHandler, DaemonReplies, ForwardFails
  <2> QED
    BY <1>8, <2>1, <2>2, <2>3, ReqStep
<1>9. DeliveringIsDurable'
  BY <1>8 DEF DeliveringIsDurable
<1>10. AckedIsDurable'
  <2> SUFFICES ASSUME NEW a \in acked'
               PROVE  Durable(a.server, a.id)'
    BY DEF AckedIsDurable
  <2>1. Durable(a.server, a.id) /\ a.server \in Servers
    <3>1. CASE a \in acked
      BY <3>1 DEF DurableInv, AckedIsDurable, TypeOK, NetTypeOK
    <3>2. CASE a \notin acked
      <4>1. PICK x \in Callers :
              /\ req[x].st = "delivering"
              /\ req[x].ok
              /\ a = [server |-> Target(x), id |-> req[x].id]
        BY <3>2, AckedStep
      <4> QED
        BY <4>1, <1>2 DEF DurableInv, DeliveringIsDurable
    <3> QED
      BY <3>1, <3>2
  <2>2. ASSUME NEW k, NEW id, k = a.server, id = a.id
        PROVE  Durable(k, id)'
    BY <2>1, <2>2, DurableStep
  <2> QED
    BY <2>2
<1> QED
  BY <1>1, <1>5, <1>7, <1>9, <1>10 DEF DurableInv

\* A call that returned true is in the state that its server is restarted
\* from, for any number of servers, clients, restarts and calls.
THEOREM AckedCallsAreDurable == Spec => []AckedIsDurable
<1>1. Init => DurableInv
  BY DEF Init, MakeNetwork, NoRequest, DurableInv, OnNetwork, InstKnown,
     ExecutedIsSaved, DeliveringIsDurable, AckedIsDurable
<1>2. DurableInv => AckedIsDurable
  BY DEF DurableInv
<1> QED
  BY <1>1, <1>2, DurableInvStep, TypeCorrect, PTL DEF Spec

=============================================================================
