--------------------------- MODULE KVSystemProofs ---------------------------
(***************************************************************************)
(* Proofs about KVSystem, for any number of clients, keys, values and      *)
(* operations, any network and any bound on handlers left behind.          *)
(***************************************************************************)
EXTENDS KVRefinement, TLAPS

-----------------------------------------------------------------------------
(* Type correctness of the steps of the clerk, the network and the server. *)

\* Nothing has happened yet.
LEMMA KVInitType == KVInit => KVTypeOK
BY NullAssumption
DEF KVInit, MakeKVServer, ClerkInit, KVTypeOK, StoreTypeOK, ClerkTypeOK

\* Steps of others leave the types alone.
LEMMA KVUnchangedType == KVTypeOK /\ UNCHANGED kvVars => KVTypeOK'
BY DEF KVTypeOK, StoreTypeOK, ClerkTypeOK, kvVars, storeVars, clerkVars,
       netVars

\* An operation that is being started is well-formed.
LEMMA StartType ==
  ASSUME KVTypeOK, NEW c \in Clients, NEW o \in Ops, Start(c, o)
  PROVE  KVTypeOK'
BY NullAssumption
DEF KVTypeOK, StoreTypeOK, ClerkTypeOK, Start, storeVars, netVars

\* A failed call keeps the clerk's types.
LEMMA ResendType ==
  ASSUME KVTypeOK, NEW c \in Clients, rpc[c] # "idle", Resend(c),
         (enabled \in [Clients -> BOOLEAN])',
         (late \in [LateSlots -> Ops \cup {NoOp}])'
  PROVE  ClerkTypeOK'
BY DEF KVTypeOK, ClerkTypeOK, Resend

\* A handler that runs with well-formed arguments keeps the maps' types.
LEMMA PutType ==
  ASSUME StoreTypeOK, NEW o \in Ops, Put(o)
  PROVE  StoreTypeOK'
BY DEF StoreTypeOK, Put, storeVars, Ops

\* The replies of both handlers are well-formed.
LEMMA ReplyType ==
  ASSUME StoreTypeOK, NEW o \in Ops
  PROVE  Get(o) \in Replies /\ PutReply(o) \in Replies
BY DEF StoreTypeOK, Ops, Get, PutReply, PutErr, Replies, Errs

\* The clerk operations in progress and the handlers left behind have
\* well-formed arguments.
LEMMA OpType ==
  ASSUME KVTypeOK
  PROVE  /\ \A c \in Clients : rpc[c] # "idle" => op[c] \in Ops
         /\ \A s \in LateSlots : late[s] # NoOp => late[s] \in Ops
BY DEF KVTypeOK, ClerkTypeOK

\* A handler that answers keeps the state well-typed.
LEMMA HandleType ==
  ASSUME KVTypeOK, NEW c \in Clients, Handle(c)
  PROVE  KVTypeOK'
<1>1. op[c] \in Ops
  BY OpType DEF Handle
<1>2. StoreTypeOK'
  BY <1>1, PutType DEF Handle, KVTypeOK, StoreTypeOK, storeVars
<1>3. Get(op[c]) \in Replies /\ PutReply(op[c]) \in Replies
  BY <1>1, ReplyType DEF KVTypeOK
<1>4. ClerkTypeOK'
  BY <1>3, NullAssumption DEF Handle, KVTypeOK, ClerkTypeOK, netVars
<1> QED
  BY <1>2, <1>4 DEF KVTypeOK

\* A handler left behind (processReq) keeps the state well-typed.
LEMMA HandleLateType ==
  ASSUME KVTypeOK, NEW s \in LateSlots, HandleLate(s)
  PROVE  KVTypeOK'
<1>1. StoreTypeOK'
  BY OpType, PutType DEF HandleLate, KVTypeOK
<1>2. ClerkTypeOK'
  BY DEF HandleLate, KVTypeOK, ClerkTypeOK, clerkVars
<1> QED
  BY <1>1, <1>2 DEF KVTypeOK

\* What Clerk.Put makes of a reply is an error of rpc.go.
LEMMA ClerkErrType ==
  ASSUME KVTypeOK, NEW c \in Clients, rpc[c] = "replied"
  PROVE  reply[c] \in Replies /\ ClerkErr(c) \in Errs
BY DEF KVTypeOK, ClerkTypeOK, ClerkErr, Replies, Errs

\* The return of a Clerk operation keeps the state well-typed.
LEMMA ReturnType ==
  ASSUME KVTypeOK, NEW c \in Clients, Return(c)
  PROVE  KVTypeOK'
<1>1. [Err |-> ClerkErr(c), Value |-> reply[c].Value,
       Version |-> reply[c].Version] \in Replies
  BY ClerkErrType DEF Return, Replies
<1> QED
  BY <1>1
  DEF Return, KVTypeOK, StoreTypeOK, ClerkTypeOK, storeVars, netVars

\* Losses, dispatch, giving up on a handler, and Enable.
LEMMA NetworkType ==
  ASSUME KVTypeOK, NEW c \in Clients,
         \/ LoseRequest(c)
         \/ LoseReply(c)
         \/ Dispatch(c)
         \/ GiveUp(c)
         \/ Enable(c)
  PROVE  KVTypeOK'
<1>1. CASE LoseRequest(c) \/ LoseReply(c)
  BY <1>1, ResendType
  DEF LoseRequest, LoseReply, KVTypeOK, StoreTypeOK, ClerkTypeOK, storeVars,
      netVars
<1>2. CASE Dispatch(c)
  BY <1>2
  DEF Dispatch, KVTypeOK, StoreTypeOK, ClerkTypeOK, storeVars, netVars
<1>3. CASE GiveUp(c)
  <2>1. (late \in [LateSlots -> Ops \cup {NoOp}])'
    BY <1>3, OpType DEF GiveUp, KVTypeOK, ClerkTypeOK
  <2>2. StoreTypeOK' /\ (enabled \in [Clients -> BOOLEAN])'
    BY <1>3 DEF GiveUp, KVTypeOK, StoreTypeOK, ClerkTypeOK, storeVars
  <2> QED
    BY <1>3, <2>1, <2>2, ResendType DEF GiveUp, KVTypeOK
<1>4. CASE Enable(c)
  BY <1>4
  DEF Enable, KVTypeOK, StoreTypeOK, ClerkTypeOK, storeVars, clerkVars
<1> QED
  BY <1>1, <1>2, <1>3, <1>4

-----------------------------------------------------------------------------
(* Type correctness. *)

\* Every step of applications, clerks, network and server keeps the types.
LEMMA TypeStep == TypeOK /\ [Next]_vars => TypeOK'
<1> SUFFICES ASSUME TypeOK, [Next]_vars PROVE TypeOK'
  OBVIOUS
<1> USE DEF histVars
<1>1. ASSUME NEW c \in Clients, NEW k \in Keys, AppGet(c, k)
      PROVE  TypeOK'
  <2>1. NewId(c) \in Ids /\ opno[c] + 1 \in 0..MaxOps
    BY <1>1, BoundsAssumption DEF TypeOK, AppGet, CanStart, NewId
  <2>2. GetOp(k, NewId(c)) \in Ops
    BY <2>1 DEF GetOp, Ops
  <2>3. KVTypeOK'
    BY <1>1, <2>2, StartType DEF AppGet, StartGet, TypeOK
  <2> QED
    BY <1>1, <2>1, <2>3 DEF TypeOK, AppGet
<1>2. ASSUME NEW c \in Clients, NEW k \in Keys, NEW v \in Values,
             AppPut(c, k, v)
      PROVE  TypeOK'
  <2>1. NewId(c) \in Ids /\ opno[c] + 1 \in 0..MaxOps
    BY <1>2, BoundsAssumption DEF TypeOK, AppPut, CanStart, NewId
  <2>2. PICK n \in PutVersions(k) : StartPut(c, k, v, n, NewId(c))
    BY <1>2 DEF AppPut
  <2>3. n \in Nat
    BY <2>2, BoundsAssumption
    DEF PutVersions, TypeOK, KVTypeOK, StoreTypeOK
  <2>4. PutOp(k, v, n, NewId(c)) \in Ops
    BY <2>1, <2>3 DEF PutOp, Ops
  <2>5. KVTypeOK'
    BY <2>2, <2>4, StartType DEF StartPut, TypeOK
  <2> QED
    BY <1>2, <2>1, <2>5 DEF TypeOK, AppPut
<1>3. ASSUME NEW o \in Ops
      PROVE  Effect(o) \subseteq [id : Ids, key : Keys, old : Nat]
  BY DEF Effect, Ops, TypeOK, KVTypeOK, StoreTypeOK
<1>4. ASSUME NEW c \in Clients, RunHandler(c)
      PROVE  TypeOK'
  <2>1. op[c] \in Ops
    BY <1>4, OpType DEF RunHandler, Handle, TypeOK
  <2>2. KVTypeOK'
    BY <1>4, HandleType DEF RunHandler, TypeOK
  <2> QED
    BY <1>3, <1>4, <2>1, <2>2 DEF TypeOK, RunHandler
<1>5. ASSUME NEW c \in Clients, ClerkReturn(c)
      PROVE  TypeOK'
  <2>1. op[c] \in Ops /\ ClerkErr(c) \in Errs
    BY <1>5, OpType, ClerkErrType DEF ClerkReturn, Return, TypeOK
  <2>2. KVTypeOK'
    BY <1>5, ReturnType DEF ClerkReturn, TypeOK
  <2>3. (returned \subseteq [id : Ids, err : Errs])'
    BY <1>5, <2>1 DEF ClerkReturn, TypeOK, Ops
  <2> QED
    BY <1>5, <2>2, <2>3 DEF TypeOK, ClerkReturn
<1>6. ASSUME NEW c \in Clients, NetworkStep(c)
      PROVE  TypeOK'
  BY <1>6, NetworkType DEF NetworkStep, TypeOK
<1>7. ASSUME NEW s \in LateSlots, RunLateHandler(s)
      PROVE  TypeOK'
  <2>1. late[s] \in Ops
    BY <1>7, OpType DEF RunLateHandler, HandleLate, TypeOK
  <2>2. KVTypeOK'
    BY <1>7, HandleLateType DEF RunLateHandler, TypeOK
  <2> QED
    BY <1>3, <1>7, <2>1, <2>2 DEF TypeOK, RunLateHandler
<1>8. CASE UNCHANGED vars
  BY <1>8, KVUnchangedType DEF vars, TypeOK
<1> QED
  BY <1>1, <1>2, <1>4, <1>5, <1>6, <1>7, <1>8 DEF Next

\* Every state the clerks, the network and the server reach is well-typed;
\* in particular a reply exists exactly while a call is in state "replied".
THEOREM TypeCorrect == Spec => []TypeOK
<1>1. Init => TypeOK
  BY KVInitType, BoundsAssumption DEF Init, TypeOK
<1> QED
  BY <1>1, TypeStep, PTL DEF Spec

-----------------------------------------------------------------------------
(* How steps change the operations that handlers may run for. *)

\* Starting an operation adds that operation and takes a new name.
LEMMA LiveStart ==
  ASSUME TypeOK, NEW c \in Clients, NEW o \in Ops, Start(c, o)
  PROVE  LiveOps' \subseteq LiveOps \cup {o}
BY DEF LiveOps, Start, TypeOK, KVTypeOK, ClerkTypeOK, netVars

\* The name a new Get or Put is given has not been used.
LEMMA NewIdFresh ==
  ASSUME TypeOK, NEW c \in Clients
  PROVE  ~Used(NewId(c))
BY DEF Used, NewId, TypeOK

\* Every other step can only take operations away.
LEMMA LiveShrinks ==
  ASSUME TypeOK,
         \/ \E c \in Clients : RunHandler(c) \/ ClerkReturn(c) \/ NetworkStep(c)
         \/ \E s \in LateSlots : RunLateHandler(s)
         \/ UNCHANGED vars
  PROVE  LiveOps' \subseteq LiveOps
<1>1. ASSUME NEW c \in Clients, RunHandler(c)
      PROVE  LiveOps' \subseteq LiveOps
  BY <1>1
  DEF RunHandler, Handle, LiveOps, TypeOK, KVTypeOK, ClerkTypeOK, netVars
<1>2. ASSUME NEW c \in Clients, ClerkReturn(c)
      PROVE  LiveOps' \subseteq LiveOps
  BY <1>2
  DEF ClerkReturn, Return, LiveOps, TypeOK, KVTypeOK, ClerkTypeOK, netVars
<1>3. ASSUME NEW c \in Clients, NetworkStep(c)
      PROVE  LiveOps' \subseteq LiveOps
  <2>1. CASE LoseRequest(c) \/ LoseReply(c)
    BY <2>1 DEF LoseRequest, LoseReply, Resend, LiveOps, TypeOK, KVTypeOK,
                ClerkTypeOK, netVars
  <2>2. CASE Dispatch(c)
    BY <2>2 DEF Dispatch, LiveOps, TypeOK, KVTypeOK, ClerkTypeOK, netVars
  <2>3. CASE GiveUp(c)
    BY <2>3 DEF GiveUp, Resend, LiveOps, TypeOK, KVTypeOK, ClerkTypeOK
  <2>4. CASE Enable(c)
    BY <2>4 DEF Enable, clerkVars, LiveOps
  <2> QED
    BY <1>3, <2>1, <2>2, <2>3, <2>4 DEF NetworkStep
<1>4. ASSUME NEW s \in LateSlots, RunLateHandler(s)
      PROVE  LiveOps' \subseteq LiveOps
  BY <1>4 DEF RunLateHandler, HandleLate, clerkVars, LiveOps, TypeOK, KVTypeOK,
              ClerkTypeOK
<1>5. CASE UNCHANGED vars
  BY <1>5 DEF vars, kvVars, clerkVars, netVars, LiveOps
<1> QED
  BY <1>1, <1>2, <1>3, <1>4, <1>5

\* Whatever a handler may run for is an operation.
LEMMA LiveType == TypeOK => LiveOps \subseteq Ops
BY DEF TypeOK, KVTypeOK, ClerkTypeOK, LiveOps

-----------------------------------------------------------------------------
(* Handlers. *)

\* What a handler does to the versions, and what it adds to the history.
LEMMA HandlerRuns ==
  ASSUME TypeOK, NEW o \in Ops,
         \/ o.Op = "Get" /\ UNCHANGED storeVars
         \/ Put(o)
  PROVE  /\ \A k \in Keys : dataVersion[k] <= dataVersion'[k]
         /\ \A a \in Effect(o) :
              /\ a = [id |-> o.id, key |-> o.Key, old |-> o.Version]
              /\ dataVersion[o.Key] = o.Version
              /\ dataVersion'[o.Key] = o.Version + 1
<1>1. dataVersion \in [Keys -> Nat] /\ o.Key \in Keys /\ o.Version \in Nat
  BY DEF TypeOK, KVTypeOK, StoreTypeOK, Ops
<1>2. PutPerforms(o) => dataVersion[o.Key] = o.Version
  BY <1>1 DEF PutPerforms, PutErr, Present
<1>3. CASE o.Op = "Get" /\ UNCHANGED storeVars
  BY <1>1, <1>3 DEF storeVars, Effect
<1>4. CASE Put(o)
  BY <1>1, <1>2, <1>4 DEF Put, Effect, storeVars
<1> QED
  BY <1>3, <1>4

\* The part of the invariant that is about the history alone, together with
\* the properties it carries.
HistoryPart ==
  /\ \A a \in applied : Used(a.id)
  /\ SameArgs
  /\ VersionPassed
  /\ AtMostOnce
  /\ VersionReplacedOnce
  /\ ErrVersionDead
  /\ AnswerIsTrue

\* A handler that runs for a live operation keeps it: if the operation had
\* been performed before, the version it asks for would have been passed.
LEMMA HandlerKeepsHistory ==
  ASSUME TypeOK, IdsUsed, HistoryPart, NEW o \in LiveOps,
         \/ o.Op = "Get" /\ UNCHANGED storeVars
         \/ Put(o),
         applied' = applied \cup Effect(o),
         UNCHANGED <<opno, returned>>,
         LiveOps' \subseteq LiveOps
  PROVE  HistoryPart'
<1>1. o \in Ops
  BY LiveType
<1>2. /\ \A k \in Keys : dataVersion[k] <= dataVersion'[k]
      /\ \A a \in Effect(o) :
           /\ a = [id |-> o.id, key |-> o.Key, old |-> o.Version]
           /\ dataVersion[o.Key] = o.Version
           /\ dataVersion'[o.Key] = o.Version + 1
  BY <1>1, HandlerRuns
<1>3. /\ o.Key \in Keys /\ o.Version \in Nat
      /\ \A a \in applied : a.key \in Keys /\ a.old \in Nat
      /\ \A k \in Keys : dataVersion[k] \in Nat /\ dataVersion'[k] \in Nat
  <2>1. \A k \in Keys : dataVersion'[k] \in Nat
    BY <1>1 DEF TypeOK, KVTypeOK, StoreTypeOK, Put, storeVars, Ops
  <2> QED
    BY <1>1, <2>1 DEF Ops, TypeOK, KVTypeOK, StoreTypeOK
<1>4. \A a \in Effect(o), b \in applied :
        b.id # a.id /\ ~(b.key = a.key /\ b.old = a.old)
  BY <1>2, <1>3 DEF HistoryPart, SameArgs, VersionPassed
<1>5. (\A a \in applied : Used(a.id))'
  BY <1>2 DEF IdsUsed, HistoryPart, Used
<1>6. SameArgs'
  BY <1>2 DEF HistoryPart, SameArgs
<1>7. VersionPassed'
  BY <1>2, <1>3 DEF HistoryPart, VersionPassed
<1>8. AtMostOnce' /\ VersionReplacedOnce'
  BY <1>2, <1>4 DEF HistoryPart, AtMostOnce, VersionReplacedOnce
<1>9. ErrVersionDead'
  BY DEF HistoryPart, ErrVersionDead
<1>10. AnswerIsTrue'
  BY <1>2 DEF HistoryPart, AnswerIsTrue, ErrVersionDead
<1> QED
  BY <1>5, <1>6, <1>7, <1>8, <1>9, <1>10 DEF HistoryPart

-----------------------------------------------------------------------------
(* The inductive step. *)

KVInv ==
  /\ TypeOK
  /\ HistoryInv
  /\ AtMostOnce
  /\ VersionReplacedOnce
  /\ AnswerIsTrue

\* Starting an operation disturbs nothing: its name is new.
LEMMA StartKeepsInv ==
  ASSUME KVInv, TypeOK', NEW c \in Clients, NEW o \in Ops,
         o.id = NewId(c), Start(c, o),
         opno' = [opno EXCEPT ![c] = @ + 1],
         UNCHANGED <<applied, returned>>
  PROVE  KVInv'
<1>1. \A i : Used(i) => i # o.id /\ Used(i)'
  BY NewIdFresh DEF Used, KVInv, TypeOK
<1>2. Used(o.id)'
  BY DEF Used, NewId, KVInv, TypeOK
<1>3. LiveOps' \subseteq LiveOps \cup {o}
  BY LiveStart DEF KVInv
<1>4. \A p \in LiveOps : p.id # o.id
  BY <1>1 DEF KVInv, HistoryInv, IdsUsed
<1>5. \A a \in applied : a.id # o.id
  BY <1>1 DEF KVInv, HistoryInv, IdsUsed
<1>6. \A r \in returned : r.id # o.id
  BY <1>1 DEF KVInv, HistoryInv, IdsUsed
<1>7. IdsUsed'
  <2>1. (\A d \in Clients : rpc[d] # "idle" => op[d].id = <<d, opno[d]>>)'
    BY DEF KVInv, TypeOK, KVTypeOK, ClerkTypeOK, HistoryInv, IdsUsed, Start,
           NewId
  <2> QED
    BY <1>1, <1>2, <1>3, <2>1 DEF KVInv, HistoryInv, IdsUsed
<1>8. SameArgs'
  BY <1>3, <1>4, <1>5 DEF KVInv, HistoryInv, SameArgs
<1>9. VersionPassed'
  BY DEF KVInv, HistoryInv, VersionPassed, Start, storeVars
<1>10. NotReturned'
  BY <1>6
  DEF KVInv, TypeOK, KVTypeOK, ClerkTypeOK, HistoryInv, NotReturned, Start
<1>11. FirstCall'
  <2>1. \A s \in LateSlots : late[s] # NoOp => late[s].id # o.id
    BY <1>4 DEF LiveOps
  <2> QED
    BY <1>5, <2>1
    DEF KVInv, TypeOK, KVTypeOK, ClerkTypeOK, HistoryInv, FirstCall, Start,
        netVars
<1>12. ReplyTrue'
  BY DEF KVInv, TypeOK, KVTypeOK, ClerkTypeOK, HistoryInv, ReplyTrue, Start
<1>13. ErrVersionDead'
  BY <1>3, <1>6 DEF KVInv, HistoryInv, ErrVersionDead
<1>14. AtMostOnce' /\ VersionReplacedOnce' /\ AnswerIsTrue'
  BY DEF KVInv, AtMostOnce, VersionReplacedOnce, AnswerIsTrue
<1> QED
  BY <1>7, <1>8, <1>9, <1>10, <1>11, <1>12, <1>13, <1>14
  DEF KVInv, HistoryInv

\* KVServer.Get and KVServer.Put, run for a waiting call, keep HistoryInv.
LEMMA RunHandlerKeepsInv ==
  ASSUME KVInv, TypeOK', NEW c \in Clients, RunHandler(c)
  PROVE  KVInv'
<1> USE DEF KVInv
<1>1. op[c] \in LiveOps /\ op[c] \in Ops
  BY OpType DEF RunHandler, Handle, LiveOps, TypeOK
<1>2. LiveOps' \subseteq LiveOps
  BY LiveShrinks
<1>3. \/ op[c].Op = "Get" /\ UNCHANGED storeVars
      \/ Put(op[c])
  BY DEF RunHandler, Handle
<1>4. HistoryPart'
  BY <1>1, <1>2, <1>3, HandlerKeepsHistory
  DEF RunHandler, HistoryPart, HistoryInv, IdsUsed
<1>5. IdsUsed'
  BY <1>2, <1>4
  DEF HistoryPart, HistoryInv, IdsUsed, RunHandler, Handle, Used, TypeOK,
      KVTypeOK, ClerkTypeOK
<1>6. NotReturned'
  BY DEF HistoryInv, NotReturned, RunHandler, Handle, TypeOK, KVTypeOK,
         ClerkTypeOK
<1>7. \A a \in Effect(op[c]) :
        /\ a.id = <<c, opno[c]>>
        /\ op[c].Op = "Put" /\ PutReply(op[c]).Err = "OK"
  BY DEF Effect, PutPerforms, PutReply, HistoryInv, IdsUsed, RunHandler,
         Handle
<1>8. FirstCall'
  <2> SUFFICES ASSUME NEW d \in Clients, rpc'[d] # "idle", first'[d]
               PROVE
                 /\ \A s \in LateSlots :
                      late[s] # NoOp => late[s].id # op[d].id
                 /\ \A a \in applied' :
                      a.id = op[d].id
                        => rpc'[d] = "replied" /\ reply'[d].Err = "OK"
    BY DEF FirstCall, RunHandler, Handle, netVars
  <2>1. rpc[d] # "idle" /\ first[d] /\ op[d].id = <<d, opno[d]>>
    BY DEF RunHandler, Handle, TypeOK, KVTypeOK, ClerkTypeOK, HistoryInv,
           IdsUsed
  <2>2. \A s \in LateSlots : late[s] # NoOp => late[s].id # op[d].id
    BY <2>1 DEF HistoryInv, FirstCall
  <2>3. \A a \in applied :
          a.id = op[d].id => rpc[d] = "replied" /\ reply[d].Err = "OK"
    BY <2>1 DEF HistoryInv, FirstCall
  <2>4. CASE d = c
    <3>1. \A a \in applied : a.id # op[c].id
      BY <2>3, <2>4 DEF RunHandler, Handle
    <3>2. Effect(op[c]) # {} => reply'[c] = PutReply(op[c])
      BY <1>7, <1>1
      DEF RunHandler, Handle, TypeOK, KVTypeOK, ClerkTypeOK, Ops
    <3>3. rpc'[c] = "replied"
      BY DEF RunHandler, Handle, TypeOK, KVTypeOK, ClerkTypeOK
    <3> QED
      BY <1>7, <2>2, <2>4, <3>1, <3>2, <3>3 DEF RunHandler
  <2>5. CASE d # c
    <3>1. rpc'[d] = rpc[d] /\ reply'[d] = reply[d]
      BY <2>5 DEF RunHandler, Handle, TypeOK, KVTypeOK, ClerkTypeOK
    <3>2. \A a \in Effect(op[c]) : a.id # op[d].id
      BY <1>7, <2>1, <2>5
    <3> QED
      BY <2>2, <2>3, <3>1, <3>2 DEF RunHandler
  <2> QED
    BY <2>4, <2>5
<1>9. ReplyTrue'
  <2>1. ASSUME op[c].Op = "Put", reply'[c].Err = "OK"
        PROVE  Effect(op[c]) # {}
    <3>1. reply'[c] = PutReply(op[c])
      BY <2>1 DEF RunHandler, Handle, TypeOK, KVTypeOK, ClerkTypeOK
    <3>2. PutPerforms(op[c])
      BY <2>1, <3>1 DEF PutReply, PutPerforms
    <3> QED
      BY <2>1, <3>2 DEF Effect
  <2>2. \A a \in Effect(op[c]) : a.id = op[c].id
    BY DEF Effect
  <2> QED
    BY <2>1, <2>2
    DEF HistoryInv, ReplyTrue, RunHandler, Handle, TypeOK, KVTypeOK,
        ClerkTypeOK
<1> QED
  BY <1>4, <1>5, <1>6, <1>8, <1>9 DEF HistoryInv, HistoryPart

\* KVServer.Put, run for a call that was given up, keeps HistoryInv.
LEMMA RunLateHandlerKeepsInv ==
  ASSUME KVInv, TypeOK', NEW s \in LateSlots, RunLateHandler(s)
  PROVE  KVInv'
<1> USE DEF KVInv
<1>1. late[s] \in LiveOps
  BY DEF RunLateHandler, HandleLate, LiveOps
<1>2. LiveOps' \subseteq LiveOps
  BY LiveShrinks
<1>3. HistoryPart'
  BY <1>1, <1>2, HandlerKeepsHistory
  DEF RunLateHandler, HandleLate, HistoryPart, HistoryInv, IdsUsed
<1>4. UNCHANGED <<op, first, rpc, reply, opno, returned>>
  BY DEF RunLateHandler, HandleLate, clerkVars
<1>5. IdsUsed'
  BY <1>2, <1>3, <1>4 DEF HistoryPart, HistoryInv, IdsUsed, Used
<1>6. NotReturned'
  BY <1>4 DEF HistoryInv, NotReturned
<1>7. FirstCall'
  <2>1. \A a \in Effect(late[s]) : a.id = late[s].id
    BY DEF Effect
  <2>2. \A t \in LateSlots : late'[t] # NoOp => late'[t] = late[t]
    BY DEF RunLateHandler, HandleLate, TypeOK, KVTypeOK, ClerkTypeOK
  <2>3. late[s] # NoOp /\ applied' = applied \cup Effect(late[s])
    BY DEF RunLateHandler, HandleLate
  <2> QED
    BY <1>4, <2>1, <2>2, <2>3 DEF HistoryInv, FirstCall
<1>8. ReplyTrue'
  BY <1>4 DEF HistoryInv, ReplyTrue, RunLateHandler
<1> QED
  BY <1>3, <1>5, <1>6, <1>7, <1>8 DEF HistoryInv, HistoryPart

\* The return of Clerk.Get or Clerk.Put keeps HistoryInv.
LEMMA ClerkReturnKeepsInv ==
  ASSUME KVInv, TypeOK', NEW c \in Clients, ClerkReturn(c)
  PROVE  KVInv'
<1> USE DEF KVInv
<1>1. LiveOps' \subseteq LiveOps
  BY LiveShrinks
<1>2. /\ rpc[c] = "replied" /\ rpc' = [rpc EXCEPT ![c] = "idle"]
      /\ op' = [op EXCEPT ![c] = NoOp]
      /\ first' = [first EXCEPT ![c] = TRUE]
      /\ reply' = [reply EXCEPT ![c] = NoReply]
      /\ UNCHANGED <<data, dataVersion, enabled, late, opno, applied>>
  BY DEF ClerkReturn, Return, storeVars, netVars
<1>3. op[c].id = <<c, opno[c]>> /\ op[c] \in LiveOps
  BY <1>2 DEF HistoryInv, IdsUsed, LiveOps
<1>4. \A r \in returned' \ returned :
        op[c].Op = "Put" /\ r = [id |-> op[c].id, err |-> ClerkErr(c)]
  BY DEF ClerkReturn
<1>5. returned \subseteq returned'
  BY DEF ClerkReturn
<1>6. IdsUsed'
  BY <1>1, <1>2, <1>3, <1>4
  DEF HistoryInv, IdsUsed, Used, TypeOK, KVTypeOK, ClerkTypeOK
<1>7. SameArgs' /\ VersionPassed' /\ AtMostOnce' /\ VersionReplacedOnce'
  BY <1>1, <1>2
  DEF HistoryInv, SameArgs, VersionPassed, AtMostOnce, VersionReplacedOnce
<1>8. NotReturned'
  <2> SUFFICES ASSUME NEW d \in Clients, NEW r \in returned',
                      rpc'[d] # "idle"
               PROVE  r.id # op'[d].id
    BY DEF NotReturned
  <2>1. d # c /\ rpc[d] # "idle" /\ op'[d] = op[d]
    BY <1>2 DEF TypeOK, KVTypeOK, ClerkTypeOK
  <2>2. op[d].id = <<d, opno[d]>>
    BY <2>1 DEF HistoryInv, IdsUsed
  <2> QED
    BY <1>3, <1>4, <2>1, <2>2 DEF HistoryInv, NotReturned
<1>9. FirstCall'
  BY <1>2 DEF HistoryInv, FirstCall, TypeOK, KVTypeOK, ClerkTypeOK
<1>10. ReplyTrue'
  BY <1>2 DEF HistoryInv, ReplyTrue, TypeOK, KVTypeOK, ClerkTypeOK
<1>11. ASSUME NEW r \in returned' \ returned, r.err = "ErrVersion"
       PROVE  first[c] /\ reply[c].Err # "OK"
  BY <1>4, <1>11 DEF ClerkErr
<1>12. ErrVersionDead'
  <2> SUFFICES ASSUME NEW r \in returned', NEW o \in LiveOps',
                      r.err = "ErrVersion"
               PROVE  o.id # r.id
    BY DEF ErrVersionDead
  <2>1. CASE r \in returned
    BY <1>1, <2>1 DEF HistoryInv, ErrVersionDead
  <2>2. CASE r \notin returned
    <3>1. r.id = op[c].id /\ first[c]
      BY <1>4, <1>11, <2>2
    <3>2. \A s \in LateSlots : late[s] # NoOp => late[s].id # op[c].id
      BY <1>2, <3>1 DEF HistoryInv, FirstCall
    <3>3. \A d \in Clients : d # c /\ rpc[d] # "idle" => op[d].id # op[c].id
      BY <1>3 DEF HistoryInv, IdsUsed
    <3>4. \/ \E d \in Clients : d # c /\ rpc[d] # "idle" /\ o = op[d]
          \/ \E s \in LateSlots : late[s] # NoOp /\ o = late[s]
      BY <1>2 DEF LiveOps, TypeOK, KVTypeOK, ClerkTypeOK
    <3> QED
      BY <3>1, <3>2, <3>3, <3>4
  <2> QED
    BY <2>1, <2>2
<1>13. AnswerIsTrue'
  <2> SUFFICES ASSUME NEW r \in returned'
               PROVE
                 /\ r.err = "OK" => \E a \in applied : a.id = r.id
                 /\ r.err = "ErrVersion" => \A a \in applied : a.id # r.id
    BY <1>2 DEF AnswerIsTrue
  <2>1. CASE r \in returned
    BY <2>1 DEF AnswerIsTrue
  <2>2. CASE r \notin returned
    <3>1. r.id = op[c].id /\ r.err = ClerkErr(c) /\ op[c].Op = "Put"
      BY <1>4, <2>2
    <3>2. r.err = "OK" => reply[c].Err = "OK"
      BY <3>1 DEF ClerkErr
    <3>3. r.err = "OK" => \E a \in applied : a.id = r.id
      BY <1>2, <3>1, <3>2 DEF HistoryInv, ReplyTrue
    <3>4. r.err = "ErrVersion" => \A a \in applied : a.id # r.id
      BY <1>2, <1>11, <2>2, <3>1 DEF HistoryInv, FirstCall
    <3> QED
      BY <3>3, <3>4
  <2> QED
    BY <2>1, <2>2
<1> QED
  BY <1>6, <1>7, <1>8, <1>9, <1>10, <1>12, <1>13 DEF HistoryInv

\* Losses, deliveries and Enable keep HistoryInv.
LEMMA NetworkStepKeepsInv ==
  ASSUME KVInv, TypeOK', NEW c \in Clients, NetworkStep(c)
  PROVE  KVInv'
<1> USE DEF KVInv
<1>1. LiveOps' \subseteq LiveOps
  BY LiveShrinks
<1>2. /\ UNCHANGED <<data, dataVersion, op, opno, applied, returned>>
      /\ \A d \in Clients : d # c => UNCHANGED <<rpc[d], first[d], reply[d]>>
      /\ rpc'[c] # "idle" => rpc[c] # "idle"
      /\ first'[c] => first[c]
      /\ rpc'[c] = "replied" => UNCHANGED <<rpc[c], reply[c]>>
      /\ first'[c] /\ rpc[c] = "replied" => UNCHANGED <<rpc[c], reply[c]>>
  BY DEF NetworkStep, LoseRequest, LoseReply, Dispatch, GiveUp, Enable, Resend,
         storeVars, netVars, clerkVars, histVars, TypeOK, KVTypeOK, ClerkTypeOK
<1>3. IdsUsed'
  BY <1>1, <1>2 DEF HistoryInv, IdsUsed, Used
<1>4. SameArgs' /\ VersionPassed' /\ AtMostOnce' /\ VersionReplacedOnce'
  BY <1>1, <1>2
  DEF HistoryInv, SameArgs, VersionPassed, AtMostOnce, VersionReplacedOnce
<1>5. NotReturned'
  BY <1>2 DEF HistoryInv, NotReturned
<1>6. FirstCall'
  <2> SUFFICES ASSUME NEW d \in Clients, rpc'[d] # "idle", first'[d]
               PROVE
                 /\ \A s \in LateSlots :
                      late'[s] # NoOp => late'[s].id # op[d].id
                 /\ \A a \in applied :
                      a.id = op[d].id
                        => rpc'[d] = "replied" /\ reply'[d].Err = "OK"
    BY <1>2 DEF FirstCall
  <2>1. rpc[d] # "idle" /\ first[d] /\ op[d].id = <<d, opno[d]>>
    BY <1>2 DEF HistoryInv, IdsUsed
  <2>2. \A s \in LateSlots :
          \/ late'[s] = late[s]
          \/ late'[s] = op[c] /\ rpc[c] # "idle" /\ ~first'[c]
    BY DEF NetworkStep, LoseRequest, LoseReply, Dispatch, GiveUp, Enable,
           Resend, netVars, TypeOK, KVTypeOK, ClerkTypeOK
  <2>3. \A s \in LateSlots : late'[s] # NoOp => late'[s].id # op[d].id
    BY <2>1, <2>2 DEF HistoryInv, IdsUsed, FirstCall
  <2>4. \A a \in applied :
          a.id = op[d].id => rpc'[d] = "replied" /\ reply'[d].Err = "OK"
    BY <1>2, <2>1 DEF HistoryInv, FirstCall
  <2> QED
    BY <2>3, <2>4
<1>7. ReplyTrue'
  BY <1>2 DEF HistoryInv, ReplyTrue
<1>8. ErrVersionDead' /\ AnswerIsTrue'
  BY <1>1, <1>2 DEF HistoryInv, ErrVersionDead, AnswerIsTrue
<1> QED
  BY <1>3, <1>4, <1>5, <1>6, <1>7, <1>8 DEF HistoryInv

\* HistoryInv together with the types is inductive.
LEMMA KVInvStep == KVInv /\ [Next]_vars => KVInv'
<1> SUFFICES ASSUME KVInv, [Next]_vars PROVE KVInv'
  OBVIOUS
<1>0. TypeOK'
  BY TypeStep DEF KVInv
<1>1. ASSUME NEW c \in Clients, NEW k \in Keys, AppGet(c, k)
      PROVE  KVInv'
  <2>1. GetOp(k, NewId(c)) \in Ops /\ GetOp(k, NewId(c)).id = NewId(c)
    BY <1>1, BoundsAssumption
    DEF KVInv, TypeOK, AppGet, CanStart, NewId, GetOp, Ops
  <2> QED
    BY <1>0, <1>1, <2>1, StartKeepsInv DEF AppGet, StartGet
<1>2. ASSUME NEW c \in Clients, NEW k \in Keys, NEW v \in Values,
             AppPut(c, k, v)
      PROVE  KVInv'
  <2>1. PICK n \in PutVersions(k) : StartPut(c, k, v, n, NewId(c))
    BY <1>2 DEF AppPut
  <2>2. n \in Nat
    BY <2>1, BoundsAssumption
    DEF PutVersions, KVInv, TypeOK, KVTypeOK, StoreTypeOK
  <2>3. NewId(c) \in Ids
    BY <1>2, BoundsAssumption DEF KVInv, TypeOK, AppPut, CanStart, NewId
  <2>4. PutOp(k, v, n, NewId(c)) \in Ops /\ PutOp(k, v, n, NewId(c)).id = NewId(c)
    BY <2>2, <2>3 DEF PutOp, Ops
  <2> QED
    BY <1>0, <1>2, <2>1, <2>4, StartKeepsInv DEF AppPut, StartPut
<1>3. CASE UNCHANGED vars
  BY <1>3
  DEF vars, kvVars, storeVars, clerkVars, netVars, histVars, KVInv, TypeOK,
      KVTypeOK, StoreTypeOK, ClerkTypeOK, HistoryInv, IdsUsed, Used, LiveOps,
      SameArgs, VersionPassed, NotReturned, FirstCall, ReplyTrue,
      ErrVersionDead, AtMostOnce, VersionReplacedOnce, AnswerIsTrue
<1> QED
  BY <1>0, <1>1, <1>2, <1>3, RunHandlerKeepsInv, RunLateHandlerKeepsInv,
     ClerkReturnKeepsInv, NetworkStepKeepsInv DEF Next

\* HistoryInv and the types hold in every reachable state.
LEMMA KVInvCorrect == Spec => []KVInv
<1>1. Init => KVInv
  <2> SUFFICES ASSUME Init PROVE KVInv
    OBVIOUS
  <2>1. TypeOK
    BY KVInitType, BoundsAssumption DEF Init, TypeOK
  <2>2. LiveOps = {}
    BY DEF Init, KVInit, ClerkInit, LiveOps
  <2>3. HistoryInv
    BY <2>2
    DEF Init, KVInit, ClerkInit, HistoryInv, IdsUsed, SameArgs,
        VersionPassed, NotReturned, FirstCall, ReplyTrue, ErrVersionDead
  <2> QED
    BY <2>1, <2>3
    DEF KVInv, Init, AtMostOnce, VersionReplacedOnce, AnswerIsTrue
<1> QED
  BY <1>1, KVInvStep, PTL DEF Spec

-----------------------------------------------------------------------------
(* The theorems. *)

\* However often a Put is resent and however late its handlers run, the
\* server performs it at most once.
THEOREM PutAtMostOnce == Spec => []AtMostOnce
<1>1. KVInv => AtMostOnce
  BY DEF KVInv
<1> QED
  BY <1>1, KVInvCorrect, PTL

\* Of all Puts with one version of one key the server performs at most one.
THEOREM OneReplacementPerVersion == Spec => []VersionReplacedOnce
<1>1. KVInv => VersionReplacedOnce
  BY DEF KVInv
<1> QED
  BY <1>1, KVInvCorrect, PTL

\* A clerk tells its application the truth: OK is returned for a Put that was
\* performed, ErrVersion only for one that never will be.
THEOREM ClerkAnswersTruly == Spec => []AnswerIsTrue
<1>1. KVInv => AnswerIsTrue
  BY DEF KVInv
<1> QED
  BY <1>1, KVInvCorrect, PTL

-----------------------------------------------------------------------------
(* Puts that use versions that have been read. *)

\* Versions never go down.
LEMMA VersionsGrow ==
  ASSUME TypeOK, [Next]_vars
  PROVE  \A k \in Keys : dataVersion[k] <= dataVersion'[k]
<1>0. \A k \in Keys : dataVersion[k] \in Nat
  BY DEF TypeOK, KVTypeOK, StoreTypeOK
<1>1. ASSUME NEW c \in Clients, RunHandler(c)
      PROVE  \A k \in Keys : dataVersion[k] <= dataVersion'[k]
  BY <1>1, OpType, HandlerRuns DEF RunHandler, Handle, TypeOK
<1>2. ASSUME NEW s \in LateSlots, RunLateHandler(s)
      PROVE  \A k \in Keys : dataVersion[k] <= dataVersion'[k]
  BY <1>2, OpType, HandlerRuns DEF RunLateHandler, HandleLate, TypeOK
<1>3. CASE \/ UNCHANGED vars
           \/ \E c \in Clients :
                \/ \E k \in Keys : AppGet(c, k)
                \/ \E k \in Keys, v \in Values : AppPut(c, k, v)
                \/ ClerkReturn(c)
                \/ NetworkStep(c)
  <2>1. UNCHANGED dataVersion
    BY <1>3
    DEF vars, kvVars, AppGet, StartGet, AppPut, StartPut, Start, ClerkReturn,
        Return, NetworkStep, LoseRequest, LoseReply, Dispatch, GiveUp, Enable,
        storeVars
  <2> QED
    BY <1>0, <2>1
<1> QED
  BY <1>1, <1>2, <1>3 DEF Next

\* A live operation that was answered, or returned, stays behind the server
\* as long as the answer and the return are not new.
LEMMA SettledStep ==
  ASSUME AnyVersion = FALSE, KVInv, KVInv', SettledInv, [Next]_vars
  PROVE  SettledInv'
<1>1. \A k \in Keys : /\ dataVersion[k] <= dataVersion'[k]
                      /\ dataVersion[k] \in Nat /\ dataVersion'[k] \in Nat
  BY VersionsGrow DEF KVInv, TypeOK, KVTypeOK, StoreTypeOK
<1>2. \A o \in LiveOps : o.Key \in Keys /\ o.Version \in Nat
  BY LiveType DEF KVInv, Ops
<1>3. ASSUME NEW c \in Clients, NEW o \in Ops, Start(c, o),
             o.id = NewId(c), o.Version <= dataVersion[o.Key],
             UNCHANGED returned
      PROVE  SettledInv'
  <2>1. LiveOps' \subseteq LiveOps \cup {o}
    BY <1>3, LiveStart DEF KVInv
  <2>2. UNCHANGED dataVersion
    BY <1>3 DEF Start, storeVars
  <2>3. \A r \in returned : r.id # o.id
    BY <1>3, NewIdFresh DEF KVInv, HistoryInv, IdsUsed
  <2>4. \A d \in Clients : rpc'[d] = "replied" =>
          rpc[d] = "replied" /\ op'[d] = op[d]
    BY <1>3 DEF Start, KVInv, TypeOK, KVTypeOK, ClerkTypeOK
  <2> QED
    BY <1>3, <2>1, <2>2, <2>3, <2>4 DEF SettledInv
<1>4. ASSUME NEW c \in Clients, NEW k \in Keys, AppGet(c, k)
      PROVE  SettledInv'
  <2>1. /\ GetOp(k, NewId(c)) \in Ops
        /\ GetOp(k, NewId(c)).id = NewId(c)
        /\ GetOp(k, NewId(c)).Version = 0 /\ GetOp(k, NewId(c)).Key = k
    BY <1>4, BoundsAssumption
    DEF KVInv, TypeOK, AppGet, CanStart, NewId, GetOp, Ops
  <2> QED
    BY <1>1, <1>3, <1>4, <2>1 DEF AppGet, StartGet
<1>5. ASSUME NEW c \in Clients, NEW k \in Keys, NEW v \in Values,
             AppPut(c, k, v)
      PROVE  SettledInv'
  <2>1. PICK n \in PutVersions(k) : StartPut(c, k, v, n, NewId(c))
    BY <1>5 DEF AppPut
  <2>2. n \in Nat /\ n <= dataVersion[k]
    BY <1>1, <2>1 DEF PutVersions
  <2>3. NewId(c) \in Ids
    BY <1>5, BoundsAssumption DEF KVInv, TypeOK, AppPut, CanStart, NewId
  <2>4. /\ PutOp(k, v, n, NewId(c)) \in Ops
        /\ PutOp(k, v, n, NewId(c)).id = NewId(c)
        /\ PutOp(k, v, n, NewId(c)).Version = n
        /\ PutOp(k, v, n, NewId(c)).Key = k
    BY <2>2, <2>3 DEF PutOp, Ops
  <2> QED
    BY <1>3, <1>5, <2>1, <2>2, <2>4 DEF AppPut, StartPut
<1>6. ASSUME LiveOps' \subseteq LiveOps,
             UNCHANGED returned,
             \A d \in Clients : rpc'[d] = "replied" =>
               rpc[d] = "replied" /\ op'[d] = op[d]
      PROVE  SettledInv'
  <2>1. \A d \in Clients : rpc[d] = "replied" => op[d] \in LiveOps
    BY DEF LiveOps
  <2>2. /\ \A o \in LiveOps' : o \in LiveOps
        /\ \A o \in LiveOps : dataVersion[o.Key] <= dataVersion'[o.Key]
        /\ \A o \in LiveOps : dataVersion[o.Key] \in Nat
        /\ \A o \in LiveOps : dataVersion'[o.Key] \in Nat
    BY <1>1, <1>2, <1>6
  <2>3. (\A o \in LiveOps : o.Version <= dataVersion[o.Key])'
    BY <1>2, <2>2 DEF SettledInv
  <2>4. (\A d \in Clients : rpc[d] = "replied" /\ op[d].Op = "Put"
            => op[d].Version < dataVersion[op[d].Key])'
    BY <1>2, <1>6, <2>1, <2>2 DEF SettledInv
  <2>5. (\A r \in returned, o \in LiveOps :
            r.id = o.id => o.Version < dataVersion[o.Key])'
    BY <1>2, <1>6, <2>2 DEF SettledInv
  <2> QED
    BY <2>3, <2>4, <2>5 DEF SettledInv
<1>7. ASSUME NEW c \in Clients, RunHandler(c)
      PROVE  SettledInv'
  <2>1. LiveOps' \subseteq LiveOps /\ UNCHANGED <<op, returned>>
    BY <1>7, LiveShrinks DEF KVInv, RunHandler, Handle
  <2>2. op[c] \in LiveOps
    BY <1>7 DEF RunHandler, Handle, LiveOps
  <2>3. ASSUME op[c].Op = "Put"
        PROVE  op[c].Version < dataVersion'[op[c].Key]
    <3>1. Put(op[c])
      BY <1>7, <2>3 DEF RunHandler, Handle
    <3>2. op[c].Version <= dataVersion[op[c].Key]
      BY <2>2 DEF SettledInv
    <3> QED
      BY <1>1, <1>2, <2>2, <3>1, <3>2
      DEF Put, PutPerforms, PutErr, Present, storeVars, KVInv, TypeOK,
          KVTypeOK, StoreTypeOK
  <2>4. \A d \in Clients \ {c} : rpc'[d] = rpc[d]
    BY <1>7 DEF RunHandler, Handle, KVInv, TypeOK, KVTypeOK, ClerkTypeOK
  <2>5. \A d \in Clients : rpc[d] = "replied" => op[d] \in LiveOps
    BY DEF LiveOps
  <2>6. (\A o \in LiveOps : o.Version <= dataVersion[o.Key])'
    BY <1>1, <1>2, <2>1 DEF SettledInv
  <2>7. (\A d \in Clients : rpc[d] = "replied" /\ op[d].Op = "Put"
            => op[d].Version < dataVersion[op[d].Key])'
    BY <1>1, <1>2, <2>1, <2>3, <2>4, <2>5 DEF SettledInv
  <2>8. (\A r \in returned, o \in LiveOps :
            r.id = o.id => o.Version < dataVersion[o.Key])'
    BY <1>1, <1>2, <2>1 DEF SettledInv
  <2> QED
    BY <2>6, <2>7, <2>8 DEF SettledInv
<1>8. ASSUME NEW c \in Clients, ClerkReturn(c)
      PROVE  SettledInv'
  <2>1. LiveOps' \subseteq LiveOps
    BY <1>8, LiveShrinks DEF KVInv
  <2>2. /\ UNCHANGED dataVersion
        /\ rpc[c] = "replied"
        /\ \A d \in Clients : rpc'[d] = "replied" =>
             rpc[d] = "replied" /\ op'[d] = op[d]
    BY <1>8
    DEF ClerkReturn, Return, storeVars, KVInv, TypeOK, KVTypeOK, ClerkTypeOK
  <2>3. \A r \in returned' \ returned : op[c].Op = "Put" /\ r.id = op[c].id
    BY <1>8 DEF ClerkReturn
  <2>4. op[c] \in LiveOps
    BY <2>2 DEF LiveOps
  <2>5. \A r \in returned' \ returned, o \in LiveOps :
          r.id = o.id => o.Version < dataVersion[o.Key]
    BY <2>2, <2>3, <2>4 DEF KVInv, HistoryInv, SameArgs, SettledInv
  <2> QED
    BY <2>1, <2>2, <2>5 DEF SettledInv
<1>9. ASSUME NEW c \in Clients, NetworkStep(c)
      PROVE  SettledInv'
  <2>1. LiveOps' \subseteq LiveOps /\ UNCHANGED returned
    BY <1>9, LiveShrinks DEF KVInv, NetworkStep, histVars
  <2>2. \A d \in Clients : rpc'[d] = "replied" =>
          rpc[d] = "replied" /\ op'[d] = op[d]
    BY <1>9
    DEF NetworkStep, LoseRequest, LoseReply, Dispatch, GiveUp, Enable,
        Resend, clerkVars, KVInv, TypeOK, KVTypeOK, ClerkTypeOK
  <2> QED
    BY <1>6, <2>1, <2>2
<1>10. ASSUME NEW s \in LateSlots, RunLateHandler(s)
       PROVE  SettledInv'
  <2>1. LiveOps' \subseteq LiveOps
    BY <1>10, LiveShrinks DEF KVInv
  <2> QED
    BY <1>6, <1>10, <2>1 DEF RunLateHandler, HandleLate, clerkVars
<1>11. CASE UNCHANGED vars
  <2>1. LiveOps' \subseteq LiveOps
    BY <1>11, LiveShrinks DEF KVInv
  <2> QED
    BY <1>6, <1>11, <2>1 DEF vars, kvVars, clerkVars, histVars
<1> QED
  BY <1>4, <1>5, <1>7, <1>8, <1>9, <1>10, <1>11 DEF Next

\* If applications use versions that somebody has read, or 0, a Put that has
\* returned, with any answer, ErrMaybe included, is not performed any more.
THEOREM PutSettledWhenReturned ==
  ASSUME AnyVersion = FALSE
  PROVE  Spec => SettledWhenReturned
<1>1. Init => SettledInv
  BY DEF Init, KVInit, ClerkInit, SettledInv, LiveOps
<1>2. KVInv /\ KVInv' /\ SettledInv /\ [Next]_vars => SettledInv'
  BY SettledStep
<1>3. ASSUME KVInv, SettledInv, [Next]_vars
      PROVE  [\A a \in applied' \ applied :
                \A r \in returned : a.id # r.id]_vars
  <2>1. ASSUME NEW o \in LiveOps, NEW a \in Effect(o),
               \/ o.Op = "Get" /\ UNCHANGED storeVars
               \/ Put(o)
        PROVE  \A r \in returned : a.id # r.id
    <3>1. o \in Ops /\ o.Version \in Nat
      BY <1>3, LiveType DEF KVInv, Ops
    <3>2. a.id = o.id /\ dataVersion[o.Key] = o.Version
      BY <1>3, <2>1, <3>1, HandlerRuns DEF KVInv
    <3> QED
      BY <1>3, <3>1, <3>2 DEF SettledInv
  <2>2. ASSUME NEW c \in Clients, RunHandler(c)
        PROVE  \A a \in applied' \ applied : \A r \in returned : a.id # r.id
    <3>1. op[c] \in LiveOps
      BY <2>2 DEF RunHandler, Handle, LiveOps
    <3> QED
      BY <2>1, <2>2, <3>1 DEF RunHandler, Handle
  <2>3. ASSUME NEW s \in LateSlots, RunLateHandler(s)
        PROVE  \A a \in applied' \ applied : \A r \in returned : a.id # r.id
    <3>1. late[s] \in LiveOps
      BY <2>3 DEF RunLateHandler, HandleLate, LiveOps
    <3> QED
      BY <2>1, <2>3, <3>1 DEF RunLateHandler, HandleLate
  <2> QED
    BY <1>3, <2>2, <2>3
    DEF Next, AppGet, AppPut, ClerkReturn, NetworkStep, histVars
<1> QED
  BY <1>1, <1>2, <1>3, KVInvCorrect, PTL DEF Spec, SettledWhenReturned

-----------------------------------------------------------------------------
(* Linearizability: every step of the system is one of KvModel, or changes  *)
(* nothing that KvModel sees.                                              *)

\* A handler that performs an operation records it under its name, and the
\* operation is a Put (server.go's Get changes nothing).
LEMMA EffectIsPut ==
  ASSUME NEW o, NEW a \in Effect(o)
  PROVE  a.id = o.id /\ o.Op = "Put"
BY DEF Effect

\* A new operation of a client disturbs no part of StepInv: its name is new.
LEMMA StartKeepsStepInv ==
  ASSUME KVInv, StepInv, NEW c \in Clients, NEW o \in Ops,
         o.id = NewId(c), Start(c, o), UNCHANGED <<applied, returned>>
  PROVE  StepInv'
<1>1. LiveOps' \subseteq LiveOps \cup {o}
  BY LiveStart DEF KVInv
<1>2. \A a \in applied : a.id # o.id
  BY NewIdFresh DEF KVInv, HistoryInv, IdsUsed
<1>3. PutsApplied'
  BY <1>1, <1>2 DEF StepInv, PutsApplied
<1>4. /\ UNCHANGED late
      /\ rpc[c] = "idle" /\ rpc'[c] = "sent"
      /\ \A d \in Clients : d # c => UNCHANGED <<rpc[d], op[d], reply[d]>>
  BY DEF Start, netVars, KVInv, TypeOK, KVTypeOK, ClerkTypeOK
<1>5. LateHasOwner'
  BY <1>4 DEF StepInv, LateHasOwner
<1>6. PutAnswers'
  BY <1>4 DEF StepInv, PutAnswers
<1> QED
  BY <1>3, <1>5, <1>6 DEF StepInv

\* A handler whose reply is awaited answers a Put OK or ErrVersion, as the
\* version it was given is not ahead of the server.
LEMMA RunHandlerKeepsStepInv ==
  ASSUME KVInv, SettledInv, StepInv, NEW c \in Clients, RunHandler(c)
  PROVE  StepInv'
<1>1. LiveOps' \subseteq LiveOps
  BY LiveShrinks DEF KVInv
<1>2. op[c] \in LiveOps /\ op[c] \in Ops
  BY LiveType DEF KVInv, RunHandler, Handle, LiveOps
<1>3. PutsApplied'
  <2>1. \A a \in applied' : a \in applied \/ a \in Effect(op[c])
    BY DEF RunHandler
  <2> QED
    BY <1>1, <1>2, <2>1, EffectIsPut
    DEF StepInv, PutsApplied, KVInv, HistoryInv, SameArgs
<1>4. /\ UNCHANGED <<op, late, returned>>
      /\ rpc[c] = "dispatched" /\ rpc'[c] = "replied"
      /\ \A d \in Clients : d # c => UNCHANGED <<rpc[d], reply[d]>>
  BY DEF RunHandler, Handle, netVars, KVInv, TypeOK, KVTypeOK, ClerkTypeOK
<1>5. LateHasOwner'
  BY <1>4 DEF StepInv, LateHasOwner
<1>6. ASSUME op[c].Op = "Put"
      PROVE  reply'[c].Err \in {"OK", "ErrVersion"}
  <2>1. reply'[c] = PutReply(op[c])
    BY <1>6 DEF RunHandler, Handle, KVInv, TypeOK, KVTypeOK, ClerkTypeOK
  <2>2. /\ op[c].Version <= dataVersion[op[c].Key]
        /\ op[c].Version \in Nat /\ dataVersion[op[c].Key] \in Nat
    BY <1>2 DEF SettledInv, Ops, KVInv, TypeOK, KVTypeOK, StoreTypeOK
  <2> QED
    BY <2>1, <2>2 DEF PutReply, PutErr, Present
<1>7. PutAnswers'
  BY <1>4, <1>6 DEF StepInv, PutAnswers
<1> QED
  BY <1>3, <1>5, <1>7 DEF StepInv

\* The return of an operation keeps the owners of the handlers left behind:
\* a Put that returns is recorded.
LEMMA ClerkReturnKeepsStepInv ==
  ASSUME KVInv, StepInv, NEW c \in Clients, ClerkReturn(c)
  PROVE  StepInv'
<1>1. LiveOps' \subseteq LiveOps /\ UNCHANGED <<applied, late>>
  BY LiveShrinks DEF KVInv, ClerkReturn, Return, netVars
<1>2. PutsApplied'
  BY <1>1 DEF StepInv, PutsApplied
<1>3. /\ rpc[c] = "replied" /\ rpc'[c] = "idle"
      /\ \A d \in Clients : d # c => UNCHANGED <<rpc[d], op[d], reply[d]>>
  BY DEF ClerkReturn, Return, KVInv, TypeOK, KVTypeOK, ClerkTypeOK
<1>4. /\ returned \subseteq returned'
      /\ op[c].Op = "Put" => \E r \in returned' : r.id = op[c].id
  <2>1. returned \subseteq returned'
    BY DEF ClerkReturn
  <2>2. ASSUME op[c].Op = "Put"
        PROVE  [id |-> op[c].id, err |-> ClerkErr(c)] \in returned'
    BY <2>2 DEF ClerkReturn
  <2> QED
    BY <2>1, <2>2
<1>5. LateHasOwner'
  BY <1>1, <1>3, <1>4 DEF StepInv, LateHasOwner
<1>6. PutAnswers'
  BY <1>3 DEF StepInv, PutAnswers
<1> QED
  BY <1>2, <1>5, <1>6 DEF StepInv

\* What a network step changes of what StepInv looks at: a handler that is
\* left behind is that of the Put in progress.
LEMMA NetworkKeepsStepInv ==
  ASSUME KVInv, StepInv, NEW c \in Clients, NetworkStep(c)
  PROVE  StepInv'
<1>1. LiveOps' \subseteq LiveOps
  BY LiveShrinks DEF KVInv
<1>2. /\ UNCHANGED <<op, applied, returned>>
      /\ \A d \in Clients : rpc[d] # "idle" <=> rpc'[d] # "idle"
      /\ \A d \in Clients : rpc'[d] = "replied" => UNCHANGED <<rpc[d], reply[d]>>
  BY DEF NetworkStep, LoseRequest, LoseReply, Dispatch, GiveUp, Enable, Resend,
         netVars, clerkVars, histVars, KVInv, TypeOK, KVTypeOK, ClerkTypeOK
<1>3. \A s \in LateSlots :
        \/ late'[s] = late[s]
        \/ late'[s] = op[c] /\ rpc[c] # "idle" /\ op[c].Op = "Put"
  BY DEF NetworkStep, LoseRequest, LoseReply, Dispatch, GiveUp, Enable, Resend,
         netVars, KVInv, TypeOK, KVTypeOK, ClerkTypeOK
<1>4. PutsApplied'
  BY <1>1, <1>2 DEF StepInv, PutsApplied
<1>5. LateHasOwner'
  BY <1>2, <1>3 DEF StepInv, LateHasOwner
<1>6. PutAnswers'
  BY <1>2 DEF StepInv, PutAnswers
<1> QED
  BY <1>4, <1>5, <1>6 DEF StepInv

\* A handler left behind that runs takes nothing from StepInv.
LEMMA LateHandlerKeepsStepInv ==
  ASSUME KVInv, StepInv, NEW s \in LateSlots, RunLateHandler(s)
  PROVE  StepInv'
<1>1. LiveOps' \subseteq LiveOps
  BY LiveShrinks DEF KVInv
<1>2. late[s] \in LiveOps
  BY DEF RunLateHandler, HandleLate, LiveOps
<1>3. PutsApplied'
  <2>1. \A a \in applied' : a \in applied \/ a \in Effect(late[s])
    BY DEF RunLateHandler
  <2> QED
    BY <1>1, <1>2, <2>1, EffectIsPut
    DEF StepInv, PutsApplied, KVInv, HistoryInv, SameArgs
<1>4. /\ UNCHANGED <<op, rpc, reply, returned>>
      /\ \A t \in LateSlots : late'[t] = late[t] \/ late'[t] = NoOp
  BY DEF RunLateHandler, HandleLate, clerkVars, KVInv, TypeOK, KVTypeOK,
         ClerkTypeOK
<1>5. LateHasOwner' /\ PutAnswers'
  BY <1>4 DEF StepInv, LateHasOwner, PutAnswers
<1> QED
  BY <1>3, <1>5 DEF StepInv

\* The operation that AppGet or AppPut starts is well-formed and has a new
\* name.
LEMMA AppStarts ==
  ASSUME KVInv, NEW c \in Clients, NEW k \in Keys,
         AppGet(c, k) \/ \E v \in Values : AppPut(c, k, v)
  PROVE  \E o \in Ops : o.id = NewId(c) /\ Start(c, o)
<1>1. NewId(c) \in Ids
  BY BoundsAssumption DEF KVInv, TypeOK, AppGet, AppPut, CanStart, NewId
<1>2. CASE AppGet(c, k)
  <2>1. GetOp(k, NewId(c)) \in Ops /\ GetOp(k, NewId(c)).id = NewId(c)
    BY <1>1 DEF GetOp, Ops
  <2> QED
    BY <1>2, <2>1 DEF AppGet, StartGet
<1>3. ASSUME NEW v \in Values, AppPut(c, k, v)
      PROVE  \E o \in Ops : o.id = NewId(c) /\ Start(c, o)
  <2>1. PICK n \in PutVersions(k) : StartPut(c, k, v, n, NewId(c))
    BY <1>3 DEF AppPut
  <2>2. n \in Nat
    BY BoundsAssumption DEF PutVersions, KVInv, TypeOK, KVTypeOK, StoreTypeOK
  <2>3. PutOp(k, v, n, NewId(c)) \in Ops /\ PutOp(k, v, n, NewId(c)).id = NewId(c)
    BY <1>1, <2>2 DEF PutOp, Ops
  <2> QED
    BY <2>1, <2>3 DEF StartPut
<1> QED
  BY <1>2, <1>3

\* StepInv is inductive, given the invariants before it.
LEMMA StepInvStep ==
  ASSUME KVInv, SettledInv, StepInv, [Next]_vars
  PROVE  StepInv'
<1>1. ASSUME NEW c \in Clients, NEW k \in Keys,
             AppGet(c, k) \/ \E v \in Values : AppPut(c, k, v)
      PROVE  StepInv'
  <2>1. PICK o \in Ops : o.id = NewId(c) /\ Start(c, o)
    BY <1>1, AppStarts
  <2>2. UNCHANGED <<applied, returned>>
    BY <1>1 DEF AppGet, AppPut
  <2> QED
    BY <2>1, <2>2, StartKeepsStepInv
<1>2. CASE UNCHANGED vars
  BY <1>2 DEF vars, kvVars, clerkVars, netVars, histVars, StepInv, PutsApplied,
              LateHasOwner, PutAnswers, LiveOps
<1> QED
  BY <1>1, <1>2, RunHandlerKeepsStepInv, ClerkReturnKeepsStepInv,
     NetworkKeepsStepInv, LateHandlerKeepsStepInv DEF Next

-----------------------------------------------------------------------------
(* The mapping. *)

\* The step of an operation stays as it is while its call and its reply do,
\* and while it is not the one being performed.
LEMMA StepKept ==
  ASSUME NEW d \in Clients, rpc'[d] = rpc[d], op'[d] = op[d],
         reply'[d] = reply[d], applied \subseteq applied',
         rpc[d] # "idle" => \A a \in applied' : a \in applied \/ a.id # op[d].id
  PROVE  StepOf(d)' = StepOf(d)
BY DEF StepOf, Applied

\* KvModel sees nothing of a step that changes neither the maps nor an
\* operation, a result or a step.
LEMMA Unseen ==
  ASSUME UNCHANGED <<data, dataVersion, op, result>>,
         \A d \in Clients : StepOf(d)' = StepOf(d)
  PROVE  UNCHANGED Model!modelVars
BY DEF Model!modelVars

\* If one operation takes a step, or loses it, the function of all steps
\* changes at that client only.
LEMMA OneStep ==
  ASSUME NEW c \in Clients, NEW x, StepOf(c)' = x,
         \A d \in Clients : d # c => StepOf(d)' = StepOf(d)
  PROVE  [d \in Clients |-> StepOf(d)]'
           = [[d \in Clients |-> StepOf(d)] EXCEPT ![c] = x]
OBVIOUS

\* A step that was taken is not NoStep.
LEMMA StepTaken ==
  ASSUME KVInv, NEW c \in Clients, rpc[c] # "idle",
         Applied(op[c].id) \/ rpc[c] = "replied"
  PROVE  StepOf(c) # NoStep
<1>1. [matched |-> TRUE, Value |-> NoValue] \in Steps
  BY DEF Steps
<1>2. ASSUME rpc[c] = "replied"
      PROVE  [matched |-> FALSE, Value |-> reply[c].Value] \in Steps
  BY <1>2, ClerkErrType DEF KVInv, TypeOK, Replies, Steps
<1> QED
  BY <1>1, <1>2, NoStepAssumption DEF StepOf

\* An operation took effect, in KvModel's sense, if a handler performed it.
LEMMA EffectTaken ==
  ASSUME KVInv, NEW c \in Clients, rpc[c] # "idle"
  PROVE  Model!TookEffect(c) <=> Applied(op[c].id)
<1>1. CASE Applied(op[c].id)
  <2>1. StepOf(c) = [matched |-> TRUE, Value |-> NoValue]
    BY <1>1 DEF StepOf
  <2> QED
    BY <1>1, <2>1, StepTaken DEF Model!TookEffect
<1>2. CASE ~Applied(op[c].id)
  <2>1. \/ StepOf(c) = NoStep
        \/ StepOf(c) = [matched |-> FALSE, Value |-> reply[c].Value]
    BY <1>2 DEF StepOf
  <2> QED
    BY <1>2, <2>1 DEF Model!TookEffect
<1> QED
  BY <1>1, <1>2

\* Clerk.Get and Clerk.Put begin with the call of the operation.
LEMMA StartIsCall ==
  ASSUME KVInv, NEW c \in Clients, NEW o \in Ops,
         o.id = NewId(c), Start(c, o), UNCHANGED applied
  PROVE  Model!Call(c)
<1>1. /\ rpc[c] = "idle" /\ op[c] = NoOp
      /\ rpc'[c] = "sent" /\ op'[c] = o /\ o # NoOp
      /\ \A d \in Clients : d # c => UNCHANGED <<rpc[d], op[d], reply[d]>>
      /\ op' = [op EXCEPT ![c] = op'[c]]
      /\ result' = [result EXCEPT ![c] = NoReply]
      /\ UNCHANGED <<data, dataVersion>>
  BY NullAssumption
  DEF Start, storeVars, KVInv, TypeOK, KVTypeOK, ClerkTypeOK
<1>2. \A a \in applied : a.id # o.id
  BY NewIdFresh DEF KVInv, HistoryInv, IdsUsed
<1>3. StepOf(c)' = NoStep
  BY <1>1, <1>2 DEF StepOf, Applied
<1>4. \A d \in Clients : d # c => StepOf(d)' = StepOf(d)
  BY <1>1, StepKept
<1>5. [d \in Clients |-> StepOf(d)]'
        = [[d \in Clients |-> StepOf(d)] EXCEPT ![c] = NoStep]
  BY <1>3, <1>4, OneStep
<1> QED
  BY <1>1, <1>5 DEF Model!Call

\* Two operations in progress have different names.
LEMMA OwnNames ==
  ASSUME KVInv, NEW c \in Clients, NEW d \in Clients, c # d,
         rpc[c] # "idle", rpc[d] # "idle"
  PROVE  op[c].id # op[d].id
<1>1. op[c].id = <<c, opno[c]>> /\ op[d].id = <<d, opno[d]>>
  BY DEF KVInv, HistoryInv, IdsUsed
<1> QED
  BY <1>1

\* The server performs a Put exactly if KvModel's version matches.
LEMMA PerformsIfMatches ==
  ASSUME KVInv, NEW o \in Ops
  PROVE  PutPerforms(o) <=> dataVersion[o.Key] = o.Version
BY DEF PutPerforms, PutErr, Present, Ops, KVInv, TypeOK, KVTypeOK, StoreTypeOK

\* A handler that performs a Put in progress, be it the one awaited or one
\* left behind, is the Put's step: it was not performed before.
LEMMA PerformedIsStep ==
  ASSUME KVInv, NEW c \in Clients, rpc[c] # "idle", op[c].Op = "Put",
         Put(op[c]), PutPerforms(op[c]), applied' = applied \cup Effect(op[c]),
         UNCHANGED <<op, result>>, rpc'[c] # "idle",
         \A d \in Clients : d # c => UNCHANGED <<rpc[d], reply[d]>>
  PROVE  Model!Step(c)
<1>1. op[c] \in Ops /\ op[c] \in LiveOps /\ op[c].Key \in Keys
  BY OpType DEF KVInv, TypeOK, LiveOps, Ops
<1>2. /\ dataVersion[op[c].Key] = op[c].Version
      /\ dataVersion \in [Keys -> Nat] /\ data \in [Keys -> Values \cup {NoValue}]
  BY <1>1, PerformsIfMatches DEF KVInv, TypeOK, KVTypeOK, StoreTypeOK
<1>3. ~Applied(op[c].id)
  BY <1>1, <1>2 DEF Applied, KVInv, TypeOK, HistoryInv, SameArgs, VersionPassed
<1>4. op[c] # NoOp
  BY <1>1, NullAssumption
<1>5. PICK e : e.id = op[c].id /\ Effect(op[c]) = {e}
  BY DEF Effect
<1>6. StepOf(c)' = [matched |-> TRUE, Value |-> NoValue]
  BY <1>5 DEF StepOf, Applied
<1>7. ASSUME NEW d \in Clients, d # c
      PROVE  StepOf(d)' = StepOf(d)
  BY <1>5, <1>7, OwnNames, StepKept
<1>8. [d \in Clients |-> StepOf(d)]'
        = [[d \in Clients |-> StepOf(d)] EXCEPT ![c] =
             [matched |-> TRUE, Value |-> NoValue]]
  BY <1>6, <1>7, OneStep
<1>9. /\ data' = [data EXCEPT ![op[c].Key] = op[c].Value]
      /\ dataVersion' = [dataVersion EXCEPT ![op[c].Key] = @ + 1]
  BY DEF Put
<1>10. [k \in Keys |-> [Value |-> data[k], Version |-> dataVersion[k]]]'
         = [[k \in Keys |-> [Value |-> data[k], Version |-> dataVersion[k]]]
              EXCEPT ![op[c].Key] = [Value   |-> op[c].Value,
                                     Version |-> @.Version + 1]]
  BY <1>1, <1>2, <1>9
<1>11. Model!StepPut(c)
  BY <1>1, <1>2, <1>3, <1>8, <1>10, EffectTaken DEF Model!StepPut
<1> QED
  BY <1>4, <1>11 DEF Model!Step

\* A Get that is answered takes its step, and so does a Put that is refused
\* and was not performed before; the refusal of one that was is unseen.
LEMMA HandlerMaps ==
  ASSUME KVInv, StepInv, NEW c \in Clients, RunHandler(c)
  PROVE  Model!Step(c) \/ UNCHANGED Model!modelVars
<1>1. op[c] \in Ops /\ op[c] \in LiveOps /\ op[c].Key \in Keys /\ op[c] # NoOp
  <2>1. rpc[c] # "idle"
    BY DEF RunHandler, Handle
  <2> QED
    BY <2>1, OpType, NullAssumption DEF KVInv, TypeOK, LiveOps, Ops
<1>2. /\ rpc[c] = "dispatched" /\ rpc'[c] = "replied"
      /\ \A d \in Clients : d # c => UNCHANGED <<rpc[d], reply[d]>>
      /\ UNCHANGED <<op, result>>
  BY DEF RunHandler, Handle, KVInv, TypeOK, KVTypeOK, ClerkTypeOK
<1>3. CASE op[c].Op = "Get"
  <2>1. /\ reply'[c] = Get(op[c])
        /\ UNCHANGED <<data, dataVersion, applied>>
    BY <1>3 DEF RunHandler, Handle, Effect, storeVars, KVInv, TypeOK, KVTypeOK,
                ClerkTypeOK
  <2>2. ~Applied(op[c].id)
    BY <1>1, <1>3 DEF Applied, StepInv, PutsApplied
  <2>3. StepOf(c)' = [matched |-> FALSE, Value |-> data[op[c].Key]]
    <3>1. reply'[c].Value = data[op[c].Key]
      BY <2>1 DEF Get
    <3> QED
      BY <1>2, <2>1, <2>2, <3>1 DEF StepOf, Applied
  <2>4. \A d \in Clients : d # c => StepOf(d)' = StepOf(d)
    BY <1>2, <2>1, StepKept
  <2>5. [d \in Clients |-> StepOf(d)]'
          = [[d \in Clients |-> StepOf(d)] EXCEPT ![c] =
               [matched |-> FALSE, Value |-> data[op[c].Key]]]
    BY <2>3, <2>4, OneStep
  <2>6. Model!StepGet(c)
    BY <1>1, <1>3, <2>1, <2>5 DEF Model!StepGet
  <2> QED
    BY <1>1, <1>2, <2>6 DEF Model!Step
<1>4. CASE op[c].Op = "Put" /\ PutPerforms(op[c])
  BY <1>2, <1>4, PerformedIsStep DEF RunHandler, Handle
<1>5. CASE op[c].Op = "Put" /\ ~PutPerforms(op[c])
  <2>1. /\ reply'[c] = PutReply(op[c])
        /\ UNCHANGED <<data, dataVersion, applied>>
    BY <1>5 DEF RunHandler, Handle, Effect, Put, storeVars, KVInv, TypeOK,
                KVTypeOK, ClerkTypeOK
  <2>2. \A d \in Clients : d # c => StepOf(d)' = StepOf(d)
    BY <1>2, <2>1, StepKept
  <2>3. CASE Applied(op[c].id)
    <3>1. StepOf(c)' = StepOf(c)
      BY <1>2, <2>1, <2>3 DEF StepOf, Applied
    <3> QED
      BY <1>2, <2>1, <2>2, <3>1, Unseen
  <2>4. CASE ~Applied(op[c].id)
    <3>1. StepOf(c)' = [matched |-> FALSE, Value |-> NoValue]
      BY <1>2, <2>1, <2>4 DEF StepOf, Applied, PutReply
    <3>2. [d \in Clients |-> StepOf(d)]'
            = [[d \in Clients |-> StepOf(d)] EXCEPT ![c] =
                 [matched |-> FALSE, Value |-> NoValue]]
      BY <2>2, <3>1, OneStep
    <3>3. dataVersion[op[c].Key] # op[c].Version
      BY <1>1, <1>5, PerformsIfMatches
    <3>4. Model!StepPut(c)
      BY <1>1, <1>2, <1>5, <2>1, <2>4, <3>2, <3>3, EffectTaken
      DEF Model!StepPut
    <3> QED
      BY <1>1, <1>2, <3>4 DEF Model!Step
  <2> QED
    BY <2>3, <2>4
<1> QED
  BY <1>1, <1>3, <1>4, <1>5 DEF Ops

\* A handler left behind performs nothing, or a Put whose clerk still waits.
LEMMA LateHandlerMaps ==
  ASSUME KVInv, SettledInv, StepInv, NEW s \in LateSlots, RunLateHandler(s)
  PROVE  \/ \E c \in Clients : Model!Step(c)
         \/ UNCHANGED Model!modelVars
<1>1. /\ late[s] # NoOp /\ late[s] \in LiveOps /\ late[s] \in Ops
      /\ Put(late[s]) /\ applied' = applied \cup Effect(late[s])
      /\ UNCHANGED <<rpc, op, reply, result>>
  BY OpType DEF RunLateHandler, HandleLate, LiveOps, KVInv, TypeOK, clerkVars
<1>2. CASE ~PutPerforms(late[s])
  <2>1. UNCHANGED <<data, dataVersion, applied>>
    BY <1>1, <1>2 DEF Put, Effect, storeVars
  <2>2. \A d \in Clients : StepOf(d)' = StepOf(d)
    BY <1>1, <2>1, StepKept
  <2> QED
    BY <1>1, <2>1, <2>2, Unseen
<1>3. CASE PutPerforms(late[s])
  <2>1. dataVersion[late[s].Key] = late[s].Version /\ late[s].Version \in Nat
    BY <1>1, <1>3, PerformsIfMatches DEF Ops
  <2>2. \A r \in returned : r.id # late[s].id
    BY <1>1, <2>1 DEF SettledInv
  <2>3. PICK c \in Clients : rpc[c] # "idle" /\ op[c] = late[s]
    BY <1>1, <2>2 DEF StepInv, LateHasOwner
  <2>4. late[s].Op = "Put"
    BY <1>1 DEF StepInv, LateHasOwner
  <2> QED
    BY <1>1, <1>3, <2>3, <2>4, PerformedIsStep
<1> QED
  BY <1>2, <1>3

\* What the clerk returns is an answer that the step allows: ErrMaybe for a
\* resent Put, performed or not, and the truth otherwise.
LEMMA ReturnMaps ==
  ASSUME KVInv, StepInv, NEW c \in Clients, ClerkReturn(c)
  PROVE  Model!ReturnOp(c)
<1>1. /\ rpc[c] = "replied" /\ op[c] \in Ops /\ op[c] \in LiveOps
      /\ op[c] # NoOp /\ reply[c] \in Replies
  <2>1. rpc[c] = "replied"
    BY DEF ClerkReturn, Return
  <2> QED
    BY <2>1, OpType, ClerkErrType, NullAssumption DEF KVInv, TypeOK, LiveOps
<1>2. /\ rpc'[c] = "idle"
      /\ \A d \in Clients : d # c => UNCHANGED <<rpc[d], op[d], reply[d]>>
      /\ op' = [op EXCEPT ![c] = NoOp]
      /\ result' = [result EXCEPT ![c] = result'[c]]
      /\ UNCHANGED <<data, dataVersion, applied>>
  BY DEF ClerkReturn, Return, storeVars, KVInv, TypeOK, KVTypeOK, ClerkTypeOK
<1>3. /\ result'[c] = [Err |-> ClerkErr(c), Value |-> reply[c].Value,
                       Version |-> reply[c].Version]
      /\ result'[c] # NoReply
  <2>1. result'[c] = [Err |-> ClerkErr(c), Value |-> reply[c].Value,
                      Version |-> reply[c].Version]
    BY DEF ClerkReturn, Return, KVInv, TypeOK, KVTypeOK, ClerkTypeOK
  <2>2. ClerkErr(c) \in Errs
    BY <1>1, ClerkErrType DEF KVInv, TypeOK
  <2>3. result'[c] \in Replies
    BY <1>1, <2>1, <2>2 DEF Replies
  <2> QED
    BY <2>1, <2>3, NullAssumption
<1>4. StepOf(c)' = NoStep
  BY <1>2 DEF StepOf
<1>5. \A d \in Clients : d # c => StepOf(d)' = StepOf(d)
  BY <1>2, StepKept
<1>6. [d \in Clients |-> StepOf(d)]'
        = [[d \in Clients |-> StepOf(d)] EXCEPT ![c] = NoStep]
  BY <1>4, <1>5, OneStep
<1>7. StepOf(c) # NoStep
  BY <1>1, StepTaken
<1>8. ASSUME op[c].Op = "Get"
      PROVE  result'[c].Value = StepOf(c).Value
  <2>1. ~Applied(op[c].id)
    BY <1>1, <1>8 DEF Applied, StepInv, PutsApplied
  <2> QED
    BY <1>1, <1>3, <2>1 DEF StepOf
<1>9. ASSUME op[c].Op = "Put"
      PROVE  result'[c].Err \in IF StepOf(c).matched THEN {"OK", "ErrMaybe"}
                                ELSE {"ErrVersion", "ErrMaybe"}
  <2>1. reply[c].Err \in {"OK", "ErrVersion"}
    BY <1>1, <1>9 DEF StepInv, PutAnswers
  <2>2. StepOf(c).matched <=> Applied(op[c].id)
    BY <1>1 DEF StepOf
  <2>3. CASE Applied(op[c].id)
    <3>1. first[c] => reply[c].Err = "OK"
      BY <1>1, <2>3 DEF Applied, KVInv, HistoryInv, FirstCall
    <3> QED
      BY <1>3, <1>9, <2>1, <2>2, <2>3, <3>1 DEF ClerkErr
  <2>4. CASE ~Applied(op[c].id)
    <3>1. reply[c].Err # "OK"
      BY <1>1, <1>9, <2>4 DEF Applied, KVInv, HistoryInv, ReplyTrue
    <3> QED
      BY <1>3, <1>9, <2>1, <2>2, <2>4, <3>1 DEF ClerkErr
  <2> QED
    BY <2>3, <2>4
<1>10. Model!Legal(c, result'[c])
  <2>1. op[c].Op \in {"Get", "Put"}
    BY <1>1 DEF Ops
  <2> QED
    BY <1>8, <1>9, <2>1 DEF Model!Legal
<1> QED
  BY <1>1, <1>2, <1>3, <1>6, <1>7, <1>10 DEF Model!ReturnOp

\* A lost reply takes back a step that had no effect, of a Get or of a Put
\* that was refused; no other step of the network is seen.
LEMMA NetworkMaps ==
  ASSUME KVInv, NEW c \in Clients, NetworkStep(c)
  PROVE  Model!Undo(c) \/ UNCHANGED Model!modelVars
<1>1. /\ UNCHANGED <<data, dataVersion, op, result, applied>>
      /\ \A d \in Clients : d # c => UNCHANGED <<rpc[d], reply[d]>>
  BY DEF NetworkStep, LoseRequest, LoseReply, Dispatch, GiveUp, Enable, Resend,
         storeVars, clerkVars, histVars, KVInv, TypeOK, KVTypeOK, ClerkTypeOK
<1>2. \A d \in Clients : d # c => StepOf(d)' = StepOf(d)
  BY <1>1, StepKept
<1>3. CASE LoseReply(c) /\ ~Applied(op[c].id)
  <2>1. rpc[c] = "replied" /\ rpc'[c] = "sent" /\ op[c] # NoOp
    BY <1>3 DEF LoseReply, Resend, KVInv, TypeOK, KVTypeOK, ClerkTypeOK
  <2>2. StepOf(c)' = NoStep
    BY <1>1, <1>3, <2>1 DEF StepOf, Applied
  <2>3. [d \in Clients |-> StepOf(d)]'
          = [[d \in Clients |-> StepOf(d)] EXCEPT ![c] = NoStep]
    BY <1>2, <2>2, OneStep
  <2> QED
    BY <1>1, <1>3, <2>1, <2>3, EffectTaken DEF Model!Undo
<1>4. CASE ~LoseReply(c) \/ Applied(op[c].id)
  <2>1. \/ rpc[c] # "idle" /\ rpc'[c] # "idle" /\ Applied(op[c].id)
        \/ UNCHANGED <<rpc[c], reply[c]>>
        \/ /\ rpc[c] \in {"sent", "dispatched"}
           /\ rpc'[c] \in {"sent", "dispatched"}
    BY <1>4
    DEF NetworkStep, LoseRequest, LoseReply, Dispatch, GiveUp, Enable, Resend,
        clerkVars, KVInv, TypeOK, KVTypeOK, ClerkTypeOK
  <2>2. StepOf(c)' = StepOf(c)
    BY <1>1, <2>1 DEF StepOf, Applied
  <2> QED
    BY <1>1, <1>2, <2>2, Unseen
<1> QED
  BY <1>3, <1>4

\* Every step of the system is one of KvModel, or unseen by it.
LEMMA ModelStep ==
  ASSUME KVInv, SettledInv, StepInv, [Next]_vars
  PROVE  [Model!ModelNext]_(Model!modelVars)
<1>1. ASSUME NEW c \in Clients, NEW k \in Keys,
             AppGet(c, k) \/ \E v \in Values : AppPut(c, k, v)
      PROVE  Model!ModelNext
  <2>1. PICK o \in Ops : o.id = NewId(c) /\ Start(c, o)
    BY <1>1, AppStarts
  <2>2. UNCHANGED applied
    BY <1>1 DEF AppGet, AppPut
  <2> QED
    BY <2>1, <2>2, StartIsCall DEF Model!ModelNext
<1>2. ASSUME NEW c \in Clients, RunHandler(c)
      PROVE  [Model!ModelNext]_(Model!modelVars)
  BY <1>2, HandlerMaps DEF Model!ModelNext
<1>3. ASSUME NEW c \in Clients, ClerkReturn(c)
      PROVE  Model!ModelNext
  BY <1>3, ReturnMaps DEF Model!ModelNext
<1>4. ASSUME NEW c \in Clients, NetworkStep(c)
      PROVE  [Model!ModelNext]_(Model!modelVars)
  BY <1>4, NetworkMaps DEF Model!ModelNext
<1>5. ASSUME NEW s \in LateSlots, RunLateHandler(s)
      PROVE  [Model!ModelNext]_(Model!modelVars)
  BY <1>5, LateHandlerMaps DEF Model!ModelNext
<1>6. CASE UNCHANGED vars
  <2>1. UNCHANGED <<data, dataVersion, op, result, rpc, reply, applied>>
    BY <1>6 DEF vars, kvVars, storeVars, clerkVars, histVars
  <2>2. \A d \in Clients : StepOf(d)' = StepOf(d)
    BY <2>1, StepKept
  <2> QED
    BY <2>1, <2>2, Unseen
<1> QED
  BY <1>1, <1>2, <1>3, <1>4, <1>5, <1>6 DEF Next

\* If applications use versions that somebody has read, or 0, every history
\* of any number of clients, keys and operations is one that the porcupine
\* model of models1/kv.go allows: resent and late Puts, and ErrMaybe included.
THEOREM HistoriesAreLinearizable ==
  ASSUME AnyVersion = FALSE
  PROVE  Spec => Linearizable
<1>1. Init => Model!ModelInit
  BY DEF Init, KVInit, MakeKVServer, ClerkInit, Model!ModelInit, StepOf
<1>2. Init => SettledInv /\ StepInv
  BY DEF Init, KVInit, ClerkInit, SettledInv, StepInv, PutsApplied,
         LateHasOwner, PutAnswers, LiveOps
<1>3. KVInv /\ KVInv' /\ SettledInv /\ StepInv /\ [Next]_vars
        => SettledInv' /\ StepInv'
  BY SettledStep, StepInvStep
<1>4. KVInv /\ SettledInv /\ StepInv /\ [Next]_vars
        => [Model!ModelNext]_(Model!modelVars)
  BY ModelStep
<1> QED
  BY <1>1, <1>2, <1>3, <1>4, KVInvCorrect, PTL
  DEF Spec, Linearizable, Model!ModelSpec

=============================================================================
