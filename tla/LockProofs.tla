----------------------------- MODULE LockProofs -----------------------------
(***************************************************************************)
(* Proofs about Lock, for any number of clients and locks: on every        *)
(* network a lock is safe until the answer of one of its Puts is lost; on  *)
(* a reliable network it is safe for ever.                                 *)
(***************************************************************************)
EXTENDS Lock, TLAPS

-----------------------------------------------------------------------------
(* Type correctness of the steps of the clerk, the network and the server. *)

\* Nothing has happened yet.
LEMMA KVInitType == KVInit => KVTypeOK
BY NullAssumption
DEF KVInit, MakeKVServer, ClerkInit, KVTypeOK, StoreTypeOK, ClerkTypeOK

\* Steps of others leave the types alone.
LEMMA KVUnchangedType == KVTypeOK /\ UNCHANGED kvVars => KVTypeOK'
BY DEF KVTypeOK, StoreTypeOK, ClerkTypeOK, kvVars, storeVars, clerkVars,
       netVars

\* An operation that is being started is well-formed.
LEMMA StartType ==
  ASSUME KVTypeOK, NEW c \in Clients, NEW o \in Ops, Start(c, o)
  PROVE  KVTypeOK'
BY NullAssumption
DEF KVTypeOK, StoreTypeOK, ClerkTypeOK, Start, storeVars, netVars

\* A failed call keeps the clerk's types.
LEMMA ResendType ==
  ASSUME KVTypeOK, NEW c \in Clients, rpc[c] # "idle", Resend(c),
         (enabled \in [Clients -> BOOLEAN])',
         (late \in [LateSlots -> Ops \cup {NoOp}])'
  PROVE  ClerkTypeOK'
BY DEF KVTypeOK, ClerkTypeOK, Resend

\* A handler that runs with well-formed arguments keeps the maps' types.
LEMMA PutType ==
  ASSUME StoreTypeOK, NEW o \in Ops, Put(o)
  PROVE  StoreTypeOK'
BY DEF StoreTypeOK, Put, storeVars, Ops

\* The replies of both handlers are well-formed.
LEMMA ReplyType ==
  ASSUME StoreTypeOK, NEW o \in Ops
  PROVE  Get(o) \in Replies /\ PutReply(o) \in Replies
BY DEF StoreTypeOK, Ops, Get, PutReply, PutErr, Replies, Errs

\* The clerk operations in progress and the handlers left behind have
\* well-formed arguments.
LEMMA OpType ==
  ASSUME KVTypeOK
  PROVE  /\ \A c \in Clients : rpc[c] # "idle" => op[c] \in Ops
         /\ \A s \in LateSlots : late[s] # NoOp => late[s] \in Ops
BY DEF KVTypeOK, ClerkTypeOK

\* A handler that answers keeps the state well-typed.
LEMMA HandleType ==
  ASSUME KVTypeOK, NEW c \in Clients, Handle(c)
  PROVE  KVTypeOK'
<1>1. op[c] \in Ops
  BY OpType DEF Handle
<1>2. StoreTypeOK'
  BY <1>1, PutType DEF Handle, KVTypeOK, StoreTypeOK, storeVars
<1>3. Get(op[c]) \in Replies /\ PutReply(op[c]) \in Replies
  BY <1>1, ReplyType DEF KVTypeOK
<1>4. ClerkTypeOK'
  BY <1>3, NullAssumption DEF Handle, KVTypeOK, ClerkTypeOK, netVars
<1> QED
  BY <1>2, <1>4 DEF KVTypeOK

\* A handler left behind (processReq) keeps the state well-typed.
LEMMA HandleLateType ==
  ASSUME KVTypeOK, NEW s \in LateSlots, HandleLate(s)
  PROVE  KVTypeOK'
<1>1. StoreTypeOK'
  BY OpType, PutType DEF HandleLate, KVTypeOK
<1>2. ClerkTypeOK'
  BY DEF HandleLate, KVTypeOK, ClerkTypeOK, clerkVars
<1> QED
  BY <1>1, <1>2 DEF KVTypeOK

\* What Clerk.Put makes of a reply is an error of rpc.go.
LEMMA ClerkErrType ==
  ASSUME KVTypeOK, NEW c \in Clients, rpc[c] = "replied"
  PROVE  reply[c] \in Replies /\ ClerkErr(c) \in Errs
BY DEF KVTypeOK, ClerkTypeOK, ClerkErr, Replies, Errs

\* The return of a Clerk operation keeps the state well-typed.
LEMMA ReturnType ==
  ASSUME KVTypeOK, NEW c \in Clients, Return(c)
  PROVE  KVTypeOK'
<1>1. [Err |-> ClerkErr(c), Value |-> reply[c].Value,
       Version |-> reply[c].Version] \in Replies
  BY ClerkErrType DEF Return, Replies
<1> QED
  BY <1>1
  DEF Return, KVTypeOK, StoreTypeOK, ClerkTypeOK, storeVars, netVars

\* Losses, dispatch, giving up on a handler, and Enable.
LEMMA NetworkType ==
  ASSUME KVTypeOK, NEW c \in Clients,
         \/ LoseRequest(c)
         \/ LoseReply(c)
         \/ Dispatch(c)
         \/ GiveUp(c)
         \/ Enable(c)
  PROVE  KVTypeOK'
<1>1. CASE LoseRequest(c) \/ LoseReply(c)
  BY <1>1, ResendType
  DEF LoseRequest, LoseReply, KVTypeOK, StoreTypeOK, ClerkTypeOK, storeVars,
      netVars
<1>2. CASE Dispatch(c)
  BY <1>2
  DEF Dispatch, KVTypeOK, StoreTypeOK, ClerkTypeOK, storeVars, netVars
<1>3. CASE GiveUp(c)
  <2>1. (late \in [LateSlots -> Ops \cup {NoOp}])'
    BY <1>3, OpType DEF GiveUp, KVTypeOK, ClerkTypeOK
  <2>2. StoreTypeOK' /\ (enabled \in [Clients -> BOOLEAN])'
    BY <1>3 DEF GiveUp, KVTypeOK, StoreTypeOK, ClerkTypeOK, storeVars
  <2> QED
    BY <1>3, <2>1, <2>2, ResendType DEF GiveUp, KVTypeOK
<1>4. CASE Enable(c)
  BY <1>4
  DEF Enable, KVTypeOK, StoreTypeOK, ClerkTypeOK, storeVars, clerkVars
<1> QED
  BY <1>1, <1>2, <1>3, <1>4

-----------------------------------------------------------------------------
(* Type correctness. *)

\* A Get of the lock code keeps the types.
LEMMA AskType ==
  ASSUME TypeOK, NEW c \in Clients
  PROVE  /\ StartGet(c, LockOf[c], c) => KVTypeOK'
         /\ \A v \in {"free", "held"} :
              result[c] \in Replies
                /\ StartPut(c, LockOf[c], v, result[c].Version, c)
                => KVTypeOK'
<1>1. GetOp(LockOf[c], c) \in Ops
  BY LockAssumption DEF GetOp, Ops
<1>2. ASSUME NEW v \in {"free", "held"}, result[c] \in Replies
      PROVE  PutOp(LockOf[c], v, result[c].Version, c) \in Ops
  BY <1>2, LockAssumption DEF PutOp, Ops, Replies
<1> QED
  BY <1>1, <1>2, StartType DEF StartGet, StartPut, TypeOK

\* The lock code looks at a result only after an operation has returned.
LEMMA ResultType ==
  ASSUME TypeOK, NEW c \in Clients, rpc[c] = "idle",
         lpc[c] \notin {"out", "in"}
  PROVE  result[c] \in Replies
BY DEF TypeOK, KVTypeOK, ClerkTypeOK

\* Every step of lock code, clerks, network and server keeps the types.
LEMMA TypeStep == TypeOK /\ [Next]_vars => TypeOK'
<1> SUFFICES ASSUME TypeOK, [Next]_vars PROVE TypeOK'
  OBVIOUS
<1>1. ASSUME NEW c \in Clients, NEW l \in LockPcs, KVTypeOK',
             rpc'[c] = "sent" \/ l \in {"out", "in"},
             \A d \in Clients \ {c} : UNCHANGED <<rpc[d], result[d]>>,
             Goto(c, l)
      PROVE  TypeOK'
  BY <1>1 DEF TypeOK, Goto
<1>2. ASSUME NEW c \in Clients, NEW o, Start(c, o)
      PROVE  /\ rpc'[c] = "sent"
             /\ \A d \in Clients \ {c} : UNCHANGED <<rpc[d], result[d]>>
  BY <1>2 DEF Start, TypeOK, KVTypeOK, ClerkTypeOK
<1>3. ASSUME NEW c \in Clients, NEW get \in LockPcs, AskGet(c, get)
      PROVE  TypeOK'
  BY <1>1, <1>2, <1>3, AskType DEF AskGet, StartGet
<1>4. ASSUME NEW c \in Clients, Acquire(c)
      PROVE  TypeOK'
  <2>1. KVTypeOK' /\ rpc'[c] = "sent"
    BY <1>2, <1>4, AskType DEF Acquire, StartGet
  <2>2. \A d \in Clients \ {c} : UNCHANGED <<rpc[d], result[d]>>
    BY <1>2, <1>4 DEF Acquire, StartGet
  <2> QED
    BY <1>4, <2>1, <2>2, LockAssumption DEF TypeOK, Acquire, LockPcs
<1>5. ASSUME NEW c \in Clients, NEW get \in LockPcs \ {"out", "in"},
             NEW put \in LockPcs, NEW from, NEW to \in {"free", "held"},
             AfterGet(c, get, put, from, to)
      PROVE  TypeOK'
  <2>1. result[c] \in Replies
    BY <1>5, ResultType DEF AfterGet
  <2>2. CASE AskGet(c, get)
    BY <1>3, <2>2
  <2>3. CASE /\ StartPut(c, LockOf[c], to, result[c].Version, c)
             /\ Goto(c, put)
    BY <1>1, <1>2, <2>1, <2>3, AskType DEF StartPut
  <2> QED
    BY <1>5, <2>2, <2>3 DEF AfterGet
<1>6. ASSUME NEW c \in Clients, NEW get \in LockPcs, NEW put,
             NEW done \in {"out", "in"}, AfterPut(c, get, put, done)
      PROVE  TypeOK'
  <2>1. CASE AskGet(c, get)
    BY <1>3, <2>1
  <2>2. CASE Goto(c, done) /\ UNCHANGED kvVars
    BY <1>1, <2>2, KVUnchangedType
    DEF TypeOK, kvVars, clerkVars, LockPcs
  <2> QED
    BY <1>6, <2>1, <2>2 DEF AfterPut
<1>7. ASSUME NEW c \in Clients, LockStep(c)
      PROVE  TypeOK'
  BY <1>3, <1>5, <1>6, <1>7
  DEF LockStep, AcquireGot, AcquirePutDone, Release, ReleaseGot,
      ReleasePutDone, LockPcs
<1>8. ASSUME NEW c \in Clients, ClerkStep(c)
      PROVE  TypeOK'
  <2>1. KVTypeOK'
    BY <1>8, NetworkType, HandleType, ReturnType DEF ClerkStep, TypeOK
  <2>2. \A d \in Clients :
          \/ UNCHANGED <<rpc[d], result[d]>>
          \/ rpc'[d] # "idle"
          \/ result'[d] \in Replies
    BY <1>8, ClerkErrType
    DEF ClerkStep, Dispatch, Handle, Return, TypeOK, KVTypeOK, ClerkTypeOK,
        Replies
  <2> QED
    BY <1>8, <2>1, <2>2, NullAssumption DEF ClerkStep, lockVars, TypeOK
<1>9. ASSUME NEW c \in Clients, FaultStep(c)
      PROVE  TypeOK'
  <2>1. KVTypeOK'
    BY <1>9, NetworkType DEF FaultStep, LossStep, TypeOK
  <2>2. UNCHANGED result
        /\ \A d \in Clients : rpc'[d] = "idle" => rpc[d] = "idle"
    BY <1>9
    DEF FaultStep, LossStep, LoseRequest, LoseReply, GiveUp, Enable, Resend,
        clerkVars, TypeOK, KVTypeOK, ClerkTypeOK
  <2>3. UNCHANGED <<lpc, rounds>> /\ doubt' \subseteq Keys
    BY <1>9, LockAssumption
    DEF FaultStep, LossStep, Unanswered, lockVars, TypeOK
  <2> QED
    BY <1>9, <2>1, <2>2, <2>3 DEF TypeOK
<1>10. ASSUME NEW s \in LateSlots, LateStep(s)
       PROVE  TypeOK'
  BY <1>10, HandleLateType DEF LateStep, HandleLate, TypeOK, lockVars,
     clerkVars
<1>11. CASE UNCHANGED vars
  BY <1>11, KVUnchangedType DEF vars, lockVars, kvVars, clerkVars, TypeOK
<1> QED
  BY <1>4, <1>7, <1>8, <1>9, <1>10, <1>11 DEF Next

\* On every network the lock's state stays well-typed, and Acquire and
\* Release never look at the result of an operation that has not returned.
THEOREM TypeCorrect == Spec => []TypeOK
<1>1. Init => TypeOK
  BY KVInitType, LockAssumption DEF Init, TypeOK, LockPcs
<1> QED
  BY <1>1, TypeStep, PTL DEF Spec

-----------------------------------------------------------------------------
(* Mutual exclusion.  A step of one client that leaves the store alone and *)
(* neither makes nor ends an ownership keeps the invariant of the others.  *)

\* A step that touches one client and no key keeps LockInv if that
\* client keeps its part of it.
LEMMA LocalStep ==
  ASSUME LockInv, NEW c \in Clients,
         UNCHANGED <<data, dataVersion>>,
         doubt \subseteq doubt',
         (\A s \in LateSlots : late[s] # NoOp => late[s].Key \in doubt)',
         \A d \in Clients \ {c} :
           UNCHANGED <<lpc[d], rpc[d], op[d], reply[d], result[d]>>,
         ClientInv(c)',
         LockOf[c] \notin doubt' => (Owner(c)' <=> Owner(c))
  PROVE  LockInv'
<1>1. \A d \in Clients \ {c} : /\ ClientInv(d) => ClientInv(d)'
                               /\ Owner(d)' <=> Owner(d)
  BY DEF ClientInv, CallMatches, AcquireIsGuarded, Fresh, Owner,
         PutWasPerformed
<1>2. \A d \in Clients : LockOf[d] \notin doubt' => (Owner(d)' <=> Owner(d))
  BY <1>1
<1>3. (\A d \in Clients : ClientInv(d))'
  BY <1>1 DEF LockInv
<1>4. OneOwner'
  BY <1>2 DEF LockInv, OneOwner, SameLock
<1>5. (\A l \in Keys \ doubt : HasOwner(l))'
  BY <1>2 DEF LockInv, HasOwner
<1> QED
  BY <1>3, <1>4, <1>5 DEF LockInv

\* In the same way for a step that leaves handlers left behind and doubt alone.
LEMMA QuietStep ==
  ASSUME LockInv, NEW c \in Clients,
         UNCHANGED <<data, dataVersion, late, doubt>>,
         \A d \in Clients \ {c} :
           UNCHANGED <<lpc[d], rpc[d], op[d], reply[d], result[d]>>,
         ClientInv(c)',
         Owner(c)' <=> Owner(c)
  PROVE  LockInv'
BY LocalStep DEF LockInv

\* Starting a call is local to its client.
LEMMA StartLocal ==
  ASSUME TypeOK, NEW c \in Clients, NEW o, Start(c, o), UNCHANGED doubt,
         \A d \in Clients \ {c} : UNCHANGED lpc[d]
  PROVE  /\ UNCHANGED <<data, dataVersion, late, doubt>>
         /\ \A d \in Clients \ {c} :
              UNCHANGED <<lpc[d], rpc[d], op[d], reply[d], result[d]>>
         /\ rpc[c] = "idle" /\ rpc'[c] = "sent"
         /\ op'[c] = o
BY DEF Start, TypeOK, KVTypeOK, ClerkTypeOK, storeVars, netVars

\* Acquire, Release and going round their loops.
LEMMA AskKeepsInv ==
  ASSUME TypeOK, LockInv, NEW c \in Clients, NEW l,
         StartGet(c, LockOf[c], c),
         lpc' = [lpc EXCEPT ![c] = l], UNCHANGED doubt,
         \/ l = "acqGet" /\ ~Owner(c)
         \/ l = "relGet" /\ Owner(c)
  PROVE  LockInv'
<1>1. lpc'[c] = l /\ \A d \in Clients \ {c} : UNCHANGED lpc[d]
  BY DEF TypeOK
<1>2. /\ UNCHANGED <<data, dataVersion, late, doubt>>
      /\ \A d \in Clients \ {c} :
           UNCHANGED <<lpc[d], rpc[d], op[d], reply[d], result[d]>>
      /\ rpc'[c] = "sent" /\ op'[c] = GetOp(LockOf[c], c)
  BY <1>1, StartLocal DEF StartGet
<1>3. Owner(c)' <=> Owner(c)
  BY <1>1 DEF Owner
<1>4. ClientInv(c)'
  BY <1>1, <1>2, <1>3
  DEF LockInv, ClientInv, CallMatches, AcquireIsGuarded, GetOp
<1> QED
  BY <1>2, <1>3, <1>4, QuietStep

\* The steps of Acquire and Release between two calls keep LockInv.
LEMMA LockStepKeepsInv ==
  ASSUME TypeOK, LockInv, NEW c \in Clients,
         Acquire(c) \/ LockStep(c)
  PROVE  LockInv'
<1>1. CASE Acquire(c)
  BY <1>1, AskKeepsInv DEF Acquire, Owner
<1>2. CASE AcquireGot(c)
  <2>1. lpc[c] = "acqGet" /\ rpc[c] = "idle" /\ ~Owner(c)
    BY <1>2 DEF AcquireGot, AfterGet, Owner
  <2>2. CASE AskGet(c, "acqGet")
    BY <2>1, <2>2, AskKeepsInv DEF AskGet, Goto
  <2>3. CASE /\ MayPut(c, "free")
             /\ StartPut(c, LockOf[c], "held", result[c].Version, c)
             /\ Goto(c, "acqPut")
    <3>1. lpc'[c] = "acqPut" /\ \A d \in Clients \ {c} : UNCHANGED lpc[d]
      BY <2>3 DEF Goto, TypeOK
    <3>2. /\ UNCHANGED <<data, dataVersion, late, doubt>>
          /\ \A d \in Clients \ {c} :
               UNCHANGED <<lpc[d], rpc[d], op[d], reply[d], result[d]>>
          /\ rpc'[c] = "sent"
          /\ op'[c] = PutOp(LockOf[c], "held", result[c].Version, c)
      BY <2>3, <3>1, StartLocal DEF StartPut, Goto
    <3>3. Owner(c)' <=> Owner(c)
      BY <2>1, <3>1, <3>2 DEF Owner, PutWasPerformed
    <3>4. Fresh(c, result[c])
      BY <2>1 DEF LockInv, ClientInv, AcquireIsGuarded
    <3>5. NoValue # "held"
      BY LockAssumption, NoValueAssumption
    <3>6. result[c].Value # "held"
      BY <2>3, <3>4, <3>5 DEF MayPut, Fresh
    <3>7. AcquireIsGuarded(c)'
      BY <3>1, <3>2, <3>4, <3>6 DEF AcquireIsGuarded, Fresh, PutOp
    <3>8. ClientInv(c)'
      BY <2>1, <3>1, <3>2, <3>3, <3>7
      DEF LockInv, ClientInv, CallMatches, PutOp
    <3> QED
      BY <3>2, <3>3, <3>8, QuietStep
  <2> QED
    BY <1>2, <2>2, <2>3 DEF AcquireGot, AfterGet
<1>3. CASE ReleaseGot(c)
  <2>1. lpc[c] = "relGet" /\ rpc[c] = "idle" /\ Owner(c)
    BY <1>3 DEF ReleaseGot, AfterGet, Owner
  <2>2. CASE AskGet(c, "relGet")
    BY <2>1, <2>2, AskKeepsInv DEF AskGet, Goto
  <2>3. CASE /\ StartPut(c, LockOf[c], "free", result[c].Version, c)
             /\ Goto(c, "relPut")
    <3>1. lpc'[c] = "relPut" /\ \A d \in Clients \ {c} : UNCHANGED lpc[d]
      BY <2>3 DEF Goto, TypeOK
    <3>2. /\ UNCHANGED <<data, dataVersion, late, doubt>>
          /\ \A d \in Clients \ {c} :
               UNCHANGED <<lpc[d], rpc[d], op[d], reply[d], result[d]>>
          /\ rpc'[c] = "sent"
          /\ op'[c] = PutOp(LockOf[c], "free", result[c].Version, c)
      BY <2>3, <3>1, StartLocal DEF StartPut, Goto
    <3>3. Owner(c)' <=> Owner(c)
      BY <2>1, <3>1, <3>2 DEF Owner, PutWasPerformed
    <3>4. ClientInv(c)'
      BY <2>1, <3>1, <3>2, <3>3
      DEF LockInv, ClientInv, CallMatches, AcquireIsGuarded, PutOp
    <3> QED
      BY <3>2, <3>3, <3>4, QuietStep
  <2> QED
    BY <1>3, <2>2, <2>3 DEF ReleaseGot, AfterGet
<1>4. ASSUME NEW l \in {"in", "out"}, Goto(c, l), UNCHANGED kvVars,
             rpc[c] = "idle",
             \/ l = "in" /\ Owner(c)
             \/ l = "out" /\ ~Owner(c)
      PROVE  LockInv'
  <2>1. lpc'[c] = l /\ \A d \in Clients \ {c} : UNCHANGED lpc[d]
    BY <1>4 DEF Goto, TypeOK
  <2>2. UNCHANGED <<data, dataVersion, late, doubt, rpc, op, reply,
                    result>>
    BY <1>4 DEF kvVars, storeVars, clerkVars, netVars, Goto
  <2>3. Owner(c)' <=> Owner(c)
    BY <1>4, <2>1 DEF Owner
  <2>4. ClientInv(c)'
    BY <1>4, <2>1, <2>2, <2>3
    DEF LockInv, ClientInv, CallMatches, AcquireIsGuarded
  <2> QED
    BY <2>1, <2>2, <2>3, <2>4, QuietStep
<1>5. CASE AcquirePutDone(c)
  BY <1>4, <1>5, AskKeepsInv
  DEF AcquirePutDone, AfterPut, AskGet, Goto, Owner, PutWasPerformed
<1>6. CASE ReleasePutDone(c)
  BY <1>4, <1>6, AskKeepsInv
  DEF ReleasePutDone, AfterPut, AskGet, Goto, Owner, PutWasPerformed
<1>7. CASE Release(c)
  BY <1>7, AskKeepsInv DEF Release, AskGet, Goto, Owner
<1> QED
  BY <1>1, <1>2, <1>3, <1>5, <1>6, <1>7 DEF LockStep

\* The network delivers a request or a reply.
LEMMA DeliveryKeepsInv ==
  ASSUME TypeOK, LockInv, NEW c \in Clients,
         Dispatch(c) \/ Return(c), UNCHANGED lockVars
  PROVE  LockInv'
<1>1. /\ UNCHANGED <<data, dataVersion, late, lpc, doubt>>
      /\ \A d \in Clients \ {c} :
           UNCHANGED <<lpc[d], rpc[d], op[d], reply[d], result[d]>>
  BY DEF Dispatch, Return, storeVars, netVars, lockVars, TypeOK, KVTypeOK,
         ClerkTypeOK
<1>2. CASE Dispatch(c)
  <2>1. /\ rpc[c] = "sent" /\ rpc'[c] = "dispatched"
        /\ UNCHANGED <<op, reply, result>>
    BY <1>2 DEF Dispatch, TypeOK, KVTypeOK, ClerkTypeOK
  <2>2. Owner(c)' <=> Owner(c)
    BY <1>1, <2>1 DEF Owner, PutWasPerformed
  <2>3. ClientInv(c)'
    BY <1>1, <2>1, <2>2
    DEF LockInv, ClientInv, CallMatches, AcquireIsGuarded
  <2> QED
    BY <1>1, <2>2, <2>3, QuietStep
<1>3. CASE Return(c)
  <2>1. rpc[c] = "replied" /\ rpc'[c] = "idle"
    BY <1>3 DEF Return, TypeOK, KVTypeOK, ClerkTypeOK
  <2>2. /\ result'[c].Err = ClerkErr(c)
        /\ result'[c].Value = reply[c].Value
        /\ result'[c].Version = reply[c].Version
    BY <1>3, <2>1 DEF Return, TypeOK, KVTypeOK, ClerkTypeOK
  <2>3. \A e \in {"OK", "ErrNoKey"} : ClerkErr(c) = e <=> reply[c].Err = e
    BY DEF ClerkErr
  <2>4. Owner(c)' <=> Owner(c)
    BY <1>1, <2>1, <2>2, <2>3 DEF Owner, PutWasPerformed
  <2>5. AcquireIsGuarded(c)'
    BY <1>1, <2>1, <2>2, <2>3
    DEF LockInv, ClientInv, AcquireIsGuarded, Fresh
  <2>6. CallMatches(c)'
    BY <1>1, <2>1, <2>2 DEF LockInv, ClientInv, CallMatches
  <2>7. ClientInv(c)'
    BY <1>1, <2>1, <2>2, <2>4, <2>5, <2>6 DEF LockInv, ClientInv
  <2> QED
    BY <1>1, <2>4, <2>7, QuietStep
<1> QED
  BY <1>2, <1>3

\* What a performed Put changes.
LEMMA PutEffect ==
  ASSUME StoreTypeOK, NEW o \in Ops, PutPerforms(o), Put(o)
  PROVE  /\ o.Key \in Keys /\ dataVersion[o.Key] \in Nat
         /\ dataVersion[o.Key] = o.Version
         /\ data'[o.Key] = o.Value
         /\ dataVersion'[o.Key] = dataVersion[o.Key] + 1
         /\ \A k \in Keys \ {o.Key} : UNCHANGED <<data[k], dataVersion[k]>>
BY DEF StoreTypeOK, PutPerforms, PutErr, Present, Put, Ops

\* A performed Put makes what other clients have read outdated, and leaves
\* other locks alone.
LEMMA PutKeepsGuards ==
  ASSUME TypeOK, NEW o \in Ops, PutPerforms(o), Put(o),
         NEW d \in Clients, CallMatches(d), AcquireIsGuarded(d),
         UNCHANGED <<lpc[d], rpc[d], op[d], reply[d], result[d]>>
  PROVE  CallMatches(d)' /\ AcquireIsGuarded(d)'
<1> DEFINE k == LockOf[d]
<1>1. k \in Keys /\ StoreTypeOK
  BY LockAssumption DEF TypeOK, KVTypeOK
<1>2. CallMatches(d)'
  BY DEF CallMatches
<1>3. CASE k # o.Key
  <2>1. UNCHANGED <<data[k], dataVersion[k]>>
    BY <1>1, <1>3, PutEffect
  <2> QED
    BY <1>2, <2>1 DEF AcquireIsGuarded, Fresh
<1>4. CASE k = o.Key
  <2>1. dataVersion[k] \in Nat /\ dataVersion'[k] = dataVersion[k] + 1
    BY <1>1, <1>4, PutEffect
  <2>2. ASSUME NEW x \in Replies, Fresh(d, x)
        PROVE  Fresh(d, x)'
    <3>1. x.Version \in Nat /\ x.Version <= dataVersion[k]
      BY <2>2 DEF Fresh, Replies
    <3>2. x.Version <= dataVersion'[k] /\ x.Version # dataVersion'[k]
      BY <2>1, <3>1
    <3> QED
      BY <2>2, <3>2 DEF Fresh
  <2>3. (lpc[d] = "acqGet" /\ rpc[d] = "replied" => Fresh(d, reply[d]))'
    <3>1. rpc[d] = "replied" => reply[d] \in Replies
      BY DEF TypeOK, KVTypeOK, ClerkTypeOK
    <3> QED
      BY <2>2, <3>1 DEF AcquireIsGuarded, Fresh
  <2>4. (lpc[d] = "acqGet" /\ rpc[d] = "idle" => Fresh(d, result[d]))'
    <3>1. lpc[d] = "acqGet" /\ rpc[d] = "idle" => result[d] \in Replies
      BY ResultType
    <3> QED
      BY <2>2, <3>1 DEF AcquireIsGuarded, Fresh
  <2>5. (lpc[d] = "acqPut" /\ rpc[d] # "idle" =>
           /\ op[d].Version <= dataVersion[k]
           /\ op[d].Version = dataVersion[k] => data[k] # "held")'
    <3>1. rpc[d] # "idle" => op[d].Version \in Nat
      BY OpType DEF TypeOK, Ops
    <3> QED
      BY <2>1, <3>1 DEF AcquireIsGuarded
  <2> QED
    BY <1>2, <2>3, <2>4, <2>5 DEF AcquireIsGuarded
<1> QED
  BY <1>3, <1>4

\* A handler runs.  A Put of Acquire that is performed finds the lock free,
\* hence without owner, and makes its client the owner; a Put of Release
\* that is performed ends the only ownership.
LEMMA HandleKeepsInv ==
  ASSUME TypeOK, LockInv, NEW c \in Clients, Handle(c),
         UNCHANGED lockVars
  PROVE  LockInv'
<1> DEFINE k == LockOf[c]
<1>0. k \in Keys /\ StoreTypeOK
  BY LockAssumption DEF TypeOK, KVTypeOK
<1>1. /\ UNCHANGED <<late, doubt, lpc, op, result>>
      /\ rpc[c] = "dispatched" /\ rpc'[c] = "replied"
      /\ \A d \in Clients \ {c} :
           UNCHANGED <<lpc[d], rpc[d], op[d], reply[d], result[d]>>
  BY DEF Handle, netVars, lockVars, TypeOK, KVTypeOK, ClerkTypeOK
<1>2. /\ op[c] \in Ops
      /\ reply \in [Clients -> Replies \cup {NoReply}]
  BY <1>1, OpType DEF TypeOK, KVTypeOK, ClerkTypeOK
<1>3. /\ CallMatches(c) /\ AcquireIsGuarded(c)
      /\ op[c].Key = k
      /\ lpc[c] \in {"acqGet", "acqPut", "relGet", "relPut"}
  BY <1>1 DEF LockInv, ClientInv, CallMatches, TypeOK, LockPcs
<1>4. CASE op[c].Op = "Get"
  <2>1. /\ lpc[c] \in {"acqGet", "relGet"}
        /\ reply'[c] = Get(op[c])
        /\ UNCHANGED <<data, dataVersion>>
    BY <1>1, <1>2, <1>3, <1>4 DEF Handle, CallMatches, storeVars
  <2>2. Fresh(c, Get(op[c]))
    BY <1>0, <1>2, <1>3 DEF Fresh, Get, StoreTypeOK
  <2>3. Owner(c)' <=> Owner(c)
    BY <1>1, <2>1 DEF Owner
  <2>4. CallMatches(c)' /\ AcquireIsGuarded(c)'
    BY <1>1, <1>3, <2>1, <2>2 DEF CallMatches, AcquireIsGuarded, Fresh
  <2>5. ClientInv(c)'
    BY <1>1, <2>1, <2>3, <2>4 DEF LockInv, ClientInv
  <2> QED
    BY <1>1, <2>1, <2>3, <2>5, QuietStep
<1>5. CASE op[c].Op = "Put" /\ ~PutPerforms(op[c])
  <2>1. /\ lpc[c] \in {"acqPut", "relPut"}
        /\ reply'[c] = PutReply(op[c]) /\ reply'[c].Err # "OK"
        /\ UNCHANGED <<data, dataVersion>>
    BY <1>1, <1>2, <1>3, <1>5
    DEF Handle, Put, PutReply, PutPerforms, CallMatches, storeVars
  <2>2. Owner(c)' <=> Owner(c)
    BY <1>1, <2>1 DEF Owner, PutWasPerformed
  <2>3. ClientInv(c)'
    BY <1>1, <1>3, <2>1, <2>2
    DEF LockInv, ClientInv, AcquireIsGuarded, CallMatches
  <2> QED
    BY <1>1, <2>1, <2>2, <2>3, QuietStep
<1>6. CASE op[c].Op = "Put" /\ PutPerforms(op[c])
  <2>1. /\ lpc[c] \in {"acqPut", "relPut"}
        /\ op[c].Value = IF lpc[c] = "acqPut" THEN "held" ELSE "free"
        /\ reply'[c] = PutReply(op[c]) /\ reply'[c].Err = "OK"
        /\ Put(op[c])
    BY <1>1, <1>2, <1>3, <1>6
    DEF Handle, PutReply, PutPerforms, CallMatches
  <2>2. /\ dataVersion[k] = op[c].Version
        /\ data'[k] = op[c].Value
        /\ dataVersion[k] \in Nat
        /\ dataVersion'[k] = dataVersion[k] + 1
        /\ \A j \in Keys \ {k} : UNCHANGED data[j]
    BY <1>0, <1>2, <1>3, <1>6, <2>1, PutEffect
  <2>3. \A d \in Clients \ {c} : Owner(d)' <=> Owner(d)
    BY <1>1 DEF Owner, PutWasPerformed
  <2>4. Owner(c)' <=> lpc[c] = "acqPut"
    BY <1>1, <2>1 DEF Owner, PutWasPerformed
  <2>5. k \notin doubt => \A d \in Clients \ {c} : SameLock(d, c) => ~Owner(d)
    <3>1. CASE lpc[c] = "acqPut"
      <4>1. data[k] # "held"
        BY <1>1, <1>3, <2>2, <3>1, <1>0 DEF AcquireIsGuarded, StoreTypeOK
      <4> QED
        BY <4>1 DEF LockInv, ClientInv, SameLock
    <3>2. CASE lpc[c] = "relPut"
      <4>1. Owner(c)
        BY <1>1, <3>2 DEF Owner, PutWasPerformed
      <4> QED
        BY <4>1 DEF LockInv, OneOwner, SameLock
    <3> QED
      BY <2>1, <3>1, <3>2
  <2>6. ClientInv(c)'
    <3>1. CallMatches(c)' /\ AcquireIsGuarded(c)'
      BY <1>1, <1>2, <1>3, <2>1, <2>2 DEF CallMatches, AcquireIsGuarded
    <3> QED
      BY <2>1, <2>2, <2>4, <3>1 DEF ClientInv
  <2>7. ASSUME NEW d \in Clients \ {c} PROVE ClientInv(d)'
    <3>1. ClientInv(d) /\ LockOf[d] \in Keys
      BY LockAssumption DEF LockInv
    <3>2. CallMatches(d)' /\ AcquireIsGuarded(d)'
      BY <1>1, <1>2, <1>6, <2>1, <3>1, PutKeepsGuards DEF ClientInv
    <3>3. (Owner(d) /\ LockOf[d] \notin doubt => data[LockOf[d]] = "held")'
      BY <1>1, <2>2, <2>3, <2>5, <3>1 DEF ClientInv, SameLock
    <3> QED
      BY <3>2, <3>3 DEF ClientInv
  <2>8. OneOwner'
    BY <1>1, <2>3, <2>5 DEF OneOwner, SameLock, LockInv
  <2>9. ASSUME NEW l \in Keys \ doubt PROVE HasOwner(l)'
    <3> SUFFICES ASSUME data'[l] = "held"
                 PROVE  \E d \in Clients : LockOf[d] = l /\ Owner(d)'
      BY DEF HasOwner
    <3>1. CASE l = k
      BY <2>1, <2>2, <2>4, <3>1
    <3>2. CASE l # k
      <4>1. data[l] = "held"
        BY <2>2, <3>2
      <4>2. PICK d \in Clients : LockOf[d] = l /\ Owner(d)
        BY <4>1 DEF LockInv, HasOwner
      <4> QED
        BY <2>3, <3>2, <4>2
    <3> QED
      BY <3>1, <3>2
  <2> QED
    BY <1>1, <2>6, <2>7, <2>8, <2>9 DEF LockInv
<1> QED
  BY <1>2, <1>4, <1>5, <1>6 DEF Ops

\* A request or an answer is lost, or a handler is left behind: the lock
\* comes into doubt if its Put was, or may still be, performed.
LEMMA LossKeepsInv ==
  ASSUME TypeOK, LockInv, NEW c \in Clients, LossStep(c)
  PROVE  LockInv'
<1>1. /\ UNCHANGED <<data, dataVersion, lpc, op, result>>
      /\ rpc[c] # "idle" /\ rpc'[c] = "sent"
      /\ \A d \in Clients \ {c} :
           UNCHANGED <<lpc[d], rpc[d], op[d], reply[d], result[d]>>
  BY DEF LossStep, LoseRequest, LoseReply, GiveUp, Resend, storeVars, TypeOK,
         KVTypeOK, ClerkTypeOK
<1>2. doubt' = doubt \cup Unanswered(c)
  BY DEF LossStep
<1>3. CallMatches(c) /\ AcquireIsGuarded(c) /\ op[c] \in Ops
  BY <1>1, OpType DEF LockInv, ClientInv, TypeOK
<1>4. (\A s \in LateSlots : late[s] # NoOp => late[s].Key \in doubt)'
  <2>1. CASE UNCHANGED late
    BY <1>2, <2>1 DEF LockInv
  <2>2. CASE ~UNCHANGED late
    <3>1. /\ rpc[c] = "dispatched" /\ op[c].Op = "Put"
          /\ \E s \in LateSlots : late' = [late EXCEPT ![s] = op[c]]
      BY <2>2 DEF LossStep, LoseRequest, LoseReply, GiveUp, netVars
    <3>2. op[c].Key \in doubt'
      BY <1>1, <1>2, <1>3, <3>1
      DEF Unanswered, CallMatches, TypeOK, LockPcs
    <3> QED
      BY <1>2, <3>1, <3>2 DEF LockInv, TypeOK, KVTypeOK, ClerkTypeOK
  <2> QED
    BY <2>1, <2>2
<1>5. ASSUME LockOf[c] \notin doubt'
      PROVE  /\ lpc[c] \in {"acqPut", "relPut"} =>
                  \/ rpc[c] = "sent"
                  \/ rpc[c] = "replied" /\ reply[c].Err # "OK"
             /\ Owner(c)' <=> Owner(c)
  <2>1. lpc[c] \in {"acqPut", "relPut"} =>
          \/ rpc[c] = "sent"
          \/ rpc[c] = "replied" /\ reply[c].Err # "OK"
    BY <1>1, <1>2, <1>3, <1>5
    DEF Unanswered, CallMatches, TypeOK, KVTypeOK, ClerkTypeOK
  <2> QED
    BY <1>1, <2>1 DEF Owner, PutWasPerformed
<1>6. AcquireIsGuarded(c)'
  BY <1>1, <1>3 DEF AcquireIsGuarded
<1>7. ClientInv(c)'
  <2>1. CallMatches(c)'
    BY <1>1, <1>3 DEF CallMatches
  <2> QED
    BY <1>1, <1>2, <1>5, <1>6, <2>1 DEF LockInv, ClientInv
<1> QED
  BY <1>1, <1>2, <1>4, <1>5, <1>7, LocalStep

\* A handler left behind runs: its lock has been in doubt since.
LEMMA LateKeepsInv ==
  ASSUME TypeOK, LockInv, NEW s \in LateSlots, LateStep(s)
  PROVE  LockInv'
<1> DEFINE k == late[s].Key
<1>1. /\ late[s] \in Ops /\ Put(late[s]) /\ StoreTypeOK
      /\ UNCHANGED <<lpc, doubt, rpc, op, reply, result>>
      /\ late' = [late EXCEPT ![s] = NoOp]
  BY OpType DEF LateStep, HandleLate, lockVars, clerkVars, TypeOK, KVTypeOK
<1>2. k \in doubt /\ k \in Keys
  BY <1>1 DEF LockInv, LateStep, HandleLate, Ops
<1>3. \A l \in Keys \ doubt : UNCHANGED data[l]
  BY <1>1, <1>2, PutEffect DEF Put, storeVars
<1>4. \A c \in Clients : Owner(c)' <=> Owner(c)
  BY <1>1 DEF Owner, PutWasPerformed
<1>5. ASSUME NEW c \in Clients PROVE ClientInv(c)'
  <2>1. ClientInv(c) /\ LockOf[c] \in Keys
    BY LockAssumption DEF LockInv
  <2>2. CASE PutPerforms(late[s])
    <3>1. CallMatches(c)' /\ AcquireIsGuarded(c)'
      BY <1>1, <2>1, <2>2, PutKeepsGuards DEF ClientInv
    <3> QED
      BY <1>1, <1>3, <1>4, <2>1, <3>1 DEF ClientInv
  <2>3. CASE ~PutPerforms(late[s])
    BY <1>1, <1>4, <2>1, <2>3
    DEF Put, storeVars, ClientInv, CallMatches, AcquireIsGuarded, Fresh
  <2> QED
    BY <2>2, <2>3
<1>6. OneOwner'
  BY <1>1, <1>4 DEF LockInv, OneOwner, SameLock
<1>7. (\A l \in Keys \ doubt : HasOwner(l))'
  BY <1>1, <1>3, <1>4 DEF LockInv, HasOwner
<1>8. (\A t \in LateSlots : late[t] # NoOp => late[t].Key \in doubt)'
  BY <1>1 DEF LockInv, TypeOK, KVTypeOK, ClerkTypeOK
<1> QED
  BY <1>5, <1>6, <1>7, <1>8 DEF LockInv

\* Nothing the invariant speaks of changes.
LEMMA IdleKeepsInv ==
  ASSUME LockInv,
         UNCHANGED <<data, dataVersion, late, doubt, lpc, rpc, op, reply,
                     result>>
  PROVE  LockInv'
BY DEF LockInv, ClientInv, CallMatches, AcquireIsGuarded, Fresh, Owner,
       PutWasPerformed, OneOwner, SameLock, HasOwner

\* LockInv together with the types is inductive.
LEMMA LockInvStep ==
  TypeOK /\ LockInv /\ [Next]_vars => LockInv'
<1> SUFFICES ASSUME TypeOK, LockInv, [Next]_vars PROVE LockInv'
  OBVIOUS
<1>1. ASSUME NEW c \in Clients, ClerkStep(c)
      PROVE  LockInv'
  BY <1>1, DeliveryKeepsInv, HandleKeepsInv DEF ClerkStep
<1>2. ASSUME NEW c \in Clients, FaultStep(c)
      PROVE  LockInv'
  BY <1>2, LossKeepsInv, IdleKeepsInv
  DEF FaultStep, Enable, storeVars, clerkVars, lockVars
<1>3. CASE UNCHANGED vars
  BY <1>3, IdleKeepsInv
  DEF vars, kvVars, storeVars, clerkVars, netVars, lockVars
<1> QED
  BY <1>1, <1>2, <1>3, LockStepKeepsInv, LateKeepsInv DEF Next

\* LockInv holds in every reachable state, on every network.
LEMMA LockInvCorrect == Spec => []LockInv
<1>1. Init => LockInv
  <2> SUFFICES ASSUME Init PROVE LockInv
    OBVIOUS
  <2>1. \A c \in Clients : ~Owner(c) /\ ClientInv(c)
    BY DEF Init, KVInit, ClerkInit, Owner, ClientInv, CallMatches,
           AcquireIsGuarded
  <2>2. NoValue # "held"
    BY LockAssumption, NoValueAssumption
  <2> QED
    BY <2>1, <2>2
    DEF Init, KVInit, MakeKVServer, ClerkInit, LockInv, OneOwner, HasOwner
<1> QED
  BY <1>1, LockInvStep, TypeCorrect, PTL DEF Spec

\* One owner per lock is enough for mutual exclusion.
LEMMA OwnersExclude ==
  ASSUME LockInv, NEW l \in Keys \ doubt
  PROVE  Exclusive(l)
BY DEF LockInv, OneOwner, SameLock, Owner, Exclusive

\* On every network, lossy or partitioned, a lock is exclusive and never
\* orphaned as long as no answer of one of its own Puts was lost.
THEOREM LockFaultsAreContained == Spec => []FaultsAreContained
<1>1. LockInv => FaultsAreContained
  BY OwnersExclude DEF LockInv, FaultsAreContained
<1> QED
  BY <1>1, LockInvCorrect, PTL

-----------------------------------------------------------------------------
(* Release.  Nobody but the owner changes a lock that is not in doubt, so  *)
(* that Release leaves its loop the first time round.                      *)

\* x says what the lock's key holds now.
Current(c, x) ==
  x.Err = "OK" /\ x.Value = "held" /\ x.Version = dataVersion[LockOf[c]]

\* What a client in Release has read is current, its Put has the current
\* version, and the answer is OK.
ReleaseSure(c) ==
  LockOf[c] \notin doubt =>
    /\ lpc[c] = "relGet" /\ rpc[c] = "replied" => Current(c, reply[c])
    /\ lpc[c] = "relGet" /\ rpc[c] = "idle" => Current(c, result[c])
    /\ lpc[c] = "relPut" /\ rpc[c] \in {"sent", "dispatched"} =>
         op[c].Version = dataVersion[LockOf[c]]
    /\ lpc[c] = "relPut" /\ rpc[c] = "replied" => reply[c].Err = "OK"
    /\ lpc[c] = "relPut" /\ rpc[c] = "idle" => result[c].Err = "OK"

\* The handler of another client leaves an owner's lock alone: a Put of
\* Acquire has an outdated version, and nobody else is in Release.
LEMMA OwnerUndisturbed ==
  ASSUME TypeOK, LockInv, NEW c \in Clients, Owner(c), LockOf[c] \notin doubt,
         NEW d \in Clients \ {c}, Handle(d)
  PROVE  UNCHANGED dataVersion[LockOf[c]]
<1> DEFINE k == LockOf[c]
<1>1. /\ k \in Keys /\ StoreTypeOK
      /\ rpc[d] = "dispatched" /\ op[d] \in Ops
  BY OpType, LockAssumption DEF Handle, TypeOK, KVTypeOK
<1>2. /\ CallMatches(d) /\ AcquireIsGuarded(d)
      /\ lpc[d] \in {"acqGet", "acqPut", "relGet", "relPut"}
      /\ op[d].Key = LockOf[d]
  BY <1>1 DEF LockInv, ClientInv, CallMatches, TypeOK, LockPcs
<1>3. data[k] = "held"
  BY DEF LockInv, ClientInv
<1>4. CASE ~(op[d].Op = "Put" /\ PutPerforms(op[d]))
  BY <1>4 DEF Handle, Put, storeVars
<1>5. CASE op[d].Op = "Put" /\ PutPerforms(op[d]) /\ LockOf[d] # k
  BY <1>1, <1>2, <1>5, PutEffect DEF Handle, Ops
<1>6. CASE op[d].Op = "Put" /\ PutPerforms(op[d]) /\ LockOf[d] = k
  <2>1. lpc[d] \in {"acqPut", "relPut"}
    BY <1>1, <1>2, <1>6 DEF CallMatches
  <2>2. op[d].Version = dataVersion[k]
    BY <1>1, <1>2, <1>6 DEF PutPerforms, PutErr, Present
  <2>3. lpc[d] # "acqPut"
    BY <1>1, <1>2, <1>3, <1>6, <2>2 DEF AcquireIsGuarded
  <2>4. Owner(d)
    BY <1>1, <2>1, <2>3 DEF Owner, PutWasPerformed
  <2> QED
    BY <1>6, <2>4 DEF LockInv, OneOwner, SameLock
<1> QED
  BY <1>4, <1>5, <1>6

\* Neither does a handler that was left behind.
LEMMA LateElsewhere ==
  ASSUME TypeOK, LockInv, NEW s \in LateSlots, HandleLate(s),
         NEW k \in Keys \ doubt
  PROVE  UNCHANGED dataVersion[k]
<1>1. late[s] \in Ops /\ late[s].Key \in doubt /\ StoreTypeOK
  BY OpType DEF HandleLate, LockInv, TypeOK, KVTypeOK
<1>2. CASE PutPerforms(late[s])
  BY <1>1, <1>2, PutEffect DEF HandleLate
<1>3. CASE ~PutPerforms(late[s])
  BY <1>3 DEF HandleLate, Put, storeVars
<1> QED
  BY <1>2, <1>3

\* A step that leaves a client and the version of its lock alone.
LEMMA SureUndisturbed ==
  ASSUME NEW c \in Clients, ReleaseSure(c), doubt \subseteq doubt',
         UNCHANGED <<lpc[c], rpc[c], op[c], reply[c], result[c]>>,
         \/ UNCHANGED dataVersion[LockOf[c]]
         \/ ~Owner(c)
         \/ LockOf[c] \in doubt
  PROVE  ReleaseSure(c)'
<1>1. CASE UNCHANGED dataVersion[LockOf[c]] \/ LockOf[c] \in doubt
  BY <1>1 DEF ReleaseSure, Current
<1>2. CASE ~Owner(c)
  <2>1. lpc[c] # "relGet" /\ (lpc[c] = "relPut" => PutWasPerformed(c))
    BY <1>2 DEF Owner
  <2>2. lpc[c] = "relPut" => rpc[c] \in {"replied", "idle"}
    BY <2>1 DEF PutWasPerformed
  <2> QED
    BY <2>1, <2>2 DEF ReleaseSure
<1> QED
  BY <1>1, <1>2

\* The client's own handler: a Get reads "held", a Put is performed.
LEMMA HandleSure ==
  ASSUME TypeOK, LockInv, NEW c \in Clients, ReleaseSure(c), Handle(c),
         UNCHANGED lockVars
  PROVE  ReleaseSure(c)'
<1> DEFINE k == LockOf[c]
<1> SUFFICES ASSUME k \notin doubt, lpc[c] \in {"relGet", "relPut"}
             PROVE  ReleaseSure(c)'
  BY DEF ReleaseSure, lockVars
<1>1. /\ k \in Keys /\ StoreTypeOK
      /\ rpc[c] = "dispatched" /\ rpc'[c] = "replied"
      /\ UNCHANGED <<lpc, doubt>>
  BY LockAssumption
  DEF Handle, lockVars, TypeOK, KVTypeOK, ClerkTypeOK
<1>2. op[c].Key = k /\ op[c] \in Ops /\ Owner(c) /\ data[k] = "held"
  BY <1>1, OpType
  DEF LockInv, ClientInv, CallMatches, Owner, PutWasPerformed, TypeOK
<1>3. CASE lpc[c] = "relGet"
  <2>1. op[c].Op = "Get"
    BY <1>1, <1>3 DEF LockInv, ClientInv, CallMatches
  <2>2. reply'[c] = Get(op[c]) /\ UNCHANGED dataVersion
    BY <2>1 DEF Handle, storeVars, TypeOK, KVTypeOK, ClerkTypeOK
  <2>3. "held" # NoValue
    BY LockAssumption, NoValueAssumption
  <2>4. Current(c, reply[c])'
    BY <1>2, <2>2, <2>3 DEF Get, Current
  <2> QED
    BY <1>1, <1>3, <2>4 DEF ReleaseSure
<1>4. CASE lpc[c] = "relPut"
  <2>1. op[c].Op = "Put" /\ op[c].Version = dataVersion[k]
    BY <1>1, <1>4 DEF LockInv, ClientInv, CallMatches, ReleaseSure
  <2>2. reply'[c] = PutReply(op[c])
    BY <2>1 DEF Handle, TypeOK, KVTypeOK, ClerkTypeOK
  <2>3. reply'[c].Err = "OK"
    BY <1>2, <2>1, <2>2 DEF PutReply, PutErr, Present
  <2> QED
    BY <1>1, <1>4, <2>3 DEF ReleaseSure
<1> QED
  BY <1>3, <1>4

\* The client's own steps besides.
LEMMA OwnStepSure ==
  ASSUME TypeOK, LockInv, NEW c \in Clients, ReleaseSure(c),
         \/ Acquire(c)
         \/ LockStep(c)
         \/ (Dispatch(c) \/ Return(c)) /\ UNCHANGED lockVars
         \/ LossStep(c)
  PROVE  ReleaseSure(c)'
<1>1. CASE Acquire(c)
  BY <1>1 DEF Acquire, ReleaseSure, TypeOK
<1>2. CASE LockStep(c)
  <2>1. CASE AcquireGot(c) \/ AcquirePutDone(c)
    BY <2>1 DEF AcquireGot, AcquirePutDone, AfterGet, AfterPut, AskGet, Goto,
                ReleaseSure, TypeOK
  <2>2. ASSUME AskGet(c, "relGet") PROVE ReleaseSure(c)'
    <3>1. lpc'[c] = "relGet" /\ rpc'[c] = "sent"
      BY <2>2 DEF AskGet, Goto, StartGet, Start, TypeOK, KVTypeOK, ClerkTypeOK
    <3> QED
      BY <3>1 DEF ReleaseSure
  <2>3. CASE ReleaseGot(c)
    <3> SUFFICES ASSUME lpc[c] = "relGet", rpc[c] = "idle",
                        StartPut(c, LockOf[c], "free", result[c].Version, c),
                        Goto(c, "relPut")
                 PROVE  ReleaseSure(c)'
      BY <2>2, <2>3 DEF ReleaseGot, AfterGet
    <3>1. /\ lpc'[c] = "relPut" /\ rpc'[c] = "sent"
          /\ op'[c] = PutOp(LockOf[c], "free", result[c].Version, c)
          /\ UNCHANGED <<dataVersion, doubt>>
      BY DEF StartPut, Start, Goto, storeVars, TypeOK, KVTypeOK, ClerkTypeOK
    <3> QED
      BY <3>1 DEF ReleaseSure, Current, PutOp
  <2>4. CASE ReleasePutDone(c)
    <3>1. CASE lpc'[c] = "out"
      BY <3>1 DEF ReleaseSure
    <3>2. CASE AskGet(c, "relGet")
      BY <2>2, <3>2
    <3> QED
      BY <2>4, <3>1, <3>2 DEF ReleasePutDone, AfterPut, Goto, TypeOK
  <2>5. CASE Release(c)
    BY <2>2, <2>5 DEF Release
  <2> QED
    BY <1>2, <2>1, <2>3, <2>4, <2>5 DEF LockStep
<1>3. CASE Dispatch(c) /\ UNCHANGED lockVars
  <2>1. /\ rpc[c] = "sent" /\ rpc'[c] = "dispatched"
        /\ UNCHANGED <<lpc, op, dataVersion, doubt>>
    BY <1>3 DEF Dispatch, storeVars, lockVars, TypeOK, KVTypeOK, ClerkTypeOK
  <2> QED
    BY <2>1 DEF ReleaseSure
<1>4. CASE Return(c) /\ UNCHANGED lockVars
  <2>1. /\ rpc[c] = "replied" /\ rpc'[c] = "idle"
        /\ UNCHANGED <<lpc, dataVersion, doubt>>
    BY <1>4 DEF Return, storeVars, lockVars, TypeOK, KVTypeOK, ClerkTypeOK
  <2>2. /\ result'[c].Err = ClerkErr(c)
        /\ result'[c].Value = reply[c].Value
        /\ result'[c].Version = reply[c].Version
    BY <1>4 DEF Return, TypeOK, KVTypeOK, ClerkTypeOK
  <2>3. reply[c].Err = "OK" => ClerkErr(c) = "OK"
    BY DEF ClerkErr
  <2> QED
    BY <2>1, <2>2, <2>3 DEF ReleaseSure, Current
<1>5. CASE LossStep(c)
  <2>1. /\ rpc'[c] = "sent" /\ UNCHANGED <<lpc, op, dataVersion>>
        /\ rpc[c] \in {"sent", "dispatched", "replied"}
        /\ doubt' = doubt \cup Unanswered(c)
    BY <1>5 DEF LossStep, LoseRequest, LoseReply, GiveUp, Resend, storeVars,
                TypeOK, KVTypeOK, ClerkTypeOK
  <2>2. ASSUME lpc[c] = "relPut", LockOf[c] \notin doubt'
        PROVE  op[c].Version = dataVersion[LockOf[c]]
    <3>1. op[c].Op = "Put" /\ LockOf[c] \notin doubt
      BY <2>1, <2>2 DEF LockInv, ClientInv, CallMatches
    <3>2. rpc[c] = "sent"
      BY <2>1, <2>2, <3>1 DEF Unanswered, ReleaseSure
    <3> QED
      BY <2>2, <3>1, <3>2 DEF ReleaseSure
  <2> QED
    BY <2>1, <2>2 DEF ReleaseSure
<1> QED
  BY <1>1, <1>2, <1>3, <1>4, <1>5

\* Doubts stay, and a step of one client or handler leaves the others alone.
LEMMA OthersAlone ==
  ASSUME TypeOK, NEW d \in Clients,
         Acquire(d) \/ LockStep(d) \/ ClerkStep(d) \/ FaultStep(d)
  PROVE  /\ doubt \subseteq doubt'
         /\ \A c \in Clients \ {d} :
              UNCHANGED <<lpc[c], rpc[c], op[c], reply[c], result[c]>>
         /\ Handle(d) \/ UNCHANGED dataVersion
<1> USE DEF StartGet, StartPut, Start, storeVars, netVars, clerkVars,
            lockVars, kvVars, TypeOK, KVTypeOK, ClerkTypeOK
<1>1. CASE Acquire(d)
  BY <1>1 DEF Acquire
<1>2. CASE LockStep(d)
  BY <1>2
  DEF LockStep, AcquireGot, AcquirePutDone, Release, ReleaseGot,
      ReleasePutDone, AfterGet, AfterPut, AskGet, Goto
<1>3. CASE ClerkStep(d)
  BY <1>3 DEF ClerkStep, Dispatch, Handle, Return
<1>4. CASE FaultStep(d)
  BY <1>4
  DEF FaultStep, LossStep, LoseRequest, LoseReply, GiveUp, Resend, Enable
<1> QED
  BY <1>1, <1>2, <1>3, <1>4

\* Every step keeps Release sure.
LEMMA SureStep ==
  ASSUME TypeOK, LockInv, [Next]_vars, NEW c \in Clients, ReleaseSure(c)
  PROVE  ReleaseSure(c)'
<1>1. ASSUME Acquire(c) \/ LockStep(c) \/ ClerkStep(c) \/ FaultStep(c)
      PROVE  ReleaseSure(c)'
  <2>1. CASE Enable(c) /\ UNCHANGED lockVars
    BY <2>1, SureUndisturbed DEF Enable, storeVars, clerkVars, lockVars
  <2> QED
    BY <1>1, <2>1, OwnStepSure, HandleSure DEF ClerkStep, FaultStep
<1>2. ASSUME NEW d \in Clients \ {c},
             Acquire(d) \/ LockStep(d) \/ ClerkStep(d) \/ FaultStep(d)
      PROVE  ReleaseSure(c)'
  <2>1. /\ doubt \subseteq doubt'
        /\ UNCHANGED <<lpc[c], rpc[c], op[c], reply[c], result[c]>>
        /\ Handle(d) \/ UNCHANGED dataVersion
    BY <1>2, OthersAlone
  <2>2. \/ UNCHANGED dataVersion[LockOf[c]]
        \/ ~Owner(c)
        \/ LockOf[c] \in doubt
    BY <2>1, OwnerUndisturbed
  <2> QED
    BY <2>1, <2>2, SureUndisturbed
<1>3. ASSUME NEW s \in LateSlots, LateStep(s)
      PROVE  ReleaseSure(c)'
  <2>1. UNCHANGED <<lpc, rpc, op, reply, result, doubt>>
    BY <1>3 DEF LateStep, HandleLate, clerkVars, lockVars
  <2>2. LockOf[c] \in Keys
    BY LockAssumption
  <2>3. UNCHANGED dataVersion[LockOf[c]] \/ LockOf[c] \in doubt
    BY <1>3, <2>2, LateElsewhere DEF LateStep
  <2> QED
    BY <2>1, <2>3, SureUndisturbed
<1>4. CASE UNCHANGED vars
  BY <1>4, SureUndisturbed
  DEF vars, kvVars, storeVars, clerkVars, lockVars
<1> QED
  BY <1>1, <1>2, <1>3, <1>4 DEF Next

\* Release has read what is there, and its Put is performed.
LEMMA SureCorrect == Spec => [](\A c \in Clients : ReleaseSure(c))
<1>1. Init => \A c \in Clients : ReleaseSure(c)
  BY DEF Init, ReleaseSure
<1>2. /\ TypeOK /\ LockInv /\ [Next]_vars
      /\ \A c \in Clients : ReleaseSure(c)
      => (\A c \in Clients : ReleaseSure(c))'
  BY SureStep
<1> QED
  BY <1>1, <1>2, TypeCorrect, LockInvCorrect, PTL DEF Spec

\* Release goes from its Get to its Put and from there returns: it is not
\* back at the Get, unless the lock is in doubt.
FirstTimeRound ==
  [][\A c \in Clients :
       LockOf[c] \notin doubt =>
         /\ lpc[c] = "relPut" => lpc'[c] # "relGet"
         /\ lpc[c] = "relGet" /\ rpc[c] = "idle" =>
              lpc'[c] = "relPut" \/ UNCHANGED rpc[c]]_vars

\* Until the answer of one of the lock's own Puts is lost Release never goes
\* round its loop, whatever other clients try and whatever else is lost: the
\* safety half of ReleaseReturns.
THEOREM ReleaseFirstTimeRound == Spec => FirstTimeRound
<1> DEFINE Once == \A c \in Clients :
                     LockOf[c] \notin doubt =>
                       /\ lpc[c] = "relPut" => lpc'[c] # "relGet"
                       /\ lpc[c] = "relGet" /\ rpc[c] = "idle" =>
                            lpc'[c] = "relPut" \/ UNCHANGED rpc[c]
<1>1. TypeOK /\ (\A c \in Clients : ReleaseSure(c)) /\ [Next]_vars => [Once]_vars
  <2> SUFFICES ASSUME TypeOK, Next, NEW c \in Clients, ReleaseSure(c),
                      LockOf[c] \notin doubt
               PROVE  /\ lpc[c] = "relPut" => lpc'[c] # "relGet"
                      /\ lpc[c] = "relGet" /\ rpc[c] = "idle" =>
                           lpc'[c] = "relPut" \/ UNCHANGED rpc[c]
    OBVIOUS
  <2>1. ASSUME NEW d \in Clients \ {c},
               Acquire(d) \/ LockStep(d) \/ ClerkStep(d) \/ FaultStep(d)
        PROVE  UNCHANGED <<lpc[c], rpc[c]>>
    BY <2>1, OthersAlone
  <2>2. ASSUME NEW s \in LateSlots, LateStep(s)
        PROVE  UNCHANGED <<lpc, rpc>>
    BY <2>2 DEF LateStep, HandleLate, clerkVars, lockVars
  <2>3. ASSUME ClerkStep(c) \/ FaultStep(c)
        PROVE  UNCHANGED lpc /\ (rpc[c] = "idle" => UNCHANGED rpc[c])
    BY <2>3
    DEF ClerkStep, FaultStep, Dispatch, Handle, Return, LossStep,
        LoseRequest, LoseReply, GiveUp, Enable, lockVars, clerkVars
  <2>4. ASSUME Acquire(c) \/ AcquireGot(c) \/ AcquirePutDone(c) \/ Release(c)
        PROVE  lpc[c] \notin {"relGet", "relPut"}
    BY <2>4
    DEF Acquire, AcquireGot, AcquirePutDone, Release, AfterGet, AfterPut
  <2>5. CASE ReleaseGot(c)
    <3>1. lpc[c] = "relGet" /\ rpc[c] = "idle"
      BY <2>5 DEF ReleaseGot, AfterGet
    <3>2. MayPut(c, "held")
      BY <3>1 DEF ReleaseSure, Current, MayPut
    <3>3. lpc'[c] = "relPut"
      BY <2>5, <3>2 DEF ReleaseGot, AfterGet, Goto, TypeOK
    <3> QED
      BY <3>1, <3>3
  <2>6. CASE ReleasePutDone(c)
    <3>1. lpc[c] = "relPut" /\ rpc[c] = "idle"
      BY <2>6 DEF ReleasePutDone, AfterPut
    <3>2. result[c].Err = "OK"
      BY <3>1 DEF ReleaseSure
    <3>3. lpc'[c] = "out"
      BY <2>6, <3>2 DEF ReleasePutDone, AfterPut, Goto, TypeOK
    <3> QED
      BY <3>1, <3>3
  <2> QED
    BY <2>1, <2>2, <2>3, <2>4, <2>5, <2>6 DEF Next, LockStep
<1> QED
  BY <1>1, TypeCorrect, SureCorrect, PTL DEF Spec, FirstTimeRound

-----------------------------------------------------------------------------
(* The reliable network. *)

\* On a reliable network no end is disabled and no lock is in doubt.
LEMMA NoFaultsCorrect ==
  ASSUME Unreliable = FALSE, Partitions = FALSE
  PROVE  Spec => []NoFaults
<1>1. Init => NoFaults
  BY DEF Init, KVInit, ClerkInit, NoFaults
<1>2. NoFaults /\ [Next]_vars => NoFaults'
  <2> SUFFICES ASSUME NoFaults, [Next]_vars PROVE NoFaults'
    OBVIOUS
  <2>1. ASSUME NEW c \in Clients, FaultStep(c)
        PROVE  FALSE
    BY <2>1
    DEF FaultStep, LossStep, LoseRequest, LoseReply, GiveUp, Enable, NoFaults
  <2>2. UNCHANGED <<enabled, doubt>>
    BY <2>1
    DEF Next, Acquire, LockStep, AcquireGot, AcquirePutDone, Release,
        ReleaseGot, ReleasePutDone, AfterGet, AfterPut, AskGet, Goto,
        StartGet, StartPut, Start, ClerkStep, Dispatch, Handle, Return,
        LateStep, HandleLate, vars, kvVars, netVars, lockVars
  <2> QED
    BY <2>2 DEF NoFaults
<1> QED
  BY <1>1, <1>2, PTL DEF Spec

\* On a reliable network two clients never hold the same lock.
THEOREM LockIsExclusive ==
  ASSUME Unreliable = FALSE, Partitions = FALSE
  PROVE  Spec => []MutualExclusion
<1>1. NoFaults /\ FaultsAreContained => MutualExclusion
  BY DEF NoFaults, FaultsAreContained, MutualExclusion
<1> QED
  BY <1>1, LockFaultsAreContained, NoFaultsCorrect, PTL

\* On a reliable network a lock that reads "held" has an owner who is going
\* to release it: no Acquire waits for a lock that nobody holds.
THEOREM LockIsNeverOrphaned ==
  ASSUME Unreliable = FALSE, Partitions = FALSE
  PROVE  Spec => []HeldHasOwner
<1>1. NoFaults /\ FaultsAreContained => HeldHasOwner
  BY DEF NoFaults, FaultsAreContained, HeldHasOwner
<1> QED
  BY <1>1, LockFaultsAreContained, NoFaultsCorrect, PTL

=============================================================================
