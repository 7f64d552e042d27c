------------------------------ MODULE KVClerk ------------------------------
(***************************************************************************)
(* The clerks of lab1/src/kvsrv1/client.go calling the server of KVServer  *)
(* through the simulated network of lab1/src/labrpc/labrpc.go.             *)
(*                                                                         *)
(* A clerk runs one operation at a time.  It makes a Call, and calls again *)
(* with the same arguments while Call returns false.  One Call is one run  *)
(* of Network.processReq:                                                  *)
(*                                                                         *)
(*   sent        the request waits in the network                          *)
(*   dispatched  a goroutine is about to run the handler                   *)
(*   replied     the handler has run, its reply is on the way back         *)
(*                                                                         *)
(* The network may lose the request before the handler ran or the reply    *)
(* after it ran; in both cases Call returns false and the clerk cannot     *)
(* tell which.  While a client's end is disabled processReq also stops     *)
(* waiting for a handler that it has started: the handler stays behind in  *)
(* `late` and may run at any later time.                                   *)
(*                                                                         *)
(* The sleep between two calls changes nothing, so a failed Call and the   *)
(* next one are a single step back to "sent".  The reply delay of          *)
(* LongReordering is the unbounded time between Handle and Return.         *)
(***************************************************************************)
EXTENDS KVServer

CONSTANTS
  Clients,
  Ids,         \* names of operations; only properties look at them
  Unreliable,  \* Network.reliable = false
  Partitions,  \* may client ends be disabled and enabled again
  LateSlots,   \* bound: handlers left behind at the same time
  NoOp, NoReply

ASSUME NetworkAssumption ==
  /\ Unreliable \in BOOLEAN
  /\ Partitions \in BOOLEAN

Ops ==
  [Op : {"Get", "Put"}, Key : Keys, Value : Values \cup {NoValue},
   Version : Nat, id : Ids]

ASSUME NullAssumption == NoOp \notin Ops /\ NoReply \notin Replies

VARIABLES
  op,        \* op[c]: arguments of the clerk operation in progress
  first,     \* first[c]: the Call in progress is the operation's first
  rpc,       \* rpc[c]: progress of the Call in progress
  reply,     \* reply[c]: what the handler answered
  result,    \* result[c]: what the last operation returned
  enabled,   \* enabled[c]: Network.enabled of the client's end
  late       \* late[s]: Put arguments of a handler left behind

clerkVars == <<op, first, rpc, reply, result>>
netVars == <<enabled, late>>
kvVars == <<storeVars, clerkVars, netVars>>

ClerkTypeOK ==
  /\ op \in [Clients -> Ops \cup {NoOp}]
  /\ first \in [Clients -> BOOLEAN]
  /\ rpc \in [Clients -> {"idle", "sent", "dispatched", "replied"}]
  /\ reply \in [Clients -> Replies \cup {NoReply}]
  /\ result \in [Clients -> Replies \cup {NoReply}]
  /\ enabled \in [Clients -> BOOLEAN]
  /\ late \in [LateSlots -> Ops \cup {NoOp}]
  /\ \A c \in Clients :
       /\ op[c] = NoOp <=> rpc[c] = "idle"
       /\ reply[c] = NoReply <=> rpc[c] # "replied"

KVTypeOK == StoreTypeOK /\ ClerkTypeOK

ClerkInit ==
  /\ op = [c \in Clients |-> NoOp]
  /\ first = [c \in Clients |-> TRUE]
  /\ rpc = [c \in Clients |-> "idle"]
  /\ reply = [c \in Clients |-> NoReply]
  /\ result = [c \in Clients |-> NoReply]
  /\ enabled = [c \in Clients |-> TRUE]
  /\ late = [s \in LateSlots |-> NoOp]

KVInit == MakeKVServer /\ ClerkInit

-----------------------------------------------------------------------------
(* The clerk. *)

\* An application calls Clerk.Get or Clerk.Put: the first Call is sent.
Start(c, o) ==
  /\ rpc[c] = "idle"
  /\ op' = [op EXCEPT ![c] = o]
  /\ first' = [first EXCEPT ![c] = TRUE]
  /\ rpc' = [rpc EXCEPT ![c] = "sent"]
  /\ result' = [result EXCEPT ![c] = NoReply]
  /\ UNCHANGED <<reply, storeVars, netVars>>

GetOp(k, i) ==
  [Op |-> "Get", Key |-> k, Value |-> NoValue, Version |-> 0, id |-> i]

PutOp(k, v, n, i) ==
  [Op |-> "Put", Key |-> k, Value |-> v, Version |-> n, id |-> i]

StartGet(c, k, i) == Start(c, GetOp(k, i))

StartPut(c, k, v, n, i) == Start(c, PutOp(k, v, n, i))

\* Mutant of Resend: the reply of the failed call is kept.
ResendKeepsReply(c) ==
  /\ rpc' = [rpc EXCEPT ![c] = "sent"]
  /\ first' = [first EXCEPT ![c] = FALSE]
  /\ UNCHANGED <<op, reply, result>>

\* Call returned false: the clerk sleeps and calls again.
Resend(c) ==
  /\ rpc' = [rpc EXCEPT ![c] = "sent"]
  /\ first' = [first EXCEPT ![c] = FALSE]
  /\ reply' = [reply EXCEPT ![c] = NoReply]
  /\ UNCHANGED <<op, result>>

\* Mutant of ClerkErr: the resend is forgotten.
ClerkErrNeverMaybe(c) == reply[c].Err

\* What the clerk hands to the application: an ErrVersion that answers a
\* resent Put becomes ErrMaybe.
ClerkErr(c) ==
  IF op[c].Op = "Put" /\ ~first[c] /\ reply[c].Err = "ErrVersion"
    THEN "ErrMaybe"
    ELSE reply[c].Err

-----------------------------------------------------------------------------
(* The network. *)

\* The request is dropped, or the end was disabled when it was processed.
LoseRequest(c) ==
  /\ rpc[c] = "sent"
  /\ Unreliable \/ ~enabled[c]
  /\ Resend(c)
  /\ UNCHANGED <<storeVars, netVars>>

\* Mutant of Dispatch: a resent request is taken for a duplicate.
DispatchFirstOnly(c) ==
  /\ rpc[c] = "sent"
  /\ enabled[c]
  /\ first[c]
  /\ rpc' = [rpc EXCEPT ![c] = "dispatched"]
  /\ UNCHANGED <<op, first, reply, result, storeVars, netVars>>

\* processReq reads `enabled` and then starts the handler.  The tester may
\* enable and disable an end at any time, so a handler started after the
\* end was disabled is one that was started while it was enabled and has
\* not run yet; in the same way for the check before a reply is delivered.
Dispatch(c) ==
  /\ rpc[c] = "sent"
  /\ enabled[c]
  /\ rpc' = [rpc EXCEPT ![c] = "dispatched"]
  /\ UNCHANGED <<op, first, reply, result, storeVars, netVars>>

\* The handler runs under kv.mu.
Handle(c) ==
  /\ rpc[c] = "dispatched"
  /\ rpc' = [rpc EXCEPT ![c] = "replied"]
  /\ \/ /\ op[c].Op = "Get"
        /\ reply' = [reply EXCEPT ![c] = Get(op[c])]
        /\ UNCHANGED storeVars
     \/ /\ op[c].Op = "Put"
        /\ reply' = [reply EXCEPT ![c] = PutReply(op[c])]
        /\ Put(op[c])
  /\ UNCHANGED <<op, first, result, netVars>>

\* processReq finds the end disabled before the handler has answered.  The
\* handler of a Get that is left behind has no effect and is forgotten.
GiveUp(c) ==
  /\ rpc[c] = "dispatched"
  /\ ~enabled[c]
  /\ \/ /\ op[c].Op = "Get"
        /\ UNCHANGED late
     \/ /\ op[c].Op = "Put"
        /\ \E s \in LateSlots :
             /\ late[s] = NoOp
             /\ late' = [late EXCEPT ![s] = op[c]]
  /\ Resend(c)
  /\ UNCHANGED <<storeVars, enabled>>

\* A handler left behind runs; nobody reads its reply.
HandleLate(s) ==
  /\ late[s] # NoOp
  /\ Put(late[s])
  /\ late' = [late EXCEPT ![s] = NoOp]
  /\ UNCHANGED <<clerkVars, enabled>>

\* The reply is dropped, or the end is disabled when it is checked.
LoseReply(c) ==
  /\ rpc[c] = "replied"
  /\ Unreliable \/ ~enabled[c]
  /\ Resend(c)
  /\ UNCHANGED <<storeVars, netVars>>

\* Mutant of Return: the operation's answer is not handed over.
ReturnWithoutResult(c) ==
  /\ rpc[c] = "replied"
  /\ enabled[c]
  /\ rpc' = [rpc EXCEPT ![c] = "idle"]
  /\ op' = [op EXCEPT ![c] = NoOp]
  /\ first' = [first EXCEPT ![c] = TRUE]
  /\ reply' = [reply EXCEPT ![c] = NoReply]
  /\ UNCHANGED <<result, storeVars, netVars>>

\* Call returns true and with it the clerk operation.
Return(c) ==
  /\ rpc[c] = "replied"
  /\ enabled[c]
  /\ result' = [result EXCEPT ![c] = [Err     |-> ClerkErr(c),
                                      Value   |-> reply[c].Value,
                                      Version |-> reply[c].Version]]
  /\ rpc' = [rpc EXCEPT ![c] = "idle"]
  /\ op' = [op EXCEPT ![c] = NoOp]
  /\ first' = [first EXCEPT ![c] = TRUE]
  /\ reply' = [reply EXCEPT ![c] = NoReply]
  /\ UNCHANGED <<storeVars, netVars>>

\* Network.Enable, called by the tester.
Enable(c) ==
  /\ Partitions
  /\ enabled' = [enabled EXCEPT ![c] = ~@]
  /\ UNCHANGED <<storeVars, clerkVars, late>>

=============================================================================
