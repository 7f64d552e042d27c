------------------------------ MODULE KVServer ------------------------------
(***************************************************************************)
(* The versioned key/value server of lab1/src/kvsrv1/server.go: the two    *)
(* maps data and dataVersion, both protected by kv.mu, and the two RPC     *)
(* handlers that read and change them.  A handler runs under the mutex     *)
(* from its first to its last line, so it is one step.                     *)
(*                                                                         *)
(* A key that is in neither map has data[k] = NoValue (which also stands   *)
(* for the Go zero value "" of a reply) and dataVersion[k] = 0, the zero   *)
(* value Go returns for a missing entry.                                   *)
(***************************************************************************)
EXTENDS Naturals

CONSTANTS
  Keys,        \* the keys clients use
  Values,      \* the values clients put
  NoValue      \* the value of a missing key

ASSUME NoValueAssumption == NoValue \notin Values

VARIABLES
  data,         \* kv.data
  dataVersion   \* kv.dataVersion

storeVars == <<data, dataVersion>>

StoreTypeOK ==
  /\ data \in [Keys -> Values \cup {NoValue}]
  /\ dataVersion \in [Keys -> Nat]

\* rpc.Err, without ErrWrongLeader and ErrWrongGroup of the later labs.
Errs == {"OK", "ErrNoKey", "ErrVersion", "ErrMaybe"}

\* GetReply and PutReply; a PutReply uses Err only.
Replies ==
  [Err : Errs, Value : Values \cup {NoValue}, Version : Nat]

MakeKVServer ==
  /\ data = [k \in Keys |-> NoValue]
  /\ dataVersion = [k \in Keys |-> 0]

Present(k) == dataVersion[k] # 0

-----------------------------------------------------------------------------
(* The handlers. *)

\* The reply of Get: the value with its version, or ErrNoKey.
Get(args) ==
  IF data[args.Key] # NoValue
    THEN [Err     |-> "OK",
          Value   |-> data[args.Key],
          Version |-> dataVersion[args.Key]]
    ELSE [Err |-> "ErrNoKey", Value |-> NoValue, Version |-> 0]

\* Mutant of PutErr: the version of an existing key is not compared.
PutErrUnchecked(args) ==
  IF Present(args.Key) \/ args.Version = 0 THEN "OK" ELSE "ErrNoKey"

\* Mutant of PutErr: one error for both cases.
PutErrOneError(args) ==
  IF dataVersion[args.Key] = args.Version THEN "OK" ELSE "ErrNoKey"

\* What Put answers: the version must match if the key exists and be 0 if
\* it does not.
PutErr(args) ==
  IF Present(args.Key)
    THEN IF dataVersion[args.Key] # args.Version THEN "ErrVersion" ELSE "OK"
    ELSE IF args.Version # 0 THEN "ErrNoKey" ELSE "OK"

PutReply(args) == [Err |-> PutErr(args), Value |-> NoValue, Version |-> 0]

\* Put changes the maps exactly when it answers OK.
PutPerforms(args) == PutErr(args) = "OK"

\* Mutant of Put: the version of an existing key is not increased.
PutKeepsVersion(args) ==
  \/ /\ PutPerforms(args)
     /\ data' = [data EXCEPT ![args.Key] = args.Value]
     /\ dataVersion' = [dataVersion EXCEPT ![args.Key] = 1]
  \/ /\ ~PutPerforms(args)
     /\ UNCHANGED storeVars

\* Mutant of Put: the value is written before the version is compared.
PutWritesFirst(args) ==
  /\ data' = [data EXCEPT ![args.Key] = args.Value]
  /\ dataVersion' = IF PutPerforms(args)
                      THEN [dataVersion EXCEPT ![args.Key] = @ + 1]
                      ELSE dataVersion

Put(args) ==
  \/ /\ PutPerforms(args)
     /\ data' = [data EXCEPT ![args.Key] = args.Value]
     /\ dataVersion' = [dataVersion EXCEPT ![args.Key] = @ + 1]
  \/ /\ ~PutPerforms(args)
     /\ UNCHANGED storeVars

=============================================================================
