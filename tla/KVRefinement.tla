---------------------------- MODULE KVRefinement ----------------------------
(***************************************************************************)
(* KVSystem implements KvModel.  A Get takes its Step when a handler runs  *)
(* whose reply has not been lost; a Put takes effect when some handler,    *)
(* of the first call, of a resend or left behind, performs it.             *)
(***************************************************************************)
EXTENDS KVSystem

CONSTANT NoStep

\* A Step of KvModel, as StepOf gives it.
Steps == [matched : BOOLEAN, Value : Values \cup {NoValue}]

ASSUME NoStepAssumption == NoStep \notin Steps

Applied(i) == \E a \in applied : a.id = i

StepOf(c) ==
  IF rpc[c] = "idle" THEN NoStep
  ELSE IF Applied(op[c].id) THEN [matched |-> TRUE, Value |-> NoValue]
  ELSE IF rpc[c] # "replied" THEN NoStep
  ELSE [matched |-> FALSE, Value |-> reply[c].Value]

Model == INSTANCE KvModel WITH
  NoInput  <- NoOp,
  NoOutput <- NoReply,
  st   <- [k \in Keys |-> [Value |-> data[k], Version |-> dataVersion[k]]],
  inp  <- op,
  step <- [c \in Clients |-> StepOf(c)],
  out  <- result

\* Every history the clerks can produce is linearizable in the sense of
\* the porcupine model of models1/kv.go, ErrMaybe answers, lost messages and
\* handlers left behind included.
Linearizable == Model!ModelSpec

-----------------------------------------------------------------------------
(* The inductive invariant behind it, besides HistoryInv and SettledInv. *)

\* What was performed is a Put.
PutsApplied ==
  \A o \in LiveOps, a \in applied : a.id = o.id => o.Op = "Put"

\* A handler left behind belongs to a Put that is in progress or has
\* returned.
LateHasOwner ==
  \A s \in LateSlots : late[s] # NoOp =>
    /\ late[s].Op = "Put"
    /\ \/ \E c \in Clients : rpc[c] # "idle" /\ op[c] = late[s]
       \/ \E r \in returned : r.id = late[s].id

\* A Put is not answered ErrNoKey, which KvModel does not know.
PutAnswers ==
  \A c \in Clients :
    rpc[c] = "replied" /\ op[c].Op = "Put"
      => reply[c].Err \in {"OK", "ErrVersion"}

StepInv ==
  /\ PutsApplied
  /\ LateHasOwner
  /\ PutAnswers

=============================================================================
