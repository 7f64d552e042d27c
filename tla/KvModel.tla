------------------------------ MODULE KvModel ------------------------------
(***************************************************************************)
(* The sequential specification that the tests hold key/value histories    *)
(* against: KvModel of lab1/src/models1/kv.go, together with what the      *)
(* porcupine checker means by linearizable.  An operation is called, takes *)
(* effect in one Step on the state of its key between its call and its     *)
(* return, and returns an output that the Step allows.                     *)
(*                                                                         *)
(* Steps that leave the state alone (a get, a put with another version)    *)
(* may be retaken or undone before the return: the last one counts.        *)
(***************************************************************************)
EXTENDS Naturals

CONSTANTS Clients, Keys, Values, NoValue, NoInput, NoStep, NoOutput

VARIABLES
  st,     \* KvState of every key
  inp,    \* inp[c]: KvInput of the operation in progress
  step,   \* step[c]: the Step it has taken
  out     \* out[c]: KvOutput of the last operation

modelVars == <<st, inp, step, out>>

ModelInit ==
  /\ st = [k \in Keys |-> [Value |-> NoValue, Version |-> 0]]
  /\ inp = [c \in Clients |-> NoInput]
  /\ step = [c \in Clients |-> NoStep]
  /\ out = [c \in Clients |-> NoOutput]

Call(c) ==
  /\ inp[c] = NoInput
  /\ inp'[c] # NoInput
  /\ inp' = [inp EXCEPT ![c] = inp'[c]]
  /\ step' = [step EXCEPT ![c] = NoStep]
  /\ out' = [out EXCEPT ![c] = NoOutput]
  /\ UNCHANGED st

TookEffect(c) == step[c] # NoStep /\ step[c].matched

\* KvModel.Step, without the output.
StepGet(c) ==
  /\ inp[c].Op = "Get"
  /\ step' = [step EXCEPT ![c] =
                [matched |-> FALSE, Value |-> st[inp[c].Key].Value]]
  /\ UNCHANGED st

StepPut(c) ==
  LET i == inp[c] IN
  /\ i.Op = "Put"
  /\ ~TookEffect(c)
  /\ step' = [step EXCEPT ![c] = [matched |-> st[i.Key].Version = i.Version,
                                  Value   |-> NoValue]]
  /\ st' = IF st[i.Key].Version = i.Version
             THEN [st EXCEPT ![i.Key] = [Value   |-> i.Value,
                                         Version |-> @.Version + 1]]
             ELSE st

Step(c) ==
  /\ inp[c] # NoInput
  /\ StepGet(c) \/ StepPut(c)
  /\ UNCHANGED <<inp, out>>

Undo(c) ==
  /\ inp[c] # NoInput
  /\ ~TookEffect(c)
  /\ step' = [step EXCEPT ![c] = NoStep]
  /\ UNCHANGED <<st, inp, out>>

\* The outputs KvModel.Step accepts for the step taken.
Legal(c, o) ==
  IF inp[c].Op = "Get"
    THEN o.Value = step[c].Value
    ELSE o.Err \in IF step[c].matched THEN {"OK", "ErrMaybe"}
                                      ELSE {"ErrVersion", "ErrMaybe"}

ReturnOp(c) ==
  /\ inp[c] # NoInput
  /\ step[c] # NoStep
  /\ inp' = [inp EXCEPT ![c] = NoInput]
  /\ out'[c] # NoOutput
  /\ Legal(c, out'[c])
  /\ out' = [out EXCEPT ![c] = out'[c]]
  /\ step' = [step EXCEPT ![c] = NoStep]
  /\ UNCHANGED st

ModelNext ==
  \E c \in Clients : Call(c) \/ Step(c) \/ Undo(c) \/ ReturnOp(c)

ModelSpec == ModelInit /\ [][ModelNext]_modelVars

=============================================================================
