---------------------------- MODULE MapReduceJob ----------------------------
(***************************************************************************)
(* What a MapReduce job promises: tasks get done, each one once, reduce    *)
(* tasks only after all map tasks, and the job is over when all are.       *)
(***************************************************************************)
CONSTANTS Maps, Reduces

VARIABLES mapsDone, reducesDone, over

jobVars == <<mapsDone, reducesDone, over>>

JobInit ==
  /\ mapsDone = {}
  /\ reducesDone = {}
  /\ over = FALSE

FinishMap(m) ==
  /\ m \notin mapsDone
  /\ mapsDone' = mapsDone \cup {m}
  /\ UNCHANGED <<reducesDone, over>>

FinishReduce(r) ==
  /\ mapsDone = Maps
  /\ r \notin reducesDone
  /\ reducesDone' = reducesDone \cup {r}
  /\ UNCHANGED <<mapsDone, over>>

Finish ==
  /\ mapsDone = Maps
  /\ reducesDone = Reduces
  /\ over' = TRUE
  /\ UNCHANGED <<mapsDone, reducesDone>>

JobNext ==
  \/ \E m \in Maps : FinishMap(m)
  \/ \E r \in Reduces : FinishReduce(r)
  \/ Finish

JobSpec == JobInit /\ [][JobNext]_jobVars

=============================================================================
