-------------------------- MODULE MapReduceProofs --------------------------
(***************************************************************************)
(* Proofs about MapReduce, for any set of workers, map and reduce tasks,   *)
(* whatever the map function emits, and for any bounds on the faults.      *)
(*                                                                         *)
(* A step of the system changes the coordinator in one of a few ways,      *)
(* whichever worker caused it: CoordNext.  What only depends on the        *)
(* coordinator (types, Filenames, the refinement of the abstract job) is   *)
(* proved from CoordNext; what relates it to the workers, action by        *)
(* action.                                                                 *)
(***************************************************************************)
EXTENDS MapReduce, TLAPS

-----------------------------------------------------------------------------
(* The inductive invariant. *)

MapsDone == \A m \in Maps : mapStatus[m] = "Completed"

AllDone == MapsDone /\ \A r \in Reduces : reduceStatus[r] = "Completed"

\* Filenames holds the files of every completed map task, once, and no other.
FilesInv ==
  \A r \in Reduces, m \in Maps :
    filenames[r][m] =
      IF mapStatus[m] = "Completed" /\ r \in Emits[m] THEN 1 ELSE 0

\* No reduce task has been handed out before the last map task was completed.
PhaseInv ==
  (\E r \in Reduces : reduceStatus[r] # "Pending") => MapsDone

\* A worker carries out a reduce task only after it was handed out.
HandedOut ==
  \A w \in Workers : InReduce(w) => reduceStatus[task[w]] # "Pending"

\* The coordinator leaves its loop only when the job is done.
MainInv == main # "polling" => AllDone

\* Until the job is done every failed try is a call fault, so a worker that
\* exits early has met RPCRetryCount of them.
TriesInv ==
  \A w \in Workers :
    \/ AllDone
    \/ /\ tries[w] <= callFaults
       /\ pc[w] = "exited" => RPCRetryCount <= callFaults

\* If no fault has spoiled reduce task r, whoever has its output file open has
\* the right data to write, a file that is written is right, and as soon as
\* one output counts (Reported) the file is right or still being written.
OutputInv ==
  \A r \in Reduces \ spoiled :
    /\ \A w \in Workers :
         pc[w] = "writing" /\ task[w] = r => content[w] = Expected(r)
    /\ out[r].state = "written" => OutputRight(r)
    /\ Reported(r) =>
         \/ OutputRight(r)
         \/ \E w \in Workers : pc[w] = "writing" /\ task[w] = r

IInv ==
  /\ TypeOK
  /\ FilesInv
  /\ PhaseInv
  /\ HandedOut
  /\ ReduceInputExact
  /\ MainInv
  /\ TriesInv
  /\ OutputInv

-----------------------------------------------------------------------------
(* What a step can do to the coordinator and to a worker. *)

CoordNext ==
  \/ UNCHANGED coordVars
  \/ \E m \in Maps : AssignMapTask(m) \/ ReportMapTask(m) \/ MapTimeout(m)
  \/ \E r \in Reduces :
       \/ AssignReduceTask(r)
       \/ reduceStatus[r] # "Pending" /\ ReportReduceTask(r)
       \/ ReduceTimeout(r)
  \/ PollDone
  \/ Exit

\* A handler that a worker's call runs is a coordinator step.
LEMMA CoordEffect ==
  ASSUME TypeOK, HandedOut, [Next]_vars
  PROVE  CoordNext
<1>1. ASSUME NEW w \in Workers, Launch(w) \/ WorkerStep(w) \/ FaultStep(w)
      PROVE  CoordNext
  <2>1. CASE Launch(w) \/ Register(w) \/ IsWaiting(w) \/ RunMap(w)
               \/ CreateOutput(w) \/ WriteOutput(w) \/ CallNotMade(w)
               \/ TaskError(w) \/ Crash(w)
    BY <2>1 DEF Launch, Register, IsWaiting, RunMap, CreateOutput,
      WriteOutput, CallNotMade, TaskError, Crash, CoordNext
  <2>2. CASE AskForTask(w)
    BY <2>2 DEF AskForTask, CoordNext, AssignNothing
  <2>3. CASE ReportMap(w)
    BY <2>3 DEF ReportMap, CoordNext, TypeOK
  <2>4. CASE ReportReduce(w)
    BY <2>4 DEF ReportReduce, CoordNext, TypeOK, HandedOut, InReduce
  <2>5. CASE AnswerLost(w)
    BY <2>5 DEF AnswerLost, CoordNext, TypeOK, HandedOut, InReduce
  <2> QED
    BY <1>1, <2>1, <2>2, <2>3, <2>4, <2>5 DEF WorkerStep, FaultStep
<1>2. CASE CoordStep
  BY <1>2 DEF CoordStep, CoordNext
<1>3. CASE UNCHANGED vars
  BY <1>3 DEF vars, CoordNext
<1> QED
  BY <1>1, <1>2, <1>3 DEF Next

\* The tasks GetPendingTask returns are tasks that are not completed.
LEMMA PendingTasks ==
  ASSUME CoordTypeOK
  PROVE  /\ PendingMaps \subseteq {m \in Maps : mapStatus[m] # "Completed"}
         /\ PendingReduces
              \subseteq {r \in Reduces : reduceStatus[r] # "Completed"}
BY DEF CoordTypeOK, PendingMaps, PendingReduces, GetPendingTask

\* AllCompleted looks at every task.
LEMMA Completion ==
  ASSUME CoordTypeOK
  PROVE  /\ AllCompleted(mapStatus) <=> MapsDone
         /\ Done <=> AllDone
BY DEF CoordTypeOK, AllCompleted, Done, AllDone, MapsDone

\* The coordinator keeps its types.
LEMMA CoordTypeStep ==
  ASSUME CoordTypeOK, CoordNext
  PROVE  CoordTypeOK'
<1>1. CASE UNCHANGED coordVars
  BY <1>1 DEF coordVars, mapVars, reduceVars, CoordTypeOK
<1>2. ASSUME NEW m \in Maps, AssignMapTask(m) \/ MapTimeout(m)
      PROVE  CoordTypeOK'
  BY <1>2 DEF AssignMapTask, MapTimeout, AssignMap, reduceVars, CoordTypeOK,
    TaskStatus
<1>3. ASSUME NEW m \in Maps, ReportMapTask(m)
      PROVE  CoordTypeOK'
  BY <1>3 DEF ReportMapTask, CompleteTask, AddFiles, reduceVars, CoordTypeOK,
    TaskStatus
<1>4. ASSUME NEW r \in Reduces, AssignReduceTask(r) \/ ReduceTimeout(r)
      PROVE  CoordTypeOK'
  BY <1>4 DEF AssignReduceTask, ReduceTimeout, AssignReduce, mapVars,
    CoordTypeOK, TaskStatus
<1>5. ASSUME NEW r \in Reduces, ReportReduceTask(r)
      PROVE  CoordTypeOK'
  BY <1>5 DEF ReportReduceTask, CompleteTask, mapVars, CoordTypeOK, TaskStatus
<1>6. CASE PollDone \/ Exit
  BY <1>6 DEF PollDone, Exit, mapVars, reduceVars, CoordTypeOK
<1> QED
  BY <1>1, <1>2, <1>3, <1>4, <1>5, <1>6 DEF CoordNext

\* The part of TypeOK that is about the workers.
WorkerTypeOK ==
  /\ pc \in [Workers -> Pcs]
  /\ task \in [Workers -> Maps \cup Reduces \cup {NoTask}]
  /\ tries \in [Workers -> 0..(RPCRetryCount - 1)]
  /\ files \in [Workers -> Contents]
  /\ content \in [Workers -> Contents]
  /\ \A w \in Workers :
       /\ pc[w] \in {"mapping", "reportMap"} => task[w] \in Maps
       /\ pc[w] \in {"reducing", "writing", "reportReduce"}
            => task[w] \in Reduces

\* A worker that goes on to p with a task of the right kind keeps the types.
LEMMA BecomeType ==
  ASSUME TypeOK, NEW w \in Workers, NEW p \in Pcs,
         NEW t \in Maps \cup Reduces \cup {NoTask},
         NEW f \in Contents, NEW d \in Contents,
         p \in {"mapping", "reportMap"} => t \in Maps,
         p \in {"reducing", "writing", "reportReduce"} => t \in Reduces,
         Become(w, p, t, f, d)
  PROVE  WorkerTypeOK'
BY WorkerAssumption DEF Become, TypeOK, WorkerTypeOK

\* A worker that goes on without a task, or with the one it has, keeps the
\* types.
LEMMA GotoType ==
  ASSUME TypeOK, NEW w \in Workers
  PROVE  /\ \A p \in {"off", "register", "check", "ask", "exited"} :
              Goto(w, p) => WorkerTypeOK'
         /\ pc[w] = "mapping" /\ Continue(w, "reportMap") => WorkerTypeOK'
         /\ pc[w] = "writing" /\ Continue(w, "reportReduce") => WorkerTypeOK'
<1>1. NoContent \in Contents
  BY DEF NoContent, Contents
<1>2. ASSUME NEW p \in {"off", "register", "check", "ask", "exited"},
             Goto(w, p)
      PROVE  WorkerTypeOK'
  BY <1>1, <1>2, BecomeType DEF Goto, Pcs
<1>3. /\ files[w] \in Contents
      /\ content[w] \in Contents
      /\ task[w] \in Maps \cup Reduces \cup {NoTask}
      /\ pc[w] = "mapping" => task[w] \in Maps
      /\ pc[w] = "writing" => task[w] \in Reduces
  BY DEF TypeOK
<1>4. ASSUME pc[w] = "mapping", Continue(w, "reportMap")
      PROVE  WorkerTypeOK'
  BY <1>3, <1>4, BecomeType DEF Continue, Pcs
<1>5. ASSUME pc[w] = "writing", Continue(w, "reportReduce")
      PROVE  WorkerTypeOK'
  BY <1>3, <1>5, BecomeType DEF Continue, Pcs
<1> QED
  BY <1>2, <1>4, <1>5

\* A failed call keeps the types, and leaves alone what it does not concern.
LEMMA CallFailedType ==
  ASSUME TypeOK, NEW w \in Workers, CallFailed(w, OnFailure(pc[w]))
  PROVE  /\ WorkerTypeOK'
         /\ callFaults' \in 0..MaxCallFaults
         /\ UNCHANGED <<out, ioFaults, crashes, spoiled>>
<1>1. callFaults' \in 0..MaxCallFaults
  BY WorkerAssumption DEF CallFailed, CallFault, TypeOK
<1>2. CASE /\ tries[w] + 1 < RPCRetryCount
           /\ tries' = [tries EXCEPT ![w] = @ + 1]
           /\ UNCHANGED <<pc, task, files, content>>
  <2>1. tries[w] + 1 \in 0..(RPCRetryCount - 1)
    BY <1>2, WorkerAssumption DEF TypeOK
  <2> QED
    BY <1>1, <1>2, <2>1 DEF WorkerTypeOK, TypeOK, CallFailed
<1>3. CASE Goto(w, OnFailure(pc[w]))
  BY <1>1, <1>3, GotoType DEF OnFailure, CallFailed
<1> QED
  BY <1>2, <1>3 DEF CallFailed

-----------------------------------------------------------------------------
(* Type correctness.  The handler a report runs depends on HandedOut only   *)
(* through CoordNext, so the two are carried along together.                *)

\* Every step of workers and coordinator keeps the types.
LEMMA TypeStep == TypeOK /\ HandedOut /\ [Next]_vars => TypeOK'
<1> SUFFICES ASSUME TypeOK, HandedOut, [Next]_vars PROVE TypeOK'
  OBVIOUS
<1>1. CoordTypeOK'
  BY CoordEffect, CoordTypeStep DEF TypeOK
<1>2. ASSUME WorkerTypeOK', UNCHANGED <<out, faultVars, spoiled>>
      PROVE  TypeOK'
  BY <1>1, <1>2 DEF TypeOK, WorkerTypeOK, faultVars
<1>3. ASSUME NEW w \in Workers,
             Launch(w) \/ Register(w) \/ IsWaiting(w) \/ ReportMap(w)
               \/ ReportReduce(w) \/ RunMap(w)
      PROVE  TypeOK'
  <2>1. CASE Launch(w)
    BY <1>2, <2>1, GotoType DEF Launch
  <2>2. CASE Register(w)
    BY <1>2, <2>2, GotoType DEF Register
  <2>3. CASE IsWaiting(w)
    BY <1>2, <2>3, GotoType DEF IsWaiting
  <2>4. CASE ReportMap(w)
    BY <1>2, <2>4, GotoType DEF ReportMap
  <2>5. CASE ReportReduce(w)
    BY <1>2, <2>5, GotoType DEF ReportReduce
  <2>6. CASE RunMap(w)
    BY <1>2, <2>6, GotoType DEF RunMap
  <2> QED
    BY <1>3, <2>1, <2>2, <2>3, <2>4, <2>5, <2>6
<1>4. ASSUME NEW w \in Workers, AskForTask(w)
      PROVE  TypeOK'
  <2>1. NoContent \in Contents
    BY DEF NoContent, Contents
  <2>2. CASE Goto(w, "check")
    BY <1>2, <1>4, <2>2, GotoType DEF AskForTask
  <2>3. ASSUME NEW m \in Maps, Become(w, "mapping", m, NoContent, NoContent)
        PROVE  TypeOK'
    BY <1>2, <1>4, <2>1, <2>3, BecomeType DEF AskForTask, Pcs
  <2>4. ASSUME NEW r \in Reduces,
               Become(w, "reducing", r, filenames[r], NoContent)
        PROVE  TypeOK'
    <3>1. filenames[r] \in Contents
      BY DEF TypeOK, CoordTypeOK, Contents
    <3> QED
      BY <1>2, <1>4, <2>1, <2>4, <3>1, BecomeType
      DEF AskForTask, Pcs
  <2> QED
    BY <1>4, <2>2, <2>3, <2>4 DEF AskForTask
<1>5. ASSUME NEW w \in Workers, CreateOutput(w)
      PROVE  TypeOK'
  <2>1. task[w] \in Reduces /\ files[w] \in Contents
    BY <1>5 DEF CreateOutput, TypeOK
  <2>2. /\ content' \in [Workers -> Contents]
        /\ ioFaults' \in 0..MaxIOFaults
        /\ spoiled' \subseteq Reduces
    <3>1. ReadFiles(w)
      BY <1>5 DEF CreateOutput
    <3>2. \A x \in Maps : [files[w] EXCEPT ![x] = 0] \in Contents
      BY <2>1 DEF Contents
    <3> QED
      BY <2>1, <3>1, <3>2, WorkerAssumption DEF ReadFiles, TypeOK
  <2>3. out' \in [Reduces -> OutFiles]
    <3>1. PartialFile \in OutFiles
      BY DEF PartialFile, OutFiles, NoContent, Contents
    <3> QED
      BY <1>5, <2>1, <3>1 DEF CreateOutput, TypeOK
  <2>4. /\ pc' \in [Workers -> Pcs]
        /\ \A v \in Workers :
             /\ pc'[v] \in {"mapping", "reportMap"} => task'[v] \in Maps
             /\ pc'[v] \in {"reducing", "writing", "reportReduce"}
                  => task'[v] \in Reduces
    BY <1>5, <2>1 DEF CreateOutput, TypeOK, Pcs
  <2> QED
    BY <1>1, <1>5, <2>2, <2>3, <2>4 DEF CreateOutput, TypeOK
<1>6. ASSUME NEW w \in Workers, WriteOutput(w)
      PROVE  TypeOK'
  <2>1. task[w] \in Reduces /\ content[w] \in Contents
    BY <1>6 DEF WriteOutput, TypeOK
  <2>2. out' \in [Reduces -> OutFiles]
    BY <1>6, <2>1 DEF WriteOutput, TypeOK, OutFiles
  <2>3. WorkerTypeOK' /\ UNCHANGED <<faultVars, spoiled>>
    BY <1>6, GotoType DEF WriteOutput
  <2> QED
    BY <1>1, <2>2, <2>3 DEF TypeOK, WorkerTypeOK, faultVars
<1>7. ASSUME NEW w \in Workers, CallNotMade(w) \/ AnswerLost(w)
      PROVE  TypeOK'
  <2>1. CallFailed(w, OnFailure(pc[w]))
    BY <1>7 DEF CallNotMade, AnswerLost
  <2>2. /\ WorkerTypeOK'
        /\ callFaults' \in 0..MaxCallFaults
        /\ UNCHANGED <<out, ioFaults, crashes, spoiled>>
    BY <2>1, CallFailedType
  <2> QED
    BY <1>1, <2>2 DEF TypeOK, WorkerTypeOK
<1>8. ASSUME NEW w \in Workers, TaskError(w) \/ Crash(w)
      PROVE  TypeOK'
  <2>1. WorkerTypeOK' /\ UNCHANGED callFaults
    BY <1>8, GotoType DEF TaskError, Crash
  <2>2. ioFaults' \in 0..MaxIOFaults /\ crashes' \in 0..MaxCrashes
    BY <1>8, WorkerAssumption DEF TaskError, Crash, TypeOK
  <2>3. spoiled' \subseteq Reduces
    BY <1>8 DEF TaskError, Crash, TypeOK, Truncated
  <2>4. PartialFile \in OutFiles
    BY DEF PartialFile, OutFiles, NoContent, Contents
  <2>5. out' \in [Reduces -> OutFiles]
    BY <1>8, <2>4 DEF TaskError, Crash, LeaveOutput, TypeOK
  <2> QED
    BY <1>1, <2>1, <2>2, <2>3, <2>5 DEF TypeOK, WorkerTypeOK
<1>9. CASE CoordStep \/ UNCHANGED vars
  BY <1>2, <1>9 DEF CoordStep, vars, workerVars, WorkerTypeOK, TypeOK
<1> QED
  BY <1>3, <1>4, <1>5, <1>6, <1>7, <1>8, <1>9
  DEF Next, WorkerStep, FaultStep
-----------------------------------------------------------------------------
(* The coordinator: task states only move forward. *)

\* A completed task stays completed and a task that was handed out is never
\* pending again, whatever is reassigned or reported late.
LEMMA StatusMonotonic ==
  ASSUME CoordTypeOK, CoordNext
  PROVE  /\ \A m \in Maps :
              mapStatus[m] = "Completed" => mapStatus'[m] = "Completed"
         /\ \A r \in Reduces :
              /\ reduceStatus[r] = "Completed"
                   => reduceStatus'[r] = "Completed"
              /\ reduceStatus[r] # "Pending" => reduceStatus'[r] # "Pending"
<1>1. CASE \/ UNCHANGED coordVars
           \/ \E m \in Maps : MapTimeout(m)
           \/ \E r \in Reduces : ReduceTimeout(r)
           \/ PollDone
           \/ Exit
  BY <1>1 DEF coordVars, mapVars, reduceVars, MapTimeout, ReduceTimeout,
    PollDone, Exit
<1>2. ASSUME NEW m \in Maps, AssignMapTask(m)
      PROVE  /\ UNCHANGED reduceStatus
             /\ \A n \in Maps :
                  mapStatus[n] = "Completed" => mapStatus'[n] = "Completed"
  BY <1>2, PendingTasks DEF AssignMapTask, AssignMap, reduceVars, CoordTypeOK
<1>3. ASSUME NEW m \in Maps, ReportMapTask(m)
      PROVE  /\ UNCHANGED reduceStatus
             /\ \A n \in Maps :
                  mapStatus[n] = "Completed" => mapStatus'[n] = "Completed"
  BY <1>3 DEF ReportMapTask, CompleteTask, reduceVars, CoordTypeOK
<1>4. ASSUME NEW r \in Reduces, AssignReduceTask(r)
      PROVE  /\ UNCHANGED mapStatus
             /\ \A s \in Reduces :
                  /\ reduceStatus[s] = "Completed"
                       => reduceStatus'[s] = "Completed"
                  /\ reduceStatus[s] # "Pending"
                       => reduceStatus'[s] # "Pending"
  BY <1>4, PendingTasks
  DEF AssignReduceTask, AssignReduce, mapVars, CoordTypeOK
<1>5. ASSUME NEW r \in Reduces, ReportReduceTask(r)
      PROVE  /\ UNCHANGED mapStatus
             /\ \A s \in Reduces :
                  /\ reduceStatus[s] = "Completed"
                       => reduceStatus'[s] = "Completed"
                  /\ reduceStatus[s] # "Pending"
                       => reduceStatus'[s] # "Pending"
  BY <1>5 DEF ReportReduceTask, CompleteTask, mapVars, CoordTypeOK
<1> QED
  BY <1>1, <1>2, <1>3, <1>4, <1>5 DEF CoordNext

\* Once all tasks are completed, they stay so.
LEMMA DoneStable ==
  ASSUME CoordTypeOK, CoordNext
  PROVE  /\ MapsDone => MapsDone'
         /\ AllDone => AllDone'
BY StatusMonotonic DEF MapsDone, AllDone

\* After the last map task no late or repeated report changes Filenames.
LEMMA FilesFrozenStep ==
  ASSUME CoordTypeOK, CoordNext, MapsDone
  PROVE  UNCHANGED filenames
BY DEF CoordNext, coordVars, MapsDone, AssignMapTask, ReportMapTask,
  IsTaskCompleted, MapTimeout, AssignReduceTask, ReportReduceTask,
  ReduceTimeout, PollDone, Exit

\* Every coordinator step keeps Filenames exact.
LEMMA FilesStep ==
  ASSUME CoordTypeOK, FilesInv, CoordNext
  PROVE  FilesInv'
<1>1. CASE UNCHANGED <<mapStatus, filenames>>
  BY <1>1 DEF FilesInv
<1>2. ASSUME NEW m \in Maps, AssignMapTask(m)
      PROVE  FilesInv'
  <2>1. /\ UNCHANGED filenames
        /\ \A n \in Maps :
             mapStatus'[n] = "Completed" <=> mapStatus[n] = "Completed"
    BY <1>2, PendingTasks DEF AssignMapTask, AssignMap, CoordTypeOK
  <2> QED
    BY <2>1 DEF FilesInv
<1>3. ASSUME NEW m \in Maps, ReportMapTask(m)
      PROVE  FilesInv'
  <2>1. CASE ~IsTaskCompleted(mapStatus, m)
    <3>1. mapStatus' = [mapStatus EXCEPT ![m] = "Completed"] /\ AddFiles(m)
      BY <1>3, <2>1 DEF ReportMapTask, CompleteTask
    <3>2. ASSUME NEW r \in Reduces, NEW n \in Maps
          PROVE  filenames'[r][n] =
                   IF mapStatus'[n] = "Completed" /\ r \in Emits[n]
                     THEN 1 ELSE 0
      <4>1. filenames'[r][n] =
              IF n = m /\ r \in Emits[m] THEN filenames[r][n] + 1
                                        ELSE filenames[r][n]
        BY <3>1 DEF AddFiles, CoordTypeOK
      <4>2. mapStatus'[n] = IF n = m THEN "Completed" ELSE mapStatus[n]
        BY <3>1 DEF CoordTypeOK
      <4>3. filenames[r][n] =
              IF mapStatus[n] = "Completed" /\ r \in Emits[n] THEN 1 ELSE 0
        BY DEF FilesInv
      <4> QED
        BY <2>1, <4>1, <4>2, <4>3 DEF IsTaskCompleted
    <3> QED
      BY <3>2 DEF FilesInv
  <2> QED
    BY <1>1, <1>3, <2>1 DEF ReportMapTask
<1> QED
  BY <1>1, <1>2, <1>3
  DEF CoordNext, coordVars, mapVars, reduceVars, MapTimeout,
    AssignReduceTask, ReportReduceTask, ReduceTimeout, PollDone, Exit

\* With all maps done, Filenames is what the reduce task should get.
LEMMA FilesExact ==
  ASSUME CoordTypeOK, FilesInv, MapsDone, NEW r \in Reduces
  PROVE  filenames[r] = Expected(r)
BY DEF CoordTypeOK, FilesInv, MapsDone, Expected

\* Every coordinator step respects the two phases.
LEMMA PhaseStep ==
  ASSUME CoordTypeOK, PhaseInv, CoordNext
  PROVE  PhaseInv'
<1>1. CASE MapsDone
  BY <1>1, DoneStable DEF PhaseInv
<1>2. CASE ~MapsDone
  <2>1. \A r \in Reduces : reduceStatus[r] = "Pending"
    BY <1>2 DEF PhaseInv
  <2>2. UNCHANGED reduceStatus
    BY <1>2, <2>1, Completion
    DEF CoordNext, coordVars, reduceVars, AssignMapTask, ReportMapTask,
      MapTimeout, AssignReduceTask, ReduceTimeout, PollDone, Exit
  <2> QED
    BY <2>1, <2>2 DEF PhaseInv
<1> QED
  BY <1>1, <1>2

\* Every coordinator step keeps the coordinator from leaving too early.
LEMMA MainStep ==
  ASSUME CoordTypeOK, MainInv, CoordNext
  PROVE  MainInv'
<1>1. CASE PollDone
  <2>1. AllDone'
    BY <1>1, Completion, DoneStable DEF PollDone
  <2> QED
    BY <2>1 DEF MainInv
<1>2. CASE Exit
  BY <1>2, DoneStable DEF Exit, MainInv
<1>3. CASE UNCHANGED main
  BY <1>3, DoneStable DEF MainInv
<1> QED
  BY <1>1, <1>2, <1>3
  DEF CoordNext, coordVars, AssignMapTask, ReportMapTask, MapTimeout,
    AssignReduceTask, ReportReduceTask, ReduceTimeout
-----------------------------------------------------------------------------
(* The workers. *)

\* A worker is in a reduce task because it was, with the same task and files,
\* or because AssignTask has just given it the task and its Filenames.
LEMMA ReduceOrigin ==
  ASSUME TypeOK, [Next]_vars, NEW v \in Workers, InReduce(v)'
  PROVE  \/ InReduce(v) /\ UNCHANGED <<task[v], files[v]>>
         \/ \E r \in Reduces :
              /\ AssignReduceTask(r)
              /\ task'[v] = r
              /\ files'[v] = filenames[r]
<1>1. ASSUME NEW w \in Workers, NEW p \in Pcs, NEW t, NEW f, NEW d,
             Become(w, p, t, f, d)
      PROVE  /\ v # w => UNCHANGED <<pc[v], task[v], files[v]>>
             /\ v = w => pc'[v] = p /\ task'[v] = t /\ files'[v] = f
  BY <1>1 DEF Become, TypeOK
<1>2. ASSUME NEW w \in Workers,
             NEW p \in {"off", "register", "check", "ask", "exited"},
             Goto(w, p)
      PROVE  InReduce(v) /\ UNCHANGED <<task[v], files[v]>>
  BY <1>1, <1>2 DEF Goto, InReduce, Pcs
<1>3. ASSUME NEW w \in Workers, AskForTask(w)
      PROVE  \/ InReduce(v) /\ UNCHANGED <<task[v], files[v]>>
             \/ \E r \in Reduces :
                  /\ AssignReduceTask(r)
                  /\ task'[v] = r
                  /\ files'[v] = filenames[r]
  <2>1. ASSUME NEW m \in Maps, Become(w, "mapping", m, NoContent, NoContent)
        PROVE  InReduce(v) /\ UNCHANGED <<task[v], files[v]>>
    BY <1>1, <2>1 DEF InReduce, Pcs
  <2>2. ASSUME NEW r \in Reduces, AssignReduceTask(r),
               Become(w, "reducing", r, filenames[r], NoContent)
        PROVE  \/ InReduce(v) /\ UNCHANGED <<task[v], files[v]>>
               \/ task'[v] = r /\ files'[v] = filenames[r]
    BY <1>1, <2>2 DEF InReduce, Pcs
  <2> QED
    BY <1>2, <1>3, <2>1, <2>2 DEF AskForTask
<1>4. ASSUME NEW w \in Workers, RunMap(w) \/ WriteOutput(w)
      PROVE  InReduce(v) /\ UNCHANGED <<task[v], files[v]>>
  BY <1>1, <1>4 DEF RunMap, WriteOutput, Continue, InReduce, Pcs
<1>5. ASSUME NEW w \in Workers, CreateOutput(w)
      PROVE  InReduce(v) /\ UNCHANGED <<task[v], files[v]>>
  BY <1>5 DEF CreateOutput, InReduce, TypeOK
<1>6. ASSUME NEW w \in Workers, CallFailed(w, OnFailure(pc[w]))
      PROVE  InReduce(v) /\ UNCHANGED <<task[v], files[v]>>
  BY <1>2, <1>6 DEF CallFailed, OnFailure, InReduce
<1>7. CASE CoordStep \/ UNCHANGED vars
  BY <1>7 DEF CoordStep, vars, workerVars, InReduce
<1> QED
  BY <1>2, <1>3, <1>4, <1>5, <1>6, <1>7
  DEF Next, WorkerStep, FaultStep, Launch, Register, IsWaiting, ReportMap,
    ReportReduce, CallNotMade, AnswerLost, TaskError, Crash

\* Every step keeps HandedOut and gives reduce tasks their exact input.
LEMMA InputStep ==
  ASSUME TypeOK, FilesInv, PhaseInv, HandedOut, ReduceInputExact,
         [Next]_vars
  PROVE  HandedOut' /\ ReduceInputExact'
<1> SUFFICES ASSUME NEW v \in Workers, InReduce(v)'
             PROVE  /\ reduceStatus'[task'[v]] # "Pending"
                    /\ files'[v] = Expected(task'[v])
  BY DEF HandedOut, ReduceInputExact, Expected
<1>1. CASE InReduce(v) /\ UNCHANGED <<task[v], files[v]>>
  <2>1. task[v] \in Reduces /\ reduceStatus[task[v]] # "Pending"
    BY <1>1 DEF TypeOK, InReduce, HandedOut
  <2>2. reduceStatus'[task[v]] # "Pending"
    BY <2>1, CoordEffect, StatusMonotonic DEF TypeOK
  <2> QED
    BY <1>1, <2>2 DEF ReduceInputExact
<1>2. ASSUME NEW r \in Reduces, AssignReduceTask(r), task'[v] = r,
             files'[v] = filenames[r]
      PROVE  /\ reduceStatus'[task'[v]] # "Pending"
             /\ files'[v] = Expected(task'[v])
  <2>1. MapsDone
    BY <1>2, Completion DEF AssignReduceTask, TypeOK
  <2>2. reduceStatus'[r] = "Assigned"
    BY <1>2 DEF AssignReduceTask, AssignReduce, TypeOK, CoordTypeOK
  <2> QED
    BY <1>2, <2>1, <2>2, FilesExact DEF TypeOK
<1> QED
  BY <1>1, <1>2, ReduceOrigin

\* A failed try before the job is done is one of the counted call faults.
LEMMA FaultCounted ==
  ASSUME TypeOK, MainInv, ~AllDone, CallFault
  PROVE  callFaults' = callFaults + 1
BY DEF CallFault, MainInv, Reachable

\* Call faults are never forgotten.
LEMMA FaultsGrow ==
  ASSUME TypeOK, [Next]_vars
  PROVE  callFaults <= callFaults'
<1>1. callFaults \in Nat
  BY WorkerAssumption DEF TypeOK
<1>2. CASE UNCHANGED callFaults
  BY <1>1, <1>2
<1>3. ASSUME NEW w \in Workers, CallNotMade(w) \/ AnswerLost(w)
      PROVE  callFaults <= callFaults'
  BY <1>1, <1>3 DEF CallNotMade, AnswerLost, CallFailed, CallFault
<1> QED
  BY <1>2, <1>3
  DEF Next, CoordStep, WorkerStep, FaultStep, Launch, Register,
    IsWaiting, AskForTask, RunMap, ReportMap, CreateOutput, WriteOutput,
    ReportReduce, TaskError, Crash, faultVars, vars

\* Every step keeps the count of failed tries below that of call faults.
LEMMA TriesStep ==
  ASSUME TypeOK, HandedOut, MainInv, TriesInv, [Next]_vars
  PROVE  TriesInv'
<1>1. CASE AllDone
  <2>1. AllDone'
    BY <1>1, CoordEffect, DoneStable DEF TypeOK
  <2> QED
    BY <2>1 DEF TriesInv
<1>2. CASE ~AllDone
  <2> SUFFICES ASSUME NEW v \in Workers
               PROVE  /\ tries'[v] <= callFaults'
                      /\ pc'[v] = "exited" => RPCRetryCount <= callFaults'
    BY DEF TriesInv
  <2>1. /\ tries[v] <= callFaults
        /\ pc[v] = "exited" => RPCRetryCount <= callFaults
    BY <1>2 DEF TriesInv
  <2>2. tries[v] \in Nat /\ callFaults \in Nat /\ callFaults' \in Nat
    BY WorkerAssumption, TypeStep DEF TypeOK
  <2>3. ASSUME UNCHANGED <<tries[v], pc[v]>>
        PROVE  /\ tries'[v] <= callFaults'
               /\ pc'[v] = "exited" => RPCRetryCount <= callFaults'
    BY <2>1, <2>2, <2>3, FaultsGrow, WorkerAssumption
  <2>4. ASSUME NEW w \in Workers, NEW p \in Pcs \ {"exited"},
               NEW t, NEW f, NEW d, Become(w, p, t, f, d)
        PROVE  /\ tries'[v] <= callFaults'
               /\ pc'[v] = "exited" => RPCRetryCount <= callFaults'
    <3>1. CASE v = w
      BY <2>2, <2>4, <3>1 DEF Become, TypeOK
    <3> QED
      BY <2>3, <2>4, <3>1 DEF Become, TypeOK
  <2>5. ASSUME NEW w \in Workers, CallFailed(w, OnFailure(pc[w]))
        PROVE  /\ tries'[v] <= callFaults'
               /\ pc'[v] = "exited" => RPCRetryCount <= callFaults'
    <3>1. callFaults' = callFaults + 1
      BY <1>2, <2>5, FaultCounted DEF CallFailed
    <3>2. CASE v # w
      BY <2>3, <2>5, <3>2 DEF CallFailed, Goto, Become, TypeOK
    <3>3. CASE v = w /\ UNCHANGED pc /\ tries' = [tries EXCEPT ![w] = @ + 1]
      BY <2>1, <2>2, <3>1, <3>3, WorkerAssumption DEF TypeOK
    <3>4. CASE v = w /\ tries[w] + 1 = RPCRetryCount
               /\ Goto(w, OnFailure(pc[w]))
      <4>1. tries'[v] = 0
        BY <3>4 DEF Goto, Become, TypeOK
      <4> QED
        BY <2>1, <2>2, <3>1, <3>4, <4>1, WorkerAssumption
    <3> QED
      BY <2>5, <3>2, <3>3, <3>4 DEF CallFailed
  <2>6. ASSUME NEW w \in Workers, IsWaiting(w)
        PROVE  /\ tries'[v] <= callFaults'
               /\ pc'[v] = "exited" => RPCRetryCount <= callFaults'
    <3>1. ~Done
      BY <1>2, Completion DEF TypeOK
    <3> QED
      BY <2>4, <2>6, <3>1 DEF IsWaiting, Goto, Pcs
  <2>7. ASSUME NEW w \in Workers, CreateOutput(w)
        PROVE  /\ tries'[v] <= callFaults'
               /\ pc'[v] = "exited" => RPCRetryCount <= callFaults'
    BY <2>1, <2>3, <2>7 DEF CreateOutput, TypeOK
  <2>8. CASE CoordStep \/ UNCHANGED vars
    BY <2>3, <2>8 DEF CoordStep, vars, workerVars
  <2>9. ASSUME NEW w \in Workers, AskForTask(w) \/ RunMap(w) \/ WriteOutput(w)
        PROVE  /\ tries'[v] <= callFaults'
               /\ pc'[v] = "exited" => RPCRetryCount <= callFaults'
    BY <2>4, <2>9
    DEF AskForTask, RunMap, WriteOutput, Goto, Continue, Pcs
  <2> QED
    BY <2>4, <2>5, <2>6, <2>7, <2>8, <2>9
    DEF Next, WorkerStep, FaultStep, Launch, Register, ReportMap,
      ReportReduce, CallNotMade, AnswerLost, TaskError, Crash, Goto, Pcs
<1> QED
  BY <1>1, <1>2
\* A reduce task is completed only by a worker that has written its output.
LEMMA CompletedOrigin ==
  ASSUME TypeOK, [Next]_vars, NEW r \in Reduces,
         reduceStatus'[r] = "Completed"
  PROVE  Reported(r)
<1>1. CASE UNCHANGED reduceStatus
  BY <1>1 DEF Reported
<1>2. ASSUME NEW s \in Reduces, AssignReduceTask(s)
      PROVE  Reported(r)
  BY <1>2 DEF AssignReduceTask, AssignReduce, Reported, TypeOK, CoordTypeOK
<1>3. ASSUME NEW w \in Workers, pc[w] = "reportReduce",
             ReportReduceTask(task[w])
      PROVE  Reported(r)
  <2>1. CASE task[w] = r
    BY <1>3, <2>1 DEF Reported
  <2>2. CASE task[w] # r
    <3>1. reduceStatus'[r] = reduceStatus[r]
      BY <1>3, <2>2 DEF ReportReduceTask, CompleteTask, TypeOK, CoordTypeOK
    <3> QED
      BY <3>1 DEF Reported
  <2> QED
    BY <2>1, <2>2
<1>4. ASSUME NEW w \in Workers, Launch(w) \/ WorkerStep(w) \/ FaultStep(w)
      PROVE  Reported(r)
  <2>1. CASE AskForTask(w)
    BY <1>1, <1>2, <2>1
    DEF AskForTask, AssignMapTask, AssignNothing, coordVars, reduceVars
  <2>2. CASE AnswerLost(w)
    BY <1>1, <1>2, <1>3, <2>2
    DEF AnswerLost, AssignMapTask, ReportMapTask, reduceVars
  <2>3. CASE ReportReduce(w)
    BY <1>3, <2>3 DEF ReportReduce
  <2> QED
    BY <1>1, <1>4, <2>1, <2>2, <2>3
    DEF WorkerStep, FaultStep, Launch, Register, IsWaiting, RunMap,
      ReportMap, ReportMapTask, CreateOutput, WriteOutput, CallNotMade,
      TaskError, Crash, coordVars, reduceVars
<1>5. CASE CoordStep
  BY <1>1, <1>5
  DEF CoordStep, MapTimeout, ReduceTimeout, PollDone, Exit, reduceVars
<1> QED
  BY <1>1, <1>4, <1>5 DEF Next, vars, coordVars, reduceVars

\* The part of OutputInv that concerns reduce task r.
WriterRight(r) ==
  /\ \A w \in Workers :
       pc[w] = "writing" /\ task[w] = r => content[w] = Expected(r)
  /\ out[r].state = "written" => OutputRight(r)

OutputSafe(r) ==
  Reported(r) => \/ OutputRight(r)
                 \/ \E w \in Workers : pc[w] = "writing" /\ task[w] = r

\* A step that leaves the file alone and creates no writer, no report and no
\* completion of r, and takes no writer away, keeps its output safe.
LEMMA QuietStep ==
  ASSUME TypeOK, [Next]_vars, NEW r \in Reduces,
         WriterRight(r), OutputSafe(r), out'[r] = out[r],
         \A v \in Workers :
           /\ pc[v] = "writing" /\ task[v] = r <=>
              pc'[v] = "writing" /\ task'[v] = r
           /\ pc'[v] = "reportReduce" /\ task'[v] = r =>
              pc[v] = "reportReduce" /\ task[v] = r
           /\ pc'[v] = "writing" => UNCHANGED content[v]
  PROVE  WriterRight(r)' /\ OutputSafe(r)'
<1>1. WriterRight(r)'
  BY DEF WriterRight, OutputRight, Expected
<1>2. Reported(r)' => Reported(r)
  BY CompletedOrigin DEF Reported
<1> QED
  BY <1>1, <1>2 DEF OutputSafe, OutputRight, Expected

\* A worker that goes on to p is neither a writer nor about to report.
LEMMA GotoQuiet ==
  ASSUME TypeOK, [Next]_vars, NEW r \in Reduces,
         WriterRight(r), OutputSafe(r), out'[r] = out[r],
         NEW w \in Workers, pc[w] # "writing" \/ task[w] # r,
         NEW p \in Pcs \ {"writing", "reportReduce"}, NEW t, NEW f, NEW d,
         Become(w, p, t, f, d)
  PROVE  WriterRight(r)' /\ OutputSafe(r)'
<1>1. \A v \in Workers :
        /\ pc[v] = "writing" /\ task[v] = r <=>
           pc'[v] = "writing" /\ task'[v] = r
        /\ pc'[v] = "reportReduce" /\ task'[v] = r =>
           pc[v] = "reportReduce" /\ task[v] = r
        /\ pc'[v] = "writing" => UNCHANGED content[v]
  BY DEF Become, TypeOK
<1> QED
  BY <1>1, QuietStep

\* Every step keeps the outputs right that no fault has spoiled.
LEMMA OutputStep ==
  ASSUME TypeOK, ReduceInputExact, OutputInv, [Next]_vars
  PROVE  OutputInv'
<1>1. spoiled \subseteq spoiled'
  BY DEF Next, CoordStep, WorkerStep, FaultStep, Launch, Register, IsWaiting,
    AskForTask, RunMap, ReportMap, CreateOutput, ReadFiles, WriteOutput,
    ReportReduce, CallNotMade, AnswerLost, CallFailed, TaskError, Crash, vars
<1> SUFFICES ASSUME NEW r \in Reduces \ spoiled'
             PROVE  WriterRight(r)' /\ OutputSafe(r)'
  BY DEF OutputInv, WriterRight, OutputSafe, Expected, OutputRight, Reported
<1>2. WriterRight(r) /\ OutputSafe(r)
  BY <1>1 DEF OutputInv, WriterRight, OutputSafe
<1>3. ASSUME NEW w \in Workers, pc[w] # "writing" \/ task[w] # r,
             NEW p \in Pcs \ {"writing", "reportReduce"},
             Goto(w, p), UNCHANGED out
      PROVE  WriterRight(r)' /\ OutputSafe(r)'
  BY <1>2, <1>3, GotoQuiet DEF Goto
<1>4. ASSUME NEW w \in Workers, AskForTask(w) \/ RunMap(w)
      PROVE  WriterRight(r)' /\ OutputSafe(r)'
  BY <1>2, <1>4, GotoQuiet DEF AskForTask, RunMap, Goto, Continue, Pcs
<1>5. ASSUME NEW w \in Workers, CreateOutput(w)
      PROVE  WriterRight(r)' /\ OutputSafe(r)'
  <2>1. CASE task[w] = r
    <3>1. content' = [content EXCEPT ![w] = files[w]]
      BY <1>5, <2>1 DEF CreateOutput, ReadFiles
    <3>2. files[w] = Expected(r)
      BY <1>5, <2>1 DEF CreateOutput, ReduceInputExact, InReduce
    <3>3. pc'[w] = "writing" /\ task'[w] = r
      BY <1>5, <2>1 DEF CreateOutput, TypeOK
    <3>4. out'[r].state = "partial"
      BY <1>5, <2>1 DEF CreateOutput, TypeOK, PartialFile
    <3>5. WriterRight(r)'
      BY <1>2, <1>5, <3>1, <3>2, <3>4
      DEF CreateOutput, TypeOK, WriterRight, Expected
    <3> QED
      BY <3>3, <3>5 DEF OutputSafe
  <2>2. CASE task[w] # r
    <3>1. out'[r] = out[r]
      BY <1>5, <2>2 DEF CreateOutput, TypeOK
    <3>2. \A v \in Workers : v # w => content'[v] = content[v]
      BY <1>5 DEF CreateOutput, ReadFiles, TypeOK
    <3>3. \A v \in Workers :
            /\ pc[v] = "writing" /\ task[v] = r <=>
               pc'[v] = "writing" /\ task'[v] = r
            /\ pc'[v] = "reportReduce" /\ task'[v] = r =>
               pc[v] = "reportReduce" /\ task[v] = r
      BY <1>5, <2>2 DEF CreateOutput, TypeOK
    <3>4. WriterRight(r)'
      BY <1>2, <1>5, <2>2, <3>1, <3>2, <3>3
      DEF CreateOutput, WriterRight, OutputRight, Expected
    <3>5. Reported(r)' => Reported(r)
      BY <3>3, CompletedOrigin DEF Reported
    <3> QED
      BY <1>2, <3>1, <3>3, <3>4, <3>5 DEF OutputSafe, OutputRight, Expected
  <2> QED
    BY <2>1, <2>2
<1>6. ASSUME NEW w \in Workers, WriteOutput(w)
      PROVE  WriterRight(r)' /\ OutputSafe(r)'
  <2>1. \A v \in Workers :
          pc'[v] = "writing" /\ task'[v] = r => content'[v] = Expected(r)
    BY <1>2, <1>6
    DEF WriterRight, WriteOutput, Continue, Become, TypeOK
  <2>2. CASE task[w] = r
    <3>1. content[w] = Expected(r)
      BY <1>2, <1>6, <2>2 DEF WriterRight, WriteOutput
    <3>2. OutputRight(r)'
      BY <1>6, <2>2, <3>1 DEF WriteOutput, OutputRight, TypeOK, Expected
    <3> QED
      BY <2>1, <3>2 DEF OutputSafe, WriterRight, Expected
  <2>3. CASE task[w] # r
    <3>1. out'[r] = out[r]
      BY <1>6, <2>3 DEF WriteOutput, TypeOK
    <3>2. \A v \in Workers :
            /\ pc[v] = "writing" /\ task[v] = r <=>
               pc'[v] = "writing" /\ task'[v] = r
            /\ pc'[v] = "reportReduce" /\ task'[v] = r =>
               pc[v] = "reportReduce" /\ task[v] = r
      BY <1>6, <2>3 DEF WriteOutput, Continue, Become, TypeOK
    <3>3. Reported(r)' => Reported(r)
      BY <3>2, CompletedOrigin DEF Reported
    <3>4. WriterRight(r)'
      BY <1>2, <2>1, <3>1 DEF WriterRight, OutputRight, Expected
    <3> QED
      BY <1>2, <3>1, <3>2, <3>3, <3>4 DEF OutputSafe, OutputRight, Expected
  <2> QED
    BY <2>2, <2>3
<1>7. ASSUME NEW w \in Workers, CallNotMade(w) \/ AnswerLost(w)
      PROVE  WriterRight(r)' /\ OutputSafe(r)'
  <2>1. pc[w] # "writing" /\ CallFailed(w, OnFailure(pc[w])) /\ UNCHANGED out
    BY <1>7 DEF CallNotMade, AnswerLost, CallFailed
  <2>2. CASE UNCHANGED <<pc, task, files, content>>
    BY <1>2, <2>1, <2>2, QuietStep
  <2> QED
    BY <1>3, <2>1, <2>2 DEF CallFailed, OnFailure, Pcs
<1>8. ASSUME NEW w \in Workers, TaskError(w) \/ Crash(w)
      PROVE  WriterRight(r)' /\ OutputSafe(r)'
  <2>1. LeaveOutput(w) /\ spoiled' = spoiled \cup Truncated(w)
    BY <1>8 DEF TaskError, Crash
  <2>2. /\ pc'[w] \in {"check", "off"}
        /\ \A v \in Workers : v # w =>
             UNCHANGED <<pc[v], task[v], content[v]>>
    BY <1>8 DEF TaskError, Crash, Goto, Become, TypeOK
  <2>3. CASE pc[w] # "writing" \/ task[w] # r
    <3>1. out'[r] = out[r]
      BY <2>1, <2>3 DEF LeaveOutput, TypeOK
    <3> QED
      BY <1>2, <2>2, <2>3, <3>1, QuietStep
  <2>4. CASE pc[w] = "writing" /\ task[w] = r
    <3>1. r \notin Truncated(w)
      BY <2>1
    <3>2. \/ out'[r] = out[r]
          \/ out'[r].state = "partial"
      BY <2>1, <2>4 DEF LeaveOutput, TypeOK, PartialFile
    <3>3. WriterRight(r)'
      BY <1>2, <2>2, <3>2 DEF WriterRight, OutputRight, Expected
    <3>4. Reported(r)' => Reported(r)
      BY <2>2, CompletedOrigin DEF Reported
    <3>5. CASE ~Reported(r)
      BY <3>3, <3>4, <3>5 DEF OutputSafe
    <3>6. CASE OtherWriter(w, r)
      BY <2>2, <3>3, <3>6 DEF OutputSafe, OtherWriter
    <3>7. CASE out'[r].state = "written"
      <4>1. out'[r] = out[r]
        BY <3>2, <3>7
      <4> QED
        BY <1>2, <3>3, <3>7, <4>1
        DEF WriterRight, OutputSafe, OutputRight, Expected
    <3> QED
      BY <2>4, <3>1, <3>5, <3>6, <3>7 DEF Truncated
  <2> QED
    BY <2>3, <2>4
<1>9. CASE CoordStep \/ UNCHANGED vars
  BY <1>2, <1>9, QuietStep DEF CoordStep, vars, workerVars
<1> QED
  BY <1>3, <1>4, <1>5, <1>6, <1>7, <1>8, <1>9
  DEF Next, WorkerStep, FaultStep, Launch, Register, IsWaiting, ReportMap,
    ReportReduce, Pcs
-----------------------------------------------------------------------------
(* Theorems. *)

\* The initial state satisfies the inductive invariant.
LEMMA InitInv == Init => IInv
<1> SUFFICES ASSUME Init PROVE IInv
  OBVIOUS
<1>1. TypeOK
  BY WorkerAssumption
  DEF Init, MakeCoordinator, TypeOK, CoordTypeOK, TaskStatus, Pcs, Contents,
    NoContent, OutFiles
<1>2. FilesInv /\ PhaseInv /\ MainInv
  BY DEF Init, MakeCoordinator, FilesInv, PhaseInv, MainInv
<1>3. HandedOut /\ ReduceInputExact /\ OutputInv
  BY DEF Init, MakeCoordinator, HandedOut, ReduceInputExact, InReduce,
    OutputInv, Reported
<1>4. TriesInv
  BY DEF Init, TriesInv
<1> QED
  BY <1>1, <1>2, <1>3, <1>4 DEF IInv

\* Every step keeps the inductive invariant.
LEMMA InvStep == IInv /\ [Next]_vars => IInv'
<1> SUFFICES ASSUME IInv, [Next]_vars PROVE IInv'
  OBVIOUS
<1>1. CoordTypeOK /\ CoordNext
  BY CoordEffect DEF IInv, TypeOK
<1>2. TypeOK'
  BY TypeStep DEF IInv
<1>3. FilesInv' /\ PhaseInv' /\ MainInv'
  BY <1>1, FilesStep, PhaseStep, MainStep DEF IInv
<1>4. HandedOut' /\ ReduceInputExact'
  BY InputStep DEF IInv
<1>5. TriesInv' /\ OutputInv'
  BY TriesStep, OutputStep DEF IInv
<1> QED
  BY <1>2, <1>3, <1>4, <1>5 DEF IInv

\* The inductive invariant holds in every reachable state.
LEMMA Invariance == Spec => []IInv
BY InitInv, InvStep, PTL DEF Spec

\* Coordinator and workers keep their types; in particular a worker that
\* reports a task has one of the right kind.
THEOREM TypeCorrect == Spec => []TypeOK
<1>1. IInv => TypeOK
  BY DEF IInv
<1> QED
  BY <1>1, Invariance, PTL

\* A worker is given the output of every map task once, however often map
\* tasks are reassigned, reported twice or reported late.
THEOREM InputExact == Spec => []ReduceInputExact
<1>1. IInv => ReduceInputExact
  BY DEF IInv
<1> QED
  BY <1>1, Invariance, PTL

\* AssignTask may encode a task's Filenames outside c.mu: they are final by
\* the time the first reduce task is handed out.
THEOREM FilenamesFinal == Spec => FilenamesFrozen
<1>1. IInv /\ [Next]_vars =>
        [(\E r \in Reduces : reduceStatus[r] # "Pending")
           => UNCHANGED filenames]_vars
  BY CoordEffect, FilesFrozenStep DEF IInv, TypeOK, PhaseInv
<1> QED
  BY <1>1, Invariance, PTL DEF Spec, FilenamesFrozen

\* A completed reduce task that no fault has spoiled has its output in place
\* or is being written again.
THEOREM OutputInPlace == Spec => []CompletedHasOutput
<1>1. IInv => CompletedHasOutput
  BY DEF IInv, OutputInv, CompletedHasOutput, Reported
<1> QED
  BY <1>1, Invariance, PTL

\* No process exits before the job is done unless calls failed RPCRetryCount
\* times.
THEOREM ExitOnlyWhenDone == Spec => []NoEarlyExit
<1>1. IInv => NoEarlyExit
  <2> SUFFICES ASSUME IInv, SomeProcessExited, callFaults < RPCRetryCount
               PROVE  AllDone
    BY DEF NoEarlyExit, AllDone, MapsDone
  <2>1. callFaults \in Nat /\ RPCRetryCount \in Nat
    BY WorkerAssumption DEF IInv, TypeOK
  <2>2. CASE main = "exited"
    BY <2>2 DEF IInv, MainInv
  <2>3. ASSUME NEW w \in Workers, pc[w] = "exited"
        PROVE  AllDone
    BY <2>1, <2>3 DEF IInv, TriesInv
  <2> QED
    BY <2>2, <2>3 DEF SomeProcessExited
<1> QED
  BY <1>1, Invariance, PTL

\* A step of the coordinator is a step of the abstract job, or none.
LEMMA JobStep ==
  ASSUME IInv, [Next]_vars
  PROVE  [Job!JobNext]_(Job!jobVars)
<1> DEFINE maps == {m \in Maps : mapStatus[m] = "Completed"}
           reduces == {r \in Reduces : reduceStatus[r] = "Completed"}
<1>1. CoordTypeOK /\ CoordNext
  BY CoordEffect DEF IInv, TypeOK
<1>2. ASSUME maps' = maps, reduces' = reduces, UNCHANGED main
      PROVE  [Job!JobNext]_(Job!jobVars)
  BY <1>2 DEF Job!jobVars
<1>3. ASSUME NEW m \in Maps, AssignMapTask(m)
      PROVE  [Job!JobNext]_(Job!jobVars)
  <2>1. maps' = maps
    BY <1>1, <1>3, PendingTasks DEF AssignMapTask, AssignMap, CoordTypeOK
  <2> QED
    BY <1>2, <1>3, <2>1 DEF AssignMapTask, reduceVars
<1>4. ASSUME NEW m \in Maps, ReportMapTask(m)
      PROVE  [Job!JobNext]_(Job!jobVars)
  <2>1. CASE IsTaskCompleted(mapStatus, m)
    BY <1>2, <1>4, <2>1 DEF ReportMapTask, reduceVars
  <2>2. CASE ~IsTaskCompleted(mapStatus, m)
    <3>1. m \notin maps /\ maps' = maps \cup {m}
      BY <1>1, <1>4, <2>2
      DEF ReportMapTask, IsTaskCompleted, CompleteTask, CoordTypeOK
    <3>2. reduces' = reduces /\ UNCHANGED main
      BY <1>4 DEF ReportMapTask, reduceVars
    <3> QED
      BY <3>1, <3>2 DEF Job!JobNext, Job!FinishMap
  <2> QED
    BY <2>1, <2>2
<1>5. ASSUME NEW r \in Reduces, AssignReduceTask(r)
      PROVE  [Job!JobNext]_(Job!jobVars)
  <2>1. reduces' = reduces
    BY <1>1, <1>5, PendingTasks
    DEF AssignReduceTask, AssignReduce, CoordTypeOK
  <2> QED
    BY <1>2, <1>5, <2>1 DEF AssignReduceTask, mapVars
<1>6. ASSUME NEW r \in Reduces, reduceStatus[r] # "Pending",
             ReportReduceTask(r)
      PROVE  [Job!JobNext]_(Job!jobVars)
  <2>1. CASE IsTaskCompleted(reduceStatus, r)
    BY <1>2, <1>6, <2>1 DEF ReportReduceTask, mapVars
  <2>2. CASE ~IsTaskCompleted(reduceStatus, r)
    <3>1. r \notin reduces /\ reduces' = reduces \cup {r}
      BY <1>1, <1>6, <2>2
      DEF ReportReduceTask, IsTaskCompleted, CompleteTask, CoordTypeOK
    <3>2. maps' = maps /\ UNCHANGED main
      BY <1>6 DEF ReportReduceTask, mapVars
    <3>3. maps = Maps
      BY <1>6 DEF IInv, PhaseInv, MapsDone
    <3> QED
      BY <3>1, <3>2, <3>3 DEF Job!JobNext, Job!FinishReduce
  <2> QED
    BY <2>1, <2>2
<1>7. CASE PollDone
  <2>1. maps = Maps /\ reduces = Reduces
    BY <1>1, <1>7, Completion DEF PollDone, AllDone, MapsDone
  <2>2. maps' = maps /\ reduces' = reduces /\ (main # "polling")' = TRUE
    BY <1>7 DEF PollDone, mapVars, reduceVars
  <2> QED
    BY <2>1, <2>2 DEF Job!JobNext, Job!Finish
<1>8. CASE Exit
  BY <1>8 DEF Exit, mapVars, reduceVars, Job!jobVars
<1> QED
  BY <1>1, <1>2, <1>3, <1>4, <1>5, <1>6, <1>7, <1>8
  DEF CoordNext, coordVars, mapVars, reduceVars, MapTimeout, ReduceTimeout

\* The coordinator implements the abstract job: completed tasks stay
\* completed, reduce tasks complete after all map tasks, and the coordinator
\* leaves its loop when all are.
THEOREM CoordinatorImplementsJob == Spec => ImplementsJob
<1>1. Init => Job!JobInit
  BY DEF Init, MakeCoordinator, Job!JobInit
<1>2. IInv /\ [Next]_vars => [Job!JobNext]_(Job!jobVars)
  BY JobStep
<1> QED
  BY <1>1, <1>2, Invariance, PTL DEF Spec, ImplementsJob, Job!JobSpec
=============================================================================
