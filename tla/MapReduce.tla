----------------------------- MODULE MapReduce -----------------------------
(***************************************************************************)
(* Workers of lab1/src/mr/worker.go with the coordinator of MRCoordinator. *)
(*                                                                         *)
(* A worker process registers and then alternates between asking whether   *)
(* the job is done (IsWaiting) and asking for a task (AssignTask), which   *)
(* it carries out and reports before it asks again:                        *)
(*                                                                         *)
(*   off, register, check, ask, mapping, reportMap,                        *)
(*   reducing (mr-out not touched yet), writing (mr-out created, that is   *)
(*   truncated, and not yet written), reportReduce, exited                 *)
(*                                                                         *)
(* A call that gets through runs its handler and delivers the answer in    *)
(* one step: nothing else reads the answer.  A call may fail before the    *)
(* handler ran or after it; then the worker tries again, RPCRetryCount     *)
(* times in all.  Calls, reads and writes that fail, and crashes, are      *)
(* bounded by MaxCallFaults, MaxIOFaults and MaxCrashes.                   *)
(***************************************************************************)
EXTENDS MRCoordinator

CONSTANTS
  Workers,
  RPCRetryCount,
  MaxCallFaults, MaxIOFaults, MaxCrashes,
  NoTask

ASSUME WorkerAssumption ==
  /\ RPCRetryCount \in Nat \ {0}
  /\ MaxCallFaults \in Nat
  /\ MaxIOFaults \in Nat
  /\ MaxCrashes \in Nat
  /\ NoTask \notin Maps \cup Reduces

VARIABLES
  pc, task,
  tries,     \* tries[w]: failed attempts of the call in progress
  files,     \* files[w]: Filenames of the reduce task it was given
  content,   \* content[w]: what it has read from them
  out,       \* out[r]: the file mr-out-r
  callFaults, ioFaults, crashes,
  spoiled    \* history: reduce tasks whose output a fault has spoiled

workerVars == <<pc, task, tries, files, content>>
faultVars == <<callFaults, ioFaults, crashes>>
vars == <<coordVars, workerVars, out, faultVars, spoiled>>

Pcs == {"off", "register", "check", "ask", "mapping", "reportMap",
        "reducing", "writing", "reportReduce", "exited"}

\* Data of the intermediate files: how often the output of each map task
\* occurs in it.
Contents == [Maps -> Nat]
NoContent == [m \in Maps |-> 0]

\* An output file that was not created, or was created and not, or only
\* partly, written, or written.
OutFiles == [state : {"absent", "partial", "written"}, data : Contents]
PartialFile == [state |-> "partial", data |-> NoContent]

TypeOK ==
  /\ CoordTypeOK
  /\ pc \in [Workers -> Pcs]
  /\ task \in [Workers -> Maps \cup Reduces \cup {NoTask}]
  /\ tries \in [Workers -> 0..(RPCRetryCount - 1)]
  /\ files \in [Workers -> Contents]
  /\ content \in [Workers -> Contents]
  /\ out \in [Reduces -> OutFiles]
  /\ callFaults \in 0..MaxCallFaults
  /\ ioFaults \in 0..MaxIOFaults
  /\ crashes \in 0..MaxCrashes
  /\ spoiled \subseteq Reduces
  /\ \A w \in Workers :
       /\ pc[w] \in {"mapping", "reportMap"} => task[w] \in Maps
       /\ pc[w] \in {"reducing", "writing", "reportReduce"}
            => task[w] \in Reduces

Init ==
  /\ MakeCoordinator
  /\ pc = [w \in Workers |-> "off"]
  /\ task = [w \in Workers |-> NoTask]
  /\ tries = [w \in Workers |-> 0]
  /\ files = [w \in Workers |-> NoContent]
  /\ content = [w \in Workers |-> NoContent]
  /\ out = [r \in Reduces |-> [state |-> "absent", data |-> NoContent]]
  /\ callFaults = 0
  /\ ioFaults = 0
  /\ crashes = 0
  /\ spoiled = {}

-----------------------------------------------------------------------------
(* Control flow of a worker. *)

\* Go on to p with task t, whose files are f and have been read as d.
Become(w, p, t, f, d) ==
  /\ pc' = [pc EXCEPT ![w] = p]
  /\ task' = [task EXCEPT ![w] = t]
  /\ tries' = [tries EXCEPT ![w] = 0]
  /\ files' = [files EXCEPT ![w] = f]
  /\ content' = [content EXCEPT ![w] = d]

\* Go on to p without a task, or keeping the task.
Goto(w, p) == Become(w, p, NoTask, NoContent, NoContent)

Continue(w, p) == Become(w, p, task[w], files[w], content[w])

-----------------------------------------------------------------------------
(* call: it fails when the coordinator is gone and, rarely, otherwise. *)

CallFault ==
  \/ /\ ~Reachable
     /\ UNCHANGED callFaults
  \/ /\ Reachable
     /\ callFaults < MaxCallFaults
     /\ callFaults' = callFaults + 1

\* Mutant of CallFailed: one try too many.
CallFailedLate(w, p) ==
  /\ CallFault
  /\ \/ /\ tries[w] < RPCRetryCount
        /\ tries' = [tries EXCEPT ![w] = @ + 1]
        /\ UNCHANGED <<pc, task, files, content>>
     \/ /\ tries[w] = RPCRetryCount
        /\ Goto(w, p)
  /\ UNCHANGED <<out, ioFaults, crashes, spoiled>>

\* call returned false: try again or, after the last try, go on to p.
CallFailed(w, p) ==
  /\ CallFault
  /\ \/ /\ tries[w] + 1 < RPCRetryCount
        /\ tries' = [tries EXCEPT ![w] = @ + 1]
        /\ UNCHANGED <<pc, task, files, content>>
     \/ /\ tries[w] + 1 = RPCRetryCount
        /\ Goto(w, p)
  /\ UNCHANGED <<out, ioFaults, crashes, spoiled>>

\* Where a worker goes when none of its tries succeeded: Register and
\* IsWaiting end the process, the other calls return to the main loop.
OnFailure(p) == IF p \in {"register", "check"} THEN "exited" ELSE "check"

\* The request did not reach the coordinator.
CallNotMade(w) ==
  /\ pc[w] \in {"register", "check", "ask", "reportMap", "reportReduce"}
  /\ CallFailed(w, OnFailure(pc[w]))
  /\ UNCHANGED coordVars

\* The handler ran but its answer did not come back.
AnswerLost(w) ==
  /\ Reachable
  /\ \/ /\ pc[w] = "ask"
        /\ \/ \E m \in Maps : AssignMapTask(m)
           \/ \E r \in Reduces : AssignReduceTask(r)
     \/ /\ pc[w] = "reportMap"
        /\ ReportMapTask(task[w])
     \/ /\ pc[w] = "reportReduce"
        /\ ReportReduceTask(task[w])
  /\ CallFailed(w, OnFailure(pc[w]))

-----------------------------------------------------------------------------
(* The main loop of Worker. *)

Launch(w) ==
  /\ pc[w] = "off"
  /\ Goto(w, "register")
  /\ UNCHANGED <<coordVars, out, faultVars, spoiled>>

Register(w) ==
  /\ pc[w] = "register"
  /\ Reachable
  /\ Goto(w, "check")
  /\ UNCHANGED <<coordVars, out, faultVars, spoiled>>

IsWaiting(w) ==
  /\ pc[w] = "check"
  /\ Reachable
  /\ Goto(w, IF Done THEN "exited" ELSE "ask")
  /\ UNCHANGED <<coordVars, out, faultVars, spoiled>>

AskForTask(w) ==
  /\ pc[w] = "ask"
  /\ \/ \E m \in Maps :
          /\ AssignMapTask(m)
          /\ Become(w, "mapping", m, NoContent, NoContent)
     \/ \E r \in Reduces :
          /\ AssignReduceTask(r)
          /\ Become(w, "reducing", r, filenames[r], NoContent)
     \/ /\ AssignNothing
        /\ Goto(w, "check")
  /\ UNCHANGED <<out, faultVars, spoiled>>

-----------------------------------------------------------------------------
(* mapTask: read the input, write a fresh file per bucket, report. *)

RunMap(w) ==
  /\ pc[w] = "mapping"
  /\ Continue(w, "reportMap")
  /\ UNCHANGED <<coordVars, out, faultVars, spoiled>>

ReportMap(w) ==
  /\ pc[w] = "reportMap"
  /\ ReportMapTask(task[w])
  /\ Goto(w, "check")
  /\ UNCHANGED <<out, faultVars, spoiled>>

-----------------------------------------------------------------------------
(* reduceTask: read the files, create mr-out, write it, report. *)

\* What the worker may read: everything or, if a file cannot be opened or
\* decoded, everything but the data of that file.  The error is logged, and
\* the task goes on (a file cut short by a decoding error counts as missing):
\* its output is spoiled.
ReadFiles(w) ==
  \/ /\ content' = [content EXCEPT ![w] = files[w]]
     /\ UNCHANGED <<ioFaults, spoiled>>
  \/ /\ ioFaults < MaxIOFaults
     /\ ioFaults' = ioFaults + 1
     /\ \E m \in {x \in Maps : files[w][x] > 0} :
          content' = [content EXCEPT ![w] = [files[w] EXCEPT ![m] = 0]]
     /\ spoiled' = spoiled \cup {task[w]}

\* Mutant of CreateOutput: the task is reported before the file is written.
CreateAndReport(w) ==
  /\ pc[w] = "reducing"
  /\ ReadFiles(w)
  /\ out' = [out EXCEPT ![task[w]] = PartialFile]
  /\ pc' = [pc EXCEPT ![w] = "reportReduce"]
  /\ UNCHANGED <<task, tries, files, coordVars, callFaults, crashes>>

\* Read and compute, then os.Create.
CreateOutput(w) ==
  /\ pc[w] = "reducing"
  /\ ReadFiles(w)
  /\ out' = [out EXCEPT ![task[w]] = PartialFile]
  /\ pc' = [pc EXCEPT ![w] = "writing"]
  /\ UNCHANGED <<task, tries, files, coordVars, callFaults, crashes>>

\* WriteString.  Workers that have the same file open have read the same
\* data and write the same number of bytes at offset 0, in an order of keys
\* of their own, so the last write counts.  (After a failed read the numbers
\* differ; no property looks at a file written by both then.)
WriteOutput(w) ==
  /\ pc[w] = "writing"
  /\ out' = [out EXCEPT ![task[w]] = [state |-> "written",
                                      data  |-> content[w]]]
  /\ Continue(w, "reportReduce")
  /\ UNCHANGED <<coordVars, faultVars, spoiled>>

ReportReduce(w) ==
  /\ pc[w] = "reportReduce"
  /\ ReportReduceTask(task[w])
  /\ Goto(w, "check")
  /\ UNCHANGED <<out, faultVars, spoiled>>

-----------------------------------------------------------------------------
(* Errors that end a task, and crashes. *)

\* A worker that fails with mr-out open has written nothing, or a part.  The
\* keys are in an order of its own, so that a part ruins what another worker
\* has written since.
LeaveOutput(w) ==
  \/ UNCHANGED out
  \/ pc[w] = "writing" /\ out' = [out EXCEPT ![task[w]] = PartialFile]

\* Another worker has mr-out-r open as well, and will write all of it.
OtherWriter(w, r) ==
  \E v \in Workers \ {w} : pc[v] = "writing" /\ task[v] = r

\* Reduce task r is completed, or will be without being done again: a worker
\* has written the output and is about to report.
Reported(r) ==
  \/ reduceStatus[r] = "Completed"
  \/ \E v \in Workers : pc[v] = "reportReduce" /\ task[v] = r

\* The output that is spoiled when worker w fails: the file of a task that
\* nobody need do again is left incomplete, and nobody is writing it.
Truncated(w) ==
  {r \in Reduces : /\ pc[w] = "writing" /\ task[w] = r
                   /\ Reported(r)
                   /\ out'[r].state # "written"
                   /\ ~OtherWriter(w, r)}

\* Reading the input, writing an intermediate file, creating or writing
\* mr-out fails: the task is dropped without a report.
TaskError(w) ==
  /\ pc[w] \in {"mapping", "reducing", "writing"}
  /\ ioFaults < MaxIOFaults
  /\ ioFaults' = ioFaults + 1
  /\ LeaveOutput(w)
  /\ spoiled' = spoiled \cup Truncated(w)
  /\ Goto(w, "check")
  /\ UNCHANGED <<coordVars, callFaults, crashes>>

Crash(w) ==
  /\ pc[w] \notin {"off", "exited"}
  /\ crashes < MaxCrashes
  /\ crashes' = crashes + 1
  /\ LeaveOutput(w)
  /\ spoiled' = spoiled \cup Truncated(w)
  /\ Goto(w, "off")
  /\ UNCHANGED <<coordVars, callFaults, ioFaults>>

-----------------------------------------------------------------------------
WorkerStep(w) ==
  \/ Register(w)
  \/ IsWaiting(w)
  \/ AskForTask(w)
  \/ RunMap(w)
  \/ ReportMap(w)
  \/ CreateOutput(w)
  \/ WriteOutput(w)
  \/ ReportReduce(w)
  \/ ~Reachable /\ CallNotMade(w)

FaultStep(w) ==
  \/ Reachable /\ CallNotMade(w)
  \/ AnswerLost(w)
  \/ TaskError(w)
  \/ Crash(w)

CoordStep ==
  /\ \/ \E m \in Maps : MapTimeout(m)
     \/ \E r \in Reduces : ReduceTimeout(r)
     \/ PollDone
     \/ Exit
  /\ UNCHANGED <<workerVars, out, faultVars, spoiled>>

Next ==
  \/ \E w \in Workers : Launch(w) \/ WorkerStep(w) \/ FaultStep(w)
  \/ CoordStep

Spec == Init /\ [][Next]_vars

(***************************************************************************)
(* Fairness.  Every process that runs keeps running, time passes, and a    *)
(* worker that was never started or has crashed is started (again), as     *)
(* the tests do.                                                           *)
(***************************************************************************)
Idle == UNCHANGED <<workerVars, out, faultVars, spoiled>>

Fairness ==
  /\ \A w \in Workers : WF_vars(Launch(w)) /\ WF_vars(WorkerStep(w))
  /\ \A m \in Maps : WF_vars(MapTimeout(m) /\ Idle)
  /\ \A r \in Reduces : WF_vars(ReduceTimeout(r) /\ Idle)
  /\ WF_vars(PollDone /\ Idle)
  /\ WF_vars(Exit /\ Idle)

FairSpec == Spec /\ Fairness

-----------------------------------------------------------------------------
(* Properties. *)

\* What belongs in reduce task r: each map output once.
Expected(r) == [m \in Maps |-> IF r \in Emits[m] THEN 1 ELSE 0]

OutputRight(r) == out[r] = [state |-> "written", data |-> Expected(r)]

InReduce(w) == pc[w] \in {"reducing", "writing", "reportReduce"}

\* A worker that was given a reduce task was given the output of every map
\* task, once: no report that came twice or late, no reassigned map task and
\* no reduce task handed out too early changes that.
ReduceInputExact ==
  \A w \in Workers : InReduce(w) => files[w] = Expected(task[w])

\* The Filenames of a reduce task do not change once any reduce task has
\* been handed out (the answer of AssignTask is encoded outside c.mu).
FilenamesFrozen ==
  [][(\E r \in Reduces : reduceStatus[r] # "Pending")
       => UNCHANGED filenames]_vars

\* A completed reduce task has its output in place, or a worker that was
\* given the task once more is just about to write it again.  Crashes, failed
\* writes and lost calls do not change that; only two faults do: a file that
\* could not be read (reduceTask logs the error and goes on) and a worker
\* that fails after truncating what another one wrote, or in the middle of
\* writing over it, when nobody else is writing it either.
CompletedHasOutput ==
  \A r \in Reduces \ spoiled :
    reduceStatus[r] = "Completed" =>
      \/ OutputRight(r)
      \/ \E w \in Workers : pc[w] = "writing" /\ task[w] = r

SomeProcessExited == main = "exited" \/ \E w \in Workers : pc[w] = "exited"

\* No worker and no coordinator exits before all tasks are completed, as
\* long as no call can have failed RPCRetryCount times (TestEarlyExit of
\* mr_test.go).
NoEarlyExit ==
  SomeProcessExited /\ callFaults < RPCRetryCount =>
    /\ \A m \in Maps : mapStatus[m] = "Completed"
    /\ \A r \in Reduces : reduceStatus[r] = "Completed"

\* "a process has exited. this means that the output should be finalized"
\* (TestEarlyExit of mr_test.go).
OutputFinalAtExit ==
  SomeProcessExited => \A r \in Reduces : OutputRight(r)

\* The job ends: the coordinator and all workers exit, in spite of crashes,
\* lost calls and failed tasks.
JobEnds == <>(main = "exited" /\ \A w \in Workers : pc[w] = "exited")

\* In the end all output is right that no fault has spoiled.
OutputSettles == <>[](\A r \in Reduces \ spoiled : OutputRight(r))

\* The coordinator's bookkeeping implements the abstract job: a completed
\* task stays completed, no reduce task completes before the last map task,
\* and the coordinator leaves its loop only when all are completed.
Job == INSTANCE MapReduceJob WITH
  mapsDone    <- {m \in Maps : mapStatus[m] = "Completed"},
  reducesDone <- {r \in Reduces : reduceStatus[r] = "Completed"},
  over        <- main # "polling"

ImplementsJob == Job!JobSpec

=============================================================================
