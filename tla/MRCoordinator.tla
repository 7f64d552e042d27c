--------------------------- MODULE MRCoordinator ---------------------------
(***************************************************************************)
(* The MapReduce coordinator of lab1/src/mr: coordinator.go with its two   *)
(* task managers.  Every RPC handler holds c.mu from beginning to end, so  *)
(* each is one step; the managers' own mutexes are nested inside it.       *)
(*                                                                         *)
(* A map task is named by its input file, a reduce task by its bucket.     *)
(* Time is seen only through "assigned longer than TaskTimeout ago": the   *)
(* sets mapTimedOut and reduceTimedOut, which Timeout steps fill.          *)
(*                                                                         *)
(* Intermediate files have unique names (os.CreateTemp) and are never      *)
(* changed or removed, so a file in Filenames is represented by the map    *)
(* task that wrote it: filenames[r][m] counts the files of map task m that *)
(* were added to reduce task r.  WorkerID only shows up in log lines and   *)
(* is left out.                                                            *)
(***************************************************************************)
EXTENDS Naturals

CONSTANTS
  Maps,      \* map tasks (input files)
  Reduces,   \* reduce tasks, 0..nReduce-1 in the code
  Emits      \* Emits[m]: buckets for which the map function emits a key

ASSUME EmitsAssumption == Emits \in [Maps -> SUBSET Reduces]

VARIABLES
  mapStatus, reduceStatus,       \* statusMap of the two managers
  mapTimedOut, reduceTimedOut,   \* time.Since(assignedTime) > TaskTimeout
  filenames,                     \* ReduceTask.Filenames
  main                           \* main/mrcoordinator.go

mapVars == <<mapStatus, mapTimedOut>>
reduceVars == <<reduceStatus, reduceTimedOut>>
coordVars == <<mapVars, reduceVars, filenames, main>>

TaskStatus == {"Pending", "Assigned", "Completed"}

CoordTypeOK ==
  /\ mapStatus \in [Maps -> TaskStatus]
  /\ reduceStatus \in [Reduces -> TaskStatus]
  /\ mapTimedOut \subseteq Maps
  /\ reduceTimedOut \subseteq Reduces
  /\ filenames \in [Reduces -> [Maps -> Nat]]
  /\ main \in {"polling", "lingering", "exited"}

MakeCoordinator ==
  /\ mapStatus = [m \in Maps |-> "Pending"]
  /\ reduceStatus = [r \in Reduces |-> "Pending"]
  /\ mapTimedOut = {}
  /\ reduceTimedOut = {}
  /\ filenames = [r \in Reduces |-> [m \in Maps |-> 0]]
  /\ main = "polling"

-----------------------------------------------------------------------------
(* The task managers, alike for both kinds of task. *)

IsTaskCompleted(status, t) == status[t] = "Completed"

CompleteTask(status, t) == [status EXCEPT ![t] = "Completed"]

AllCompleted(status) == \A t \in DOMAIN status : status[t] = "Completed"

\* Mutant of GetPendingTask: a task that timed out is not tried again.
GetPendingOnly(status, timedOut) ==
  {t \in DOMAIN status : status[t] = "Pending"}

\* Mutant of GetPendingTask: a task that timed out is tried again even if it
\* has been completed meanwhile.
GetTimedOut(status, timedOut) ==
  LET pending == {t \in DOMAIN status : status[t] = "Pending"} IN
  IF pending # {} THEN pending ELSE timedOut

\* The tasks GetPendingTask may return: any pending one (Go iterates a map
\* in no particular order), and only if there is none one that timed out.
GetPendingTask(status, timedOut) ==
  LET pending == {t \in DOMAIN status : status[t] = "Pending"} IN
  IF pending # {}
    THEN pending
    ELSE {t \in timedOut : status[t] = "Assigned"}

PendingMaps == GetPendingTask(mapStatus, mapTimedOut)

PendingReduces == GetPendingTask(reduceStatus, reduceTimedOut)

\* AssignTask of a manager: the clock of the task starts again.
AssignMap(m) ==
  /\ mapStatus' = [mapStatus EXCEPT ![m] = "Assigned"]
  /\ mapTimedOut' = mapTimedOut \ {m}

AssignReduce(r) ==
  /\ reduceStatus' = [reduceStatus EXCEPT ![r] = "Assigned"]
  /\ reduceTimedOut' = reduceTimedOut \ {r}

\* AddFile for every bucket of the report's ReduceTaskMap.
AddFiles(m) ==
  filenames' = [r \in Reduces |->
                  IF r \in Emits[m]
                    THEN [filenames[r] EXCEPT ![m] = @ + 1]
                    ELSE filenames[r]]

MapTimeout(m) ==
  /\ mapStatus[m] = "Assigned"
  /\ m \notin mapTimedOut
  /\ mapTimedOut' = mapTimedOut \cup {m}
  /\ UNCHANGED <<mapStatus, reduceVars, filenames, main>>

ReduceTimeout(r) ==
  /\ reduceStatus[r] = "Assigned"
  /\ r \notin reduceTimedOut
  /\ reduceTimedOut' = reduceTimedOut \cup {r}
  /\ UNCHANGED <<mapVars, reduceStatus, filenames, main>>

-----------------------------------------------------------------------------
(* The RPC handlers.  They run as long as the process exists. *)

Reachable == main # "exited"

\* AssignTask answers with a map task, with a reduce task, or with neither.
AssignMapTask(m) ==
  /\ Reachable
  /\ m \in PendingMaps
  /\ AssignMap(m)
  /\ UNCHANGED <<reduceVars, filenames, main>>

\* Mutant of AssignReduceTask: it does not wait for the last map task.
AssignReduceEarly(r) ==
  /\ Reachable
  /\ PendingMaps = {}
  /\ r \in PendingReduces
  /\ AssignReduce(r)
  /\ UNCHANGED <<mapVars, filenames, main>>

AssignReduceTask(r) ==
  /\ Reachable
  /\ PendingMaps = {}
  /\ AllCompleted(mapStatus)
  /\ r \in PendingReduces
  /\ AssignReduce(r)
  /\ UNCHANGED <<mapVars, filenames, main>>

AssignNothing ==
  /\ Reachable
  /\ PendingMaps = {}
  /\ ~AllCompleted(mapStatus) \/ PendingReduces = {}
  /\ UNCHANGED coordVars

\* Mutant of ReportMapTask: a second report of a map task counts.
ReportMapTwice(m) ==
  /\ Reachable
  /\ mapStatus' = CompleteTask(mapStatus, m)
  /\ AddFiles(m)
  /\ UNCHANGED <<mapTimedOut, reduceVars, main>>

ReportMapTask(m) ==
  /\ Reachable
  /\ \/ /\ IsTaskCompleted(mapStatus, m)
        /\ UNCHANGED <<mapStatus, filenames>>
     \/ /\ ~IsTaskCompleted(mapStatus, m)
        /\ mapStatus' = CompleteTask(mapStatus, m)
        /\ AddFiles(m)
  /\ UNCHANGED <<mapTimedOut, reduceVars, main>>

ReportReduceTask(r) ==
  /\ Reachable
  /\ \/ /\ IsTaskCompleted(reduceStatus, r)
        /\ UNCHANGED reduceStatus
     \/ /\ ~IsTaskCompleted(reduceStatus, r)
        /\ reduceStatus' = CompleteTask(reduceStatus, r)
  /\ UNCHANGED <<mapVars, reduceTimedOut, filenames, main>>

\* Mutant of Done: the reduce tasks are not looked at.
DoneMapping == AllCompleted(mapStatus)

Done == AllCompleted(mapStatus) /\ AllCompleted(reduceStatus)

-----------------------------------------------------------------------------
(* main of main/mrcoordinator.go: poll Done, linger a second, exit. *)

PollDone ==
  /\ main = "polling"
  /\ Done
  /\ main' = "lingering"
  /\ UNCHANGED <<mapVars, reduceVars, filenames>>

Exit ==
  /\ main = "lingering"
  /\ main' = "exited"
  /\ UNCHANGED <<mapVars, reduceVars, filenames>>

=============================================================================
