------------------------------ MODULE RaftTest ------------------------------
(***************************************************************************)
(* The Raft test harness of lab1/src/raft1: the servers (server.go) that   *)
(* read committed entries from the Raft library and tell the tester about  *)
(* them over RPC (proxy.go), and the tester (test.go) that compares them,  *)
(* kills and restarts servers, and waits for agreement.                    *)
(*                                                                         *)
(* The Raft library itself is an empty skeleton in this repository.  Here  *)
(* it is the log of committed commands, which it hands to each server in   *)
(* order, or a snapshot instead; since the harness is there to find faulty *)
(* libraries, it may also hand over something else, MaxWrong times.        *)
(*                                                                         *)
(* Server i is "off", in "boot", waiting in "read" for the next message,   *)
(* has a CheckLogs request ("check"), an IngestLog request ("ingest") or   *)
(* an ApplyErr request ("report") under way, or has the answer of CheckLogs*)
(* and goes on ("apply").  A request of a server that is killed may still  *)
(* be carried out, at any time: the tester runs each in its own goroutine. *)
(***************************************************************************)
EXTENDS Integers, Sequences, FiniteSets

CONSTANTS
  Servers, Commands,
  Chosen,      \* Chosen[k]: the command that is committed at index k
  SnapShotInterval,
  OneCalls,    \* <<command, expectedServers>>: the calls of one in the test
  WaitCalls,   \* <<index, n>>: its calls of wait
  Nil,         \* an entry that a snapshot has and whose command is nil
  NoEntry,     \* an index that a log does not have
  MaxIndex,    \* bound: indexes of the committed log
  MaxKills,    \* bound: servers killed
  MaxWrong     \* bound: messages that a correct library would not send

ASSUME RaftTestAssumption ==
  /\ IsFiniteSet(Servers)
  /\ SnapShotInterval \in Nat \ {0}
  /\ MaxIndex \in Nat
  /\ Chosen \in [1..MaxIndex -> Commands]
  /\ OneCalls \subseteq Commands \X (1..Cardinality(Servers))
  /\ WaitCalls \subseteq (1..MaxIndex) \X (1..Cardinality(Servers))
  /\ MaxKills \in Nat
  /\ MaxWrong \in Nat
  /\ Nil \notin Commands
  /\ NoEntry \notin Commands \cup {Nil}

Indexes == 1..MaxIndex
Entries == Commands \cup {Nil, NoEntry}
Logs == [Indexes -> Entries]
NoLog == [k \in Indexes |-> NoEntry]

VARIABLES
  (* The Raft library. *)
  committed,    \* number of committed commands
  delivered,    \* delivered[i]: last index handed to server i since it started
  snap,         \* snap[i]: the snapshot that server i will be started with
  wrong,        \* history: number of wrong messages
  (* rfsrv *)
  snapshot,     \* do the servers run with snapshots
  apc,
  msg,          \* msg[i]: the entry that server i is applying
  log,          \* log[i]: rs.log
  lastApplied,
  err,          \* err[i]: err_msg is not empty
  (* Test *)
  logs,         \* logs[i]: entries that server i has reported
  applyErr,
  tpc,          \* what the test is doing
  cur,          \* the command, index and servers it waits for
  kills,
  (* Requests of servers that were killed. *)
  late,
  cut,          \* servers that are being killed: their state has been saved
  behind,       \* history: <<kind, server>> of late requests carried out
  lost          \* history: servers killed before they reported an error

raftVars == <<committed, delivered, snap, wrong>>
srvVars == <<apc, msg, log, lastApplied, err>>
testVars == <<tpc, cur, kills>>
vars == <<raftVars, snapshot, srvVars, logs, applyErr, testVars,
          late, cut, behind, lost>>

Pcs == {"off", "boot", "read", "check", "apply", "ingest", "report"}
TestPcs == {"idle", "loop", "start", "one", "wait", "over"}
Msgs == [index : Indexes, cmd : Commands]
Snaps == [index : 0..MaxIndex, log : Logs]
Requests ==
  [kind : {"check"}, srv : Servers, body : Msgs]
    \cup [kind : {"ingest"}, srv : Servers, body : Logs]
    \cup [kind : {"report"}, srv : Servers, body : {Nil}]

NoMsg == [index |-> 0, cmd |-> Nil]
NoCall == [cmd |-> Nil, index |-> 0, servers |-> 0]

TypeOK ==
  /\ committed \in 0..MaxIndex
  /\ delivered \in [Servers -> 0..MaxIndex]
  /\ snap \in [Servers -> Snaps]
  /\ wrong \in 0..MaxWrong
  /\ snapshot \in BOOLEAN
  /\ apc \in [Servers -> Pcs]
  /\ msg \in [Servers -> Msgs \cup {NoMsg}]
  /\ log \in [Servers -> Logs]
  /\ lastApplied \in [Servers -> 0..MaxIndex]
  /\ err \in [Servers -> BOOLEAN]
  /\ logs \in [Servers -> Logs]
  /\ applyErr \in [Servers -> BOOLEAN]
  /\ tpc \in TestPcs
  /\ cur \in [cmd : Commands \cup {Nil}, index : 0..MaxIndex,
              servers : 0..Cardinality(Servers)]
  /\ kills \in 0..MaxKills
  /\ late \subseteq Requests
  /\ cut \subseteq Servers
  /\ behind \subseteq {"check", "ingest"} \X Servers
  /\ lost \subseteq Servers

Init ==
  /\ committed = 0
  /\ delivered = [i \in Servers |-> 0]
  /\ snap = [i \in Servers |-> [index |-> 0, log |-> NoLog]]
  /\ wrong = 0
  /\ snapshot \in BOOLEAN
  /\ apc = [i \in Servers |-> "read"]
  /\ msg = [i \in Servers |-> NoMsg]
  /\ log = [i \in Servers |-> NoLog]
  /\ lastApplied = [i \in Servers |-> 0]
  /\ err = [i \in Servers |-> FALSE]
  /\ logs = [i \in Servers |-> NoLog]
  /\ applyErr = [i \in Servers |-> FALSE]
  /\ tpc = "idle"
  /\ cur = NoCall
  /\ kills = 0
  /\ late = {}
  /\ cut = {}
  /\ behind = {}
  /\ lost = {}

-----------------------------------------------------------------------------
(* The Raft library.  Commands are committed whenever the library manages  *)
(* to; other goroutines of the tests start commands as well.  The harness  *)
(* only asks whether two commands are equal, so it does not matter which   *)
(* ones they are.                                                          *)

Commit ==
  /\ committed < MaxIndex
  /\ committed' = committed + 1
  /\ UNCHANGED <<delivered, snap, wrong, snapshot, srvVars, logs, applyErr,
                 testVars, late, cut, behind, lost>>

\* A committed entry is read from the apply channel.  A server with snapshots
\* that does not expect the index has found an error and asks no one.
ReadCommand(i, n, c) ==
  LET unexpected == snapshot /\ n # lastApplied[i] + 1
  IN  /\ apc[i] = "read"
      /\ delivered' = [delivered EXCEPT ![i] = n]
      /\ msg' = [msg EXCEPT ![i] = [index |-> n, cmd |-> c]]
      /\ err' = [err EXCEPT ![i] = unexpected]
      /\ apc' = [apc EXCEPT ![i] = IF unexpected THEN "apply" ELSE "check"]
      /\ UNCHANGED <<committed, snap, snapshot, log, lastApplied, logs,
                     applyErr, testVars, late, cut, behind, lost>>

Expected(i, n, c) ==
  n = delivered[i] + 1 /\ n <= committed /\ c = Chosen[n]

Deliver(i) ==
  \E n \in Indexes, c \in Commands :
    /\ Expected(i, n, c)
    /\ ReadCommand(i, n, c)
    /\ UNCHANGED wrong

DeliverWrong(i) ==
  \E n \in Indexes, c \in Commands :
    /\ ~Expected(i, n, c)
    /\ wrong < MaxWrong
    /\ wrong' = wrong + 1
    /\ ReadCommand(i, n, c)

\* The library hands over a snapshot s, which it has persisted, with index n.
\* ingestSnap takes it if the index is that in the snapshot.  The IngestLog
\* request follows in both cases.
IngestSnap(i, s, n) ==
  LET ok == n = s.index
  IN  /\ log' = [log EXCEPT ![i] = IF ok THEN s.log ELSE @]
      /\ lastApplied' = [lastApplied EXCEPT ![i] = IF ok THEN n ELSE @]
      /\ err' = [err EXCEPT ![i] = ~ok]

Keep(i, s) == snap' = IF i \in cut THEN snap ELSE [snap EXCEPT ![i] = s]

ReadSnapshot(i, s, n) ==
  /\ apc[i] = "read"
  /\ snapshot
  /\ IngestSnap(i, s, n)
  /\ Keep(i, s)
  /\ delivered' = [delivered EXCEPT ![i] = s.index]
  /\ apc' = [apc EXCEPT ![i] = "ingest"]
  /\ UNCHANGED <<committed, snapshot, msg, logs, applyErr, testVars,
                 late, cut, behind, lost>>

DeliverSnapshot(i) ==
  \E j \in Servers \ {i} :
    /\ snap[j].index > delivered[i]
    /\ ReadSnapshot(i, snap[j], snap[j].index)
    /\ UNCHANGED wrong

DeliverWrongSnapshot(i) ==
  \E j \in Servers, n \in 0..MaxIndex :
    /\ 0 < snap[j].index
    /\ n # snap[j].index
    /\ wrong < MaxWrong
    /\ wrong' = wrong + 1
    /\ ReadSnapshot(i, snap[j], n)

-----------------------------------------------------------------------------
(* Test: what the requests do, under ts.mu. *)

Present(e) == e # NoEntry

\* Some server, possibly i itself, has reported a different command.
Disagrees(m) ==
  \E j \in Servers :
    Present(logs[j][m.index]) /\ logs[j][m.index] # m.cmd

\* Mutant of PrevOk: index 2 is taken for the first one.
PrevOkFromThree(i, m) == m.index <= 2 \/ Present(logs[i][m.index - 1])

\* The entry before it has been reported by the server itself.
PrevOk(i, m) == m.index = 1 \/ Present(logs[i][m.index - 1])

CheckLogs(i, m) == logs' = [logs EXCEPT ![i][m.index] = m.cmd]

IngestLog(i, l) == logs' = [logs EXCEPT ![i] = l]

ApplyErr(i) == applyErr' = [applyErr EXCEPT ![i] = TRUE]

-----------------------------------------------------------------------------
(* applier and applierSnap *)

Untouched ==
  UNCHANGED <<committed, delivered, wrong, snapshot, testVars, late, cut,
              behind, lost>>

CheckLogsRPC(i) ==
  /\ apc[i] = "check"
  /\ CheckLogs(i, msg[i])
  /\ err' = [err EXCEPT ![i] = Disagrees(msg[i]) \/ ~PrevOk(i, msg[i])]
  /\ apc' = [apc EXCEPT ![i] = "apply"]
  /\ UNCHANGED <<snap, msg, log, lastApplied, applyErr>>
  /\ Untouched

\* Mutant of Continue: errors are not reported.
ContinueSilently(i) == [apc EXCEPT ![i] = "read"]

\* The error, if there is one, is reported; the loop then reads on.
Continue(i) == [apc EXCEPT ![i] = IF err[i] THEN "report" ELSE "read"]

\* The snapshot lists all indexes up to n: those that are missing become nil.
Encoded(l, n) ==
  [k \in Indexes |-> IF k > n THEN NoEntry
                     ELSE IF Present(l[k]) THEN l[k] ELSE Nil]

\* Mutant of Apply: the next index is taken for the last one applied.
ApplyOneAhead(i) ==
  LET n == msg[i].index
      l == [log[i] EXCEPT ![n] = msg[i].cmd]
  IN  /\ apc[i] = "apply"
      /\ apc' = Continue(i)
      /\ msg' = [msg EXCEPT ![i] = NoMsg]
      /\ log' = [log EXCEPT ![i] = l]
      /\ lastApplied' = [lastApplied EXCEPT ![i] = n + 1]
      /\ UNCHANGED <<snap, err, logs, applyErr>>
      /\ Untouched

Apply(i) ==
  LET n == msg[i].index
      l == [log[i] EXCEPT ![n] = msg[i].cmd]
  IN  /\ apc[i] = "apply"
      /\ apc' = Continue(i)
      /\ msg' = [msg EXCEPT ![i] = NoMsg]
      /\ \/ /\ ~snapshot
            /\ UNCHANGED <<log, lastApplied, snap>>
         \/ /\ snapshot
            /\ log' = [log EXCEPT ![i] = l]
            /\ lastApplied' = [lastApplied EXCEPT ![i] = n]
            /\ IF (n + 1) % SnapShotInterval = 0
                 THEN Keep(i, [index |-> n, log |-> Encoded(l, n)])
                 ELSE UNCHANGED snap
      /\ UNCHANGED <<err, logs, applyErr>>
      /\ Untouched

IngestLogRPC(i) ==
  /\ apc[i] \in {"ingest", "boot"}
  /\ IngestLog(i, log[i])
  /\ apc' = Continue(i)
  /\ UNCHANGED <<snap, msg, log, lastApplied, err, applyErr>>
  /\ Untouched

\* The loop goes on after an error, "so that Raft doesn't block".
ApplyErrRPC(i) ==
  /\ apc[i] = "report"
  /\ ApplyErr(i)
  /\ apc' = [apc EXCEPT ![i] = "read"]
  /\ err' = [err EXCEPT ![i] = FALSE]
  /\ UNCHANGED <<snap, msg, log, lastApplied, logs>>
  /\ Untouched

-----------------------------------------------------------------------------
(* kill and restart.  The test waits for both. *)

TestIsFree == tpc = "idle" /\ cut = {} /\ \A i \in Servers : apc[i] # "boot"

\* The server's persistent state is fetched; it runs until it is killed.
Kill(i) ==
  /\ TestIsFree
  /\ apc[i] # "off"
  /\ kills < MaxKills
  /\ kills' = kills + 1
  /\ cut' = {i}
  /\ UNCHANGED <<raftVars, snapshot, srvVars, logs, applyErr, tpc, cur,
                 late, behind, lost>>

\* The request that server i has under way.
Request(i) ==
  CASE apc[i] = "check"  -> [kind |-> "check", srv |-> i, body |-> msg[i]]
    [] apc[i] = "ingest" -> [kind |-> "ingest", srv |-> i, body |-> log[i]]
    [] apc[i] = "report" -> [kind |-> "report", srv |-> i, body |-> Nil]

\* Server i has found an error and is going to report it.
Pending(i) == err[i] /\ apc[i] \in {"apply", "ingest", "report"}

\* The process ends.  A request under way is lost or stays behind.
Die(i) ==
  /\ i \in cut
  /\ \/ /\ lost' = IF Pending(i) THEN lost \cup {i} ELSE lost
        /\ UNCHANGED late
     \/ /\ apc[i] \in {"check", "ingest", "report"}
        /\ late' = late \cup {Request(i)}
        /\ lost' = IF err[i] /\ apc[i] = "ingest" THEN lost \cup {i} ELSE lost
  /\ cut' = {}
  /\ apc' = [apc EXCEPT ![i] = "off"]
  /\ msg' = [msg EXCEPT ![i] = NoMsg]
  /\ err' = [err EXCEPT ![i] = FALSE]
  /\ UNCHANGED <<raftVars, snapshot, log, lastApplied, logs, applyErr,
                 testVars, behind>>

\* A request that was left behind is carried out; nobody reads the answer.
RunLate(q) ==
  /\ \/ q.kind = "check" /\ CheckLogs(q.srv, q.body) /\ UNCHANGED applyErr
     \/ q.kind = "ingest" /\ IngestLog(q.srv, q.body) /\ UNCHANGED applyErr
     \/ q.kind = "report" /\ ApplyErr(q.srv) /\ UNCHANGED logs
  /\ late' = late \ {q}
  /\ behind' = IF q.kind = "report" THEN behind
                                    ELSE behind \cup {<<q.kind, q.srv>>}
  /\ UNCHANGED <<raftVars, snapshot, srvVars, testVars, cut, lost>>

\* Mutant of Restart: the tester is not told what is in the snapshot.
RestartUntold(i) ==
  /\ TestIsFree
  /\ apc[i] = "off"
  /\ apc' = [apc EXCEPT ![i] = "read"]
  /\ log' = [log EXCEPT ![i] = snap[i].log]
  /\ lastApplied' = [lastApplied EXCEPT ![i] = snap[i].index]
  /\ delivered' = [delivered EXCEPT ![i] = snap[i].index]
  /\ UNCHANGED <<committed, snap, wrong, snapshot, msg, err, logs,
                 applyErr, testVars, late, cut, behind, lost>>

\* A new process.  It has a snapshot to ingest, or starts reading at once;
\* the library begins after the snapshot, or at the beginning.
NewRfsrv(i) ==
  LET hasSnap == snapshot /\ snap[i].index > 0
  IN  /\ apc' = [apc EXCEPT ![i] = IF hasSnap THEN "boot" ELSE "read"]
      /\ log' = [log EXCEPT ![i] = IF hasSnap THEN snap[i].log ELSE NoLog]
      /\ lastApplied' = [lastApplied EXCEPT ![i] = snap[i].index]
      /\ delivered' = [delivered EXCEPT ![i] = snap[i].index]

\* Mutant of Restart: mksrv makes a new raftServer each time.
RestartForgets(i) ==
  /\ TestIsFree
  /\ apc[i] = "off"
  /\ NewRfsrv(i)
  /\ logs' = [logs EXCEPT ![i] = NoLog]
  /\ applyErr' = [applyErr EXCEPT ![i] = FALSE]
  /\ UNCHANGED <<committed, snap, wrong, snapshot, msg, err, testVars, late,
                 cut, behind, lost>>

\* The tester keeps what it knows of the server: mksrv replaces its rfsrv.
Restart(i) ==
  /\ TestIsFree
  /\ apc[i] = "off"
  /\ NewRfsrv(i)
  /\ UNCHANGED <<committed, snap, wrong, snapshot, msg, err, logs, applyErr,
                 testVars, late, cut, behind, lost>>

-----------------------------------------------------------------------------
(* one and wait.  A call of one is at the head of its loop ("loop"), asks  *)
(* the servers one by one whether they lead ("start"), in an RPC that has  *)
(* no timeout, or waits for agreement ("one").                             *)

TestStep ==
  UNCHANGED <<raftVars, snapshot, srvVars, logs, applyErr, kills, late, cut,
              behind, lost>>

One(c, n) ==
  /\ TestIsFree
  /\ tpc' = "loop"
  /\ cur' = [cmd |-> c, index |-> 0, servers |-> n]
  /\ TestStep

\* A server says that it is the leader and gives the command an index.  It may
\* have been deposed, so the index can be any.
Start(k) ==
  /\ tpc = "start"
  /\ tpc' = "one"
  /\ cur' = [cur EXCEPT !.index = k]
  /\ TestStep

Wait(k, n) ==
  /\ TestIsFree
  /\ tpc' = "wait"
  /\ cur' = [cmd |-> Nil, index |-> k, servers |-> n]
  /\ TestStep

Reported(k) == {i \in Servers : Present(logs[i][k])}

\* nCommitted calls Fatal.
Alarm(k) ==
  \/ \E i \in Servers : applyErr[i]
  \/ \E i, j \in Reported(k) : logs[i][k] # logs[j][k]

\* It counts enough servers.
Enough == Cardinality(Reported(cur.index)) >= cur.servers

\* Mutant of SameCommand: any command will do.
AnyCommand == TRUE

\* The command that nCommitted returns is the one that `one` has started.
SameCommand == \E i \in Reported(cur.index) : logs[i][cur.index] = cur.cmd

Go(from, to) ==
  /\ tpc = from
  /\ tpc' = to
  /\ cur' = IF to \in {"loop", "start"} THEN [cur EXCEPT !.index = 0]
                                          ELSE NoCall
  /\ TestStep

\* nCommitted, called by one or wait, ends the test.
PollFails ==
  /\ Go("one", "over") \/ Go("wait", "over")
  /\ Alarm(cur.index)

OneReturns ==
  /\ Go("one", "idle")
  /\ ~Alarm(cur.index)
  /\ Enough
  /\ SameCommand

\* Two seconds have passed: one goes round its loop again if it was called
\* with retry, and fails otherwise.
OneTimesOut == Go("one", "loop") \/ Go("one", "over")

\* The ten seconds are not over yet: ask the servers.
AskServers == Go("loop", "start")

\* None of them leads, or none is connected: sleep, and look again.
NoLeader == Go("start", "loop")

\* Ten seconds have passed, which one sees at the head of its loop only, or
\* the test is finished and its cleanup runs.  one calls Fatalf, or returns -1
\* to nobody; both ways the test is over.
OneFails == Go("loop", "over")

OneStep == AskServers \/ NoLeader \/ OneReturns \/ OneTimesOut \/ OneFails

\* wait leaves its loop when it counts enough servers, or after thirty
\* rounds, and counts again; it returns early when a server has a later term.
WaitReturns ==
  /\ Go("wait", "idle")
  /\ ~Alarm(cur.index)
  /\ Enough

WaitMovesOn == Go("wait", "idle")

WaitFails ==
  /\ Go("wait", "over")
  /\ ~Alarm(cur.index)
  /\ ~Enough

WaitStep == WaitReturns \/ WaitMovesOn \/ WaitFails

-----------------------------------------------------------------------------
RaftStep(i) ==
  \/ Deliver(i)
  \/ DeliverWrong(i)
  \/ DeliverSnapshot(i)
  \/ DeliverWrongSnapshot(i)

ApplierStep(i) ==
  \/ CheckLogsRPC(i)
  \/ Apply(i)
  \/ IngestLogRPC(i)
  \/ ApplyErrRPC(i)

LateStep == \E q \in late : RunLate(q)

CallStep ==
  \/ \E o \in OneCalls : One(o[1], o[2])
  \/ \E k \in Indexes : Start(k)
  \/ \E w \in WaitCalls : Wait(w[1], w[2])

Next ==
  \/ Commit
  \/ \E i \in Servers :
       RaftStep(i) \/ ApplierStep(i) \/ Kill(i) \/ Die(i) \/ Restart(i)
  \/ LateStep
  \/ CallStep
  \/ PollFails
  \/ OneStep
  \/ WaitStep

Spec == Init /\ [][Next]_vars

(***************************************************************************)
(* Fairness: the servers' appliers, the kill of a server and the tester's  *)
(* handlers keep running.  The library need not deliver anything, no call  *)
(* of Start need return, and the test need not go on.                      *)
(***************************************************************************)
Fairness ==
  /\ \A i \in Servers : WF_vars(ApplierStep(i)) /\ WF_vars(Die(i))
  /\ WF_vars(LateStep)

FairSpec == Spec /\ Fairness

-----------------------------------------------------------------------------
(* Properties. *)

\* An error of server i is recorded, or on its way, or was lost in a kill.
NoticedOf(i) ==
  \/ applyErr[i]
  \/ Pending(i)
  \/ \E q \in late : q.kind = "report" /\ q.srv = i
  \/ i \in lost

Noticed == \E i \in Servers : NoticedOf(i)

\* A correct library is never accused, of an apply error or of a mismatch.
\* The exception is a server that was killed while an IngestLog was under
\* way, if that request is carried out after the restart and takes back what
\* came later.
NoFalseAlarm ==
  wrong = 0 =>
    /\ \A i \in Servers : applyErr[i] => <<"ingest", i>> \in behind
    /\ \A i \in Servers, k \in Indexes :
         Present(logs[i][k]) => k <= committed /\ logs[i][k] = Chosen[k]

\* If two servers have reported different commands for an index ("some server
\* has already committed a different value for this entry!", CheckLogs), the
\* error is noticed, in whatever order the entries, snapshots and restarts
\* came.  The exception is a late request of a killed server: nobody reads
\* the answer of its CheckLogs, and its IngestLog takes entries back.
DisagreementNoticed ==
  \A i, j \in Servers, k \in Indexes :
    /\ Present(logs[i][k])
    /\ Present(logs[j][k])
    /\ logs[i][k] # logs[j][k]
    => Noticed \/ behind # {}

\* An entry without its predecessor is noticed ("apply out of order"), unless
\* a request that was left behind by the same server made the gap.
GapNoticed ==
  \A i \in Servers, k \in Indexes :
    /\ k > 1
    /\ Present(logs[i][k])
    /\ ~Present(logs[i][k - 1])
    => Noticed \/ \E kind \in {"check", "ingest"} : <<kind, i>> \in behind

\* What one returns with is committed at the index it returns, if the library
\* is correct: an index that a deposed leader gave out is not taken.
OneReturnsCommitted ==
  [][tpc = "one" /\ tpc' = "idle" /\ wrong = 0
       => cur.index <= committed /\ Chosen[cur.index] = cur.cmd]_vars

\* An error that a server finds reaches the tester in the end, over the
\* IngestLog that comes first, and when the server is killed and its report is
\* left behind; and the tester has it for ever, when the server is restarted
\* too.  The exception is a server that is killed before it has sent its
\* report, or whose report is lost with it ("keep reading after error",
\* applier and applierSnap; mksrv).
ErrorReported ==
  \A i \in Servers : Pending(i) ~> [](applyErr[i] \/ i \in lost)

=============================================================================
