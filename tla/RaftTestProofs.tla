--------------------------- MODULE RaftTestProofs ---------------------------
(***************************************************************************)
(* Proofs about RaftTest, for any number of servers, any committed log and *)
(* any SnapShotInterval: the harness never accuses a correct library, and  *)
(* whatever a faulty one does, disagreement and gaps are noticed.          *)
(***************************************************************************)
EXTENDS RaftTest, FiniteSetTheorems, TLAPS

-----------------------------------------------------------------------------
(* What always holds. *)

\* A server that checks or applies an entry has one; `one` has an index; an
\* error that is being reported is there.
StateInv ==
  /\ TypeOK
  /\ \A i \in Servers :
       /\ apc[i] \in {"check", "apply"} => msg[i] \in Msgs
       /\ apc[i] = "report" => err[i]
  /\ tpc \in {"one", "wait"} => cur.index \in Indexes

\* A snapshot lists exactly the indexes up to its own.  Without snapshots
\* there are none, and rs.log and rs.lastApplied are not used.
SnapInv ==
  \A i \in Servers :
    /\ \A k \in Indexes : Present(snap[i].log[k]) <=> k <= snap[i].index
    /\ ~snapshot => /\ snap[i].index = 0
                    /\ lastApplied[i] = 0
                    /\ apc[i] \notin {"boot", "ingest"}

-----------------------------------------------------------------------------
(* What holds until an error is noticed. *)

\* Server i is at the entry after the last one it has applied.
AtNext(i) == snapshot /\ apc[i] \in {"check", "apply"}

\* The log of a running server lists exactly the indexes up to lastApplied,
\* which is not behind its snapshot and is where the library is, too.
LogOk(i) ==
  apc[i] # "off" =>
    /\ \A k \in Indexes : Present(log[i][k]) <=> k <= lastApplied[i]
    /\ snap[i].index <= lastApplied[i]
    /\ AtNext(i) => /\ msg[i].index = lastApplied[i] + 1
                    /\ delivered[i] = lastApplied[i] + 1
    /\ snapshot /\ ~AtNext(i) => delivered[i] = lastApplied[i]

LogInv == ~Noticed => \A i \in Servers : LogOk(i)

\* Some server will not forget the entries up to n: it has reported them, and
\* they are in the snapshot that it would be restarted with.
Kept(n) ==
  \E h \in Servers :
    /\ n <= snap[h].index
    /\ \A k \in Indexes : k <= n => Present(logs[h][k])

Reporting(i) == apc[i] \in {"read", "check", "apply", "report"}

\* An entry of a snapshot or of a running server's log is known to the tester,
\* from some server.
KeptOk(i) ==
  /\ Kept(snap[i].index)
  /\ apc[i] \in {"boot", "ingest"} => Kept(lastApplied[i])
  /\ Reporting(i) =>
       \A k \in Indexes : k <= lastApplied[i] => Present(logs[i][k])
  /\ apc[i] = "apply" => logs[i][msg[i].index] = msg[i].cmd

KeptInv == ~Noticed /\ behind = {} => \A i \in Servers : KeptOk(i)

\* What the tester knows agrees with itself, with all snapshots, and with the
\* logs of the running servers.
AgreeAt(i, j, k) ==
  Present(logs[i][k]) =>
    /\ Present(logs[j][k]) => logs[j][k] = logs[i][k]
    /\ Present(snap[j].log[k]) => snap[j].log[k] = logs[i][k]
    /\ apc[j] # "off" /\ Present(log[j][k]) => log[j][k] = logs[i][k]

AgreeInv ==
  ~Noticed /\ behind = {} =>
    \A i, j \in Servers, k \in Indexes : AgreeAt(i, j, k)

-----------------------------------------------------------------------------
(* What holds if the library is correct. *)

Prefix(n) == [k \in Indexes |-> IF k <= n THEN Chosen[k] ELSE NoEntry]

Right(l) ==
  \A k \in Indexes : Present(l[k]) => k <= committed /\ l[k] = Chosen[k]

RightMsg(m) == m.index <= committed /\ m.cmd = Chosen[m.index]

\* Servers and snapshots have prefixes of the committed log.
ServerRight(i) ==
  /\ delivered[i] <= committed
  /\ snap[i].index <= committed
  /\ snap[i].log = Prefix(snap[i].index)
  /\ lastApplied[i] <= committed
  /\ log[i] = Prefix(lastApplied[i])
  /\ apc[i] \in {"check", "apply"} =>
       /\ RightMsg(msg[i])
       /\ msg[i].index = delivered[i]
       /\ snapshot => delivered[i] = lastApplied[i] + 1
  /\ snapshot /\ apc[i] \in {"read", "ingest", "boot", "report"} =>
       delivered[i] = lastApplied[i]

\* The tester knows what server i was given, unless an IngestLog that was
\* left behind has taken it back.
TesterRight(i) ==
  /\ Right(logs[i])
  /\ err[i] \/ applyErr[i] => <<"ingest", i>> \in behind
  /\ <<"ingest", i>> \notin behind =>
       /\ apc[i] \in {"read", "apply", "report"} =>
            \A k \in Indexes : k <= delivered[i] => Present(logs[i][k])
       /\ apc[i] = "check" =>
            \A k \in Indexes : k < delivered[i] => Present(logs[i][k])

RequestRight(q) ==
  /\ q.kind = "check" => RightMsg(q.body)
  /\ q.kind = "ingest" => Right(q.body)
  /\ q.kind = "report" => <<"ingest", q.srv>> \in behind

CorrectInv ==
  wrong = 0 =>
    /\ \A i \in Servers : ServerRight(i) /\ TesterRight(i)
    /\ \A q \in late : RequestRight(q)

-----------------------------------------------------------------------------
(* Types. *)

\* Number of servers.
LEMMA ServerCount == Cardinality(Servers) \in Nat
BY RaftTestAssumption, FS_CardinalityType

\* The initial state.
LEMMA InitState == Init => StateInv /\ SnapInv
<1> SUFFICES ASSUME Init PROVE StateInv /\ SnapInv
  OBVIOUS
<1>1. NoLog \in Logs
  BY DEF NoLog, Logs, Entries
<1>2. TypeOK
  <2>1. [index |-> 0, log |-> NoLog] \in Snaps
    BY <1>1, RaftTestAssumption DEF Snaps
  <2>2. NoCall \in [cmd : Commands \cup {Nil}, index : 0..MaxIndex,
                    servers : 0..Cardinality(Servers)]
    BY ServerCount, RaftTestAssumption DEF NoCall
  <2>3. cur \in [cmd : Commands \cup {Nil}, index : 0..MaxIndex,
                 servers : 0..Cardinality(Servers)]
    BY <2>2 DEF Init
  <2>4. /\ committed \in 0..MaxIndex
        /\ delivered \in [Servers -> 0..MaxIndex]
        /\ wrong \in 0..MaxWrong
        /\ lastApplied \in [Servers -> 0..MaxIndex]
        /\ kills \in 0..MaxKills
    BY RaftTestAssumption DEF Init
  <2>5. /\ err \in [Servers -> BOOLEAN]
        /\ applyErr \in [Servers -> BOOLEAN]
        /\ lost \subseteq Servers
        /\ snapshot \in BOOLEAN
    BY DEF Init
  <2>6. /\ snap \in [Servers -> Snaps]
        /\ log \in [Servers -> Logs]
        /\ logs \in [Servers -> Logs]
        /\ msg \in [Servers -> Msgs \cup {NoMsg}]
    BY <1>1, <2>1 DEF Init
  <2>7. /\ apc \in [Servers -> Pcs]
        /\ tpc \in TestPcs
        /\ late \subseteq Requests
        /\ cut \subseteq Servers
        /\ behind \subseteq {"check", "ingest"} \X Servers
    BY DEF Init, Pcs, TestPcs
  <2> QED
    BY <2>3, <2>4, <2>5, <2>6, <2>7 DEF TypeOK
<1>3. SnapInv
  BY RaftTestAssumption DEF Init, SnapInv, NoLog, Present, Indexes
<1> QED
  BY <1>2, <1>3 DEF StateInv, Init

\* An entry keeps its type in the log that it is written to.
LEMMA LogTypes ==
  ASSUME NEW l \in Logs, NEW m \in Msgs
  PROVE  /\ [l EXCEPT ![m.index] = m.cmd] \in Logs
         /\ [index |-> m.index, log |-> Encoded(l, m.index)] \in Snaps
<1>1. m.index \in Indexes /\ m.cmd \in Entries
  BY DEF Msgs, Entries
<1>2. Encoded(l, m.index) \in Logs
  BY <1>1 DEF Encoded, Logs, Entries
<1> QED
  BY <1>1, <1>2, RaftTestAssumption DEF Logs, Snaps, Indexes

\* Steps of the library and of the servers.
LEMMA ServerState ==
  ASSUME StateInv, NEW i \in Servers, RaftStep(i) \/ ApplierStep(i)
  PROVE  StateInv'
<1>1. ASSUME NEW n \in Indexes, NEW c \in Commands, ReadCommand(i, n, c),
             wrong' \in 0..MaxWrong
      PROVE  StateInv'
  BY <1>1, RaftTestAssumption
  DEF ReadCommand, StateInv, TypeOK, testVars, Pcs, Msgs, Indexes
<1>2. ASSUME NEW s \in Snaps, NEW n \in 0..MaxIndex, ReadSnapshot(i, s, n),
             wrong' \in 0..MaxWrong
      PROVE  StateInv'
  <2>1. s.index \in 0..MaxIndex /\ s.log \in Logs
    BY DEF Snaps
  <2>2. snap' \in [Servers -> Snaps]
    BY <1>2 DEF ReadSnapshot, Keep, StateInv, TypeOK
  <2>3. /\ log' \in [Servers -> Logs]
        /\ lastApplied' \in [Servers -> 0..MaxIndex]
        /\ err' \in [Servers -> BOOLEAN]
        /\ delivered' \in [Servers -> 0..MaxIndex]
        /\ apc' \in [Servers -> Pcs]
    BY <1>2, <2>1 DEF ReadSnapshot, IngestSnap, StateInv, TypeOK, Pcs
  <2>4. TypeOK'
    BY <1>2, <2>2, <2>3 DEF ReadSnapshot, StateInv, TypeOK, testVars
  <2> QED
    BY <1>2, <2>4
    DEF ReadSnapshot, IngestSnap, StateInv, TypeOK, testVars
<1>3. wrong \in 0..MaxWrong
      /\ (wrong < MaxWrong => wrong + 1 \in 0..MaxWrong)
  BY RaftTestAssumption DEF StateInv, TypeOK
<1>4. CASE RaftStep(i)
  <2>1. CASE Deliver(i) \/ DeliverWrong(i)
    BY <1>1, <1>3, <2>1 DEF Deliver, DeliverWrong
  <2>2. \A j \in Servers : snap[j] \in Snaps /\ snap[j].index \in 0..MaxIndex
    BY DEF StateInv, TypeOK, Snaps
  <2>3. CASE DeliverSnapshot(i)
    BY <1>2, <1>3, <2>2, <2>3 DEF DeliverSnapshot
  <2>4. CASE DeliverWrongSnapshot(i)
    BY <1>2, <1>3, <2>2, <2>4 DEF DeliverWrongSnapshot
  <2> QED
    BY <1>4, <2>1, <2>3, <2>4 DEF RaftStep
<1>5. CASE CheckLogsRPC(i)
  <2>1. msg[i] \in Msgs /\ logs[i] \in Logs
    BY <1>5 DEF CheckLogsRPC, StateInv, TypeOK
  <2>2. logs' \in [Servers -> Logs]
    BY <1>5, <2>1, LogTypes
    DEF CheckLogsRPC, CheckLogs, StateInv, TypeOK
  <2>3. err' \in [Servers -> BOOLEAN]
    BY <1>5 DEF CheckLogsRPC, StateInv, TypeOK, Disagrees, PrevOk
  <2>4. TypeOK'
    BY <1>5, <2>2, <2>3
    DEF CheckLogsRPC, StateInv, TypeOK, Untouched, testVars, Pcs
  <2> QED
    BY <1>5, <2>1, <2>4
    DEF CheckLogsRPC, StateInv, TypeOK, Untouched, testVars
<1>6. CASE Apply(i)
  <2>1. msg[i] \in Msgs /\ log[i] \in Logs
    BY <1>6 DEF Apply, StateInv, TypeOK
  <2> DEFINE l == [log[i] EXCEPT ![msg[i].index] = msg[i].cmd]
  <2>2. /\ l \in Logs
        /\ [index |-> msg[i].index, log |-> Encoded(l, msg[i].index)] \in Snaps
    BY <2>1, LogTypes
  <2>3. msg[i].index \in 0..MaxIndex
    BY <2>1, RaftTestAssumption DEF Msgs, Indexes
  <2>4. /\ log' \in [Servers -> Logs]
        /\ lastApplied' \in [Servers -> 0..MaxIndex]
    <3> HIDE DEF l
    <3> QED
      BY <1>6, <2>2, <2>3 DEF Apply, StateInv, TypeOK, l
  <2>5. snap' \in [Servers -> Snaps]
    <3>1. \/ UNCHANGED snap
          \/ Keep(i, [index |-> msg[i].index,
                      log |-> Encoded(l, msg[i].index)])
      BY <1>6 DEF Apply
    <3> HIDE DEF l
    <3> QED
      BY <2>2, <3>1 DEF Keep, StateInv, TypeOK
  <2>6. apc' \in [Servers -> Pcs] /\ msg' \in [Servers -> Msgs \cup {NoMsg}]
    BY <1>6 DEF Apply, Continue, StateInv, TypeOK, Pcs
  <2>7. TypeOK'
    BY <1>6, <2>4, <2>5, <2>6 DEF Apply, StateInv, TypeOK, Untouched, testVars
  <2> QED
    BY <1>6, <2>7
    DEF Apply, Continue, StateInv, TypeOK, Untouched, testVars
<1>7. CASE IngestLogRPC(i)
  BY <1>7 DEF IngestLogRPC, IngestLog, Continue, StateInv, TypeOK, Untouched,
    testVars, Pcs
<1>8. CASE ApplyErrRPC(i)
  BY <1>8 DEF ApplyErrRPC, ApplyErr, StateInv, TypeOK, Untouched, testVars,
    Pcs
<1> QED
  BY <1>4, <1>5, <1>6, <1>7, <1>8 DEF ApplierStep

\* Every step keeps the types.
LEMMA StateStep == StateInv /\ [Next]_vars => StateInv'
<1> SUFFICES ASSUME StateInv, [Next]_vars PROVE StateInv'
  OBVIOUS
<1>1. CASE Commit
  BY <1>1, RaftTestAssumption DEF Commit, StateInv, TypeOK, srvVars, testVars
<1>2. ASSUME NEW i \in Servers, RaftStep(i) \/ ApplierStep(i)
      PROVE  StateInv'
  BY <1>2, ServerState
<1>3. ASSUME NEW i \in Servers, Kill(i)
      PROVE  StateInv'
  BY <1>3, RaftTestAssumption DEF Kill, StateInv, TypeOK, raftVars, srvVars
<1>4. ASSUME NEW i \in Servers, Die(i)
      PROVE  StateInv'
  <2>1. apc[i] \in {"check", "ingest", "report"} => Request(i) \in Requests
    BY DEF StateInv, TypeOK, Request, Requests
  <2>2. late' \subseteq Requests
    BY <1>4, <2>1 DEF Die, StateInv, TypeOK
  <2>3. lost' \subseteq Servers
    BY <1>4 DEF Die, StateInv, TypeOK
  <2>4. TypeOK'
    BY <1>4, <2>2, <2>3 DEF Die, StateInv, TypeOK, raftVars, testVars, Pcs
  <2> QED
    BY <1>4, <2>4 DEF Die, StateInv, TypeOK, testVars
<1>5. ASSUME NEW i \in Servers, Restart(i)
      PROVE  StateInv'
  <2>1. snap[i].index \in 0..MaxIndex /\ snap[i].log \in Logs
        /\ NoLog \in Logs
    BY DEF StateInv, TypeOK, Snaps, NoLog, Logs, Entries
  <2> QED
    BY <1>5, <2>1 DEF Restart, NewRfsrv, StateInv, TypeOK, testVars, Pcs
<1>6. ASSUME NEW q \in late, RunLate(q)
      PROVE  StateInv'
  <2>1. /\ q \in Requests
        /\ q.srv \in Servers
        /\ q.kind \in {"check", "ingest", "report"}
        /\ q.kind = "check" => q.body \in Msgs
        /\ q.kind = "ingest" => q.body \in Logs
    BY DEF StateInv, TypeOK, Requests
  <2>2. logs' \in [Servers -> Logs]
    <3>1. CASE q.kind = "check" /\ CheckLogs(q.srv, q.body)
      <4>1. [logs[q.srv] EXCEPT ![q.body.index] = q.body.cmd] \in Logs
        BY <2>1, <3>1, LogTypes DEF StateInv, TypeOK
      <4> QED
        BY <3>1, <4>1 DEF CheckLogs, StateInv, TypeOK
    <3>2. CASE q.kind = "ingest" /\ IngestLog(q.srv, q.body)
      BY <2>1, <3>2 DEF IngestLog, StateInv, TypeOK
    <3> QED
      BY <1>6, <3>1, <3>2 DEF RunLate, StateInv, TypeOK
  <2>3. applyErr' \in [Servers -> BOOLEAN]
    BY <1>6 DEF RunLate, ApplyErr, StateInv, TypeOK
  <2>4. behind' \subseteq {"check", "ingest"} \X Servers
    BY <1>6, <2>1 DEF RunLate, StateInv, TypeOK
  <2> QED
    BY <1>6, <2>2, <2>3, <2>4
    DEF RunLate, StateInv, TypeOK, raftVars, srvVars, testVars
<1>7. CASE CallStep
  <2>1. \A o \in OneCalls :
          o[1] \in Commands /\ o[2] \in 0..Cardinality(Servers)
    BY RaftTestAssumption, ServerCount
  <2>2. \A w \in WaitCalls :
          w[1] \in Indexes /\ w[2] \in 0..Cardinality(Servers)
    BY RaftTestAssumption, ServerCount DEF Indexes
  <2>3. \A k \in Indexes : k \in 0..MaxIndex
    BY RaftTestAssumption DEF Indexes
  <2>4. tpc' \in TestPcs /\ UNCHANGED kills
    BY <1>7 DEF CallStep, One, Start, Wait, TestStep, TestPcs
  <2> DEFINE Curs == [cmd : Commands \cup {Nil}, index : 0..MaxIndex,
                      servers : 0..Cardinality(Servers)]
  <2>5. cur' \in Curs /\ (tpc' \in {"one", "wait"} => cur'.index \in Indexes)
    <3>1. ASSUME NEW o \in OneCalls, One(o[1], o[2])
          PROVE  cur' \in Curs /\ tpc' = "loop"
      BY <2>1, <3>1, RaftTestAssumption DEF One
    <3>2. ASSUME NEW k \in Indexes, Start(k)
          PROVE  cur' \in Curs /\ cur'.index \in Indexes
      BY <2>3, <3>2 DEF Start, StateInv, TypeOK
    <3>3. ASSUME NEW w \in WaitCalls, Wait(w[1], w[2])
          PROVE  cur' \in Curs /\ cur'.index \in Indexes
      BY <2>2, <2>3, <3>3 DEF Wait
    <3> QED
      BY <1>7, <3>1, <3>2, <3>3 DEF CallStep
  <2> QED
    BY <1>7, <2>4, <2>5
    DEF CallStep, One, Start, Wait, TestStep, StateInv, TypeOK, raftVars,
      srvVars
<1>8. ASSUME NEW from, NEW to \in {"loop", "start", "idle", "over"}, Go(from, to)
      PROVE  StateInv'
  <2>1. cur' \in [cmd : Commands \cup {Nil}, index : 0..MaxIndex,
                  servers : 0..Cardinality(Servers)]
    <3>1. NoCall \in [cmd : Commands \cup {Nil}, index : 0..MaxIndex,
                      servers : 0..Cardinality(Servers)]
      BY ServerCount, RaftTestAssumption DEF NoCall
    <3>2. 0 \in 0..MaxIndex
      BY RaftTestAssumption
    <3> QED
      BY <1>8, <3>1, <3>2 DEF Go, StateInv, TypeOK
  <2> QED
    BY <1>8, <2>1
    DEF Go, TestStep, StateInv, TypeOK, raftVars, srvVars, TestPcs
<1>9. CASE UNCHANGED vars
  BY <1>9 DEF vars, raftVars, srvVars, testVars, StateInv, TypeOK
<1> QED
  BY <1>1, <1>2, <1>3, <1>4, <1>5, <1>6, <1>7, <1>8, <1>9
  DEF Next, LateStep, PollFails, OneStep, AskServers, NoLeader, OneReturns,
    OneTimesOut, OneFails, WaitStep, WaitReturns, WaitMovesOn, WaitFails
-----------------------------------------------------------------------------
(* Which steps matter. *)

\* A step that neither the library, a server nor the tester's handlers take.
Aside ==
  /\ committed <= committed'
  /\ UNCHANGED <<delivered, snap, wrong, snapshot, srvVars, logs, applyErr,
                 late, behind, lost>>

\* A step of server i, or of the library with it.
ServerStep(i) == RaftStep(i) \/ ApplierStep(i) \/ Die(i) \/ Restart(i)

LEMMA StepCases ==
  ASSUME StateInv, [Next]_vars
  PROVE  \/ \E i \in Servers : ServerStep(i)
         \/ \E q \in late : RunLate(q)
         \/ Aside
<1>1. committed \in Nat
  BY RaftTestAssumption DEF StateInv, TypeOK
<1>2. CASE Commit
  BY <1>1, <1>2 DEF Commit, Aside
<1>3. CASE UNCHANGED vars \/ \E i \in Servers : Kill(i)
  BY <1>1, <1>3 DEF vars, Kill, raftVars, Aside
<1>4. ASSUME TestStep
      PROVE  Aside
  BY <1>1, <1>4 DEF TestStep, raftVars, Aside
<1> QED
  BY <1>2, <1>3, <1>4
  DEF Next, ServerStep, LateStep, CallStep, One, Start, Wait, PollFails,
    OneStep, AskServers, NoLeader, OneReturns, OneTimesOut, OneFails, WaitStep,
    WaitReturns, WaitMovesOn, WaitFails, Go

\* A step of one server does not touch another one.
LEMMA OthersSame ==
  ASSUME StateInv, NEW i \in Servers, ServerStep(i),
         NEW j \in Servers, j # i
  PROVE  /\ UNCHANGED <<delivered[j], snap[j], apc[j], msg[j], log[j],
                        lastApplied[j], err[j]>>
         /\ UNCHANGED <<logs[j], applyErr[j]>>
<1>1. CASE RaftStep(i)
  BY <1>1 DEF RaftStep, Deliver, DeliverWrong, ReadCommand, DeliverSnapshot,
    DeliverWrongSnapshot, ReadSnapshot, IngestSnap, Keep, StateInv, TypeOK
<1>2. CASE ApplierStep(i)
  BY <1>2 DEF ApplierStep, CheckLogsRPC, CheckLogs, Apply, Keep, Continue,
    IngestLogRPC, IngestLog, ApplyErrRPC, ApplyErr, Untouched, StateInv,
    TypeOK
<1>3. CASE Die(i) \/ Restart(i)
  BY <1>3 DEF Die, Restart, NewRfsrv, raftVars, StateInv, TypeOK
<1> QED
  BY <1>1, <1>2, <1>3 DEF ServerStep

\* A server step leaves the tester's history of late requests alone.
LEMMA ServerFrame ==
  ASSUME NEW i \in Servers, ServerStep(i)
  PROVE  UNCHANGED <<committed, snapshot, behind>>
BY DEF ServerStep, RaftStep, Deliver, DeliverWrong, ReadCommand,
  DeliverSnapshot, DeliverWrongSnapshot, ReadSnapshot, ApplierStep,
  CheckLogsRPC, Apply, IngestLogRPC, ApplyErrRPC, Untouched, Die, Restart,
  NewRfsrv,
  raftVars

\* What the library hands over is read, with one of these effects.
LEMMA RaftCases ==
  ASSUME StateInv, NEW i \in Servers, RaftStep(i)
  PROVE  \/ \E n \in Indexes, c \in Commands : ReadCommand(i, n, c)
         \/ \E j \in Servers :
              /\ delivered[i] < snap[j].index
              /\ ReadSnapshot(i, snap[j], snap[j].index)
         \/ \E j \in Servers, n \in 0..MaxIndex :
              n # snap[j].index /\ ReadSnapshot(i, snap[j], n)
<1>1. \A j \in Servers : snap[j].index \in Int /\ delivered[i] \in Int
  BY DEF StateInv, TypeOK, Snaps
<1> QED
  BY <1>1
  DEF RaftStep, Deliver, DeliverWrong, DeliverSnapshot, DeliverWrongSnapshot

-----------------------------------------------------------------------------
(* Snapshots. *)

\* The snapshot of index n lists the indexes up to n, whatever the log.
LEMMA EncodedPresent ==
  ASSUME NEW l \in Logs, NEW n
  PROVE  \A k \in Indexes : Present(Encoded(l, n)[k]) <=> ~(k > n)
BY RaftTestAssumption DEF Encoded, Present

\* Every step keeps SnapInv.
LEMMA SnapStep ==
  ASSUME StateInv, SnapInv, [Next]_vars
  PROVE  SnapInv'
<1>1. CASE UNCHANGED <<snap, snapshot, lastApplied, apc>>
  BY <1>1 DEF SnapInv, Present
<1>2. ASSUME NEW i \in Servers, ServerStep(i)
      PROVE  SnapInv'
  <2> SUFFICES
        /\ \A k \in Indexes : Present(snap'[i].log[k]) <=> k <= snap'[i].index
        /\ ~snapshot' => /\ snap'[i].index = 0
                         /\ lastApplied'[i] = 0
                         /\ apc'[i] \notin {"boot", "ingest"}
    BY <1>2, OthersSame, ServerFrame DEF SnapInv, Present
  <2>1. /\ \A k \in Indexes : Present(snap[i].log[k]) <=> k <= snap[i].index
        /\ ~snapshot => /\ snap[i].index = 0
                        /\ lastApplied[i] = 0
                        /\ apc[i] \notin {"boot", "ingest"}
    BY DEF SnapInv
  <2>2. ASSUME NEW n \in Indexes, NEW c \in Commands, ReadCommand(i, n, c)
        PROVE  UNCHANGED <<snap[i], snapshot, lastApplied[i]>>
               /\ apc'[i] \in {"check", "apply"}
    BY <2>2 DEF ReadCommand, StateInv, TypeOK
  <2>3. ASSUME NEW j \in Servers, NEW n, ReadSnapshot(i, snap[j], n)
        PROVE  snapshot /\ UNCHANGED snapshot
               /\ snap'[i] \in {snap[i], snap[j]}
    BY <2>3 DEF ReadSnapshot, Keep, StateInv, TypeOK
  <2>4. CASE RaftStep(i)
    BY <2>1, <2>2, <2>3, <2>4, RaftCases DEF SnapInv
  <2>5. CASE Apply(i)
    <3> DEFINE l == [log[i] EXCEPT ![msg[i].index] = msg[i].cmd]
    <3>1. l \in Logs /\ msg[i].index \in Int /\ \A k \in Indexes : k \in Int
      <4>1. msg[i] \in Msgs /\ log[i] \in Logs
        BY <2>5 DEF Apply, StateInv, TypeOK
      <4>2. l \in Logs
        BY <4>1, LogTypes
      <4>3. msg[i].index \in Int /\ \A k \in Indexes : k \in Int
        BY <4>1 DEF Msgs, Indexes
      <4> QED
        BY <4>2, <4>3
    <3> HIDE DEF l
    <3>2. \/ UNCHANGED snap[i]
          \/ snapshot /\ snap'[i] = [index |-> msg[i].index,
                                     log |-> Encoded(l, msg[i].index)]
      BY <2>5 DEF Apply, Keep, StateInv, TypeOK, l
    <3>3. \A k \in Indexes :
            Present(snap'[i].log[k]) <=> k <= snap'[i].index
      BY <2>1, <3>1, <3>2, EncodedPresent
    <3>4. ~snapshot' => /\ ~snapshot
                        /\ UNCHANGED <<snap[i], lastApplied[i]>>
                        /\ apc'[i] \in {"read", "report"}
      BY <2>5 DEF Apply, Continue, Untouched, StateInv, TypeOK
    <3> QED
      BY <2>1, <3>3, <3>4
  <2>6. CASE CheckLogsRPC(i) \/ IngestLogRPC(i) \/ ApplyErrRPC(i)
    BY <2>1, <2>6
    DEF CheckLogsRPC, IngestLogRPC, ApplyErrRPC, Continue, Untouched,
      StateInv, TypeOK
  <2>7. CASE Die(i) \/ Restart(i)
    BY <2>1, <2>7 DEF Die, Restart, NewRfsrv, raftVars, StateInv, TypeOK
  <2> QED
    BY <1>2, <2>4, <2>5, <2>6, <2>7 DEF ServerStep, ApplierStep
<1> QED
  BY <1>1, <1>2, StepCases DEF RunLate, Aside, raftVars, srvVars

-----------------------------------------------------------------------------
(* Errors stay noticed. *)

\* An error of server e is recorded, on its way, or lost in a kill, for ever:
\* no later message, restart or late request hides it.
LEMMA NoticedOfStable ==
  ASSUME StateInv, [Next]_vars, NEW e \in Servers, NoticedOf(e)
  PROVE  NoticedOf(e)'
<1>1. CASE UNCHANGED <<applyErr, err, apc, late, lost>>
  BY <1>1 DEF NoticedOf, Pending
<1>2. ASSUME NEW q \in late, RunLate(q)
      PROVE  NoticedOf(e)'
  <2>1. q.srv \in Servers
    BY DEF StateInv, TypeOK, Requests
  <2>2. applyErr[e] => applyErr'[e]
    BY <1>2, <2>1 DEF RunLate, ApplyErr, StateInv, TypeOK
  <2>3. q.kind = "report" => applyErr'[q.srv]
    BY <1>2, <2>1 DEF RunLate, ApplyErr, StateInv, TypeOK
  <2>4. /\ late' = late \ {q}
        /\ UNCHANGED <<err, apc, lost>>
    BY <1>2 DEF RunLate, srvVars
  <2> QED
    BY <2>1, <2>2, <2>3, <2>4 DEF NoticedOf, Pending
<1>3. ASSUME NEW i \in Servers, ServerStep(i)
      PROVE  NoticedOf(e)'
  <2>1. lost \subseteq lost'
    BY <1>3
    DEF ServerStep, RaftStep, Deliver, DeliverWrong, ReadCommand,
      DeliverSnapshot, DeliverWrongSnapshot, ReadSnapshot, ApplierStep,
      CheckLogsRPC, Apply, IngestLogRPC, ApplyErrRPC, Untouched, Die, Restart
  <2>2. late \subseteq late'
    BY <1>3
    DEF ServerStep, RaftStep, Deliver, DeliverWrong, ReadCommand,
      DeliverSnapshot, DeliverWrongSnapshot, ReadSnapshot, ApplierStep,
      CheckLogsRPC, Apply, IngestLogRPC, ApplyErrRPC, Untouched, Die, Restart
  <2>3. applyErr[e] => applyErr'[e]
    BY <1>3
    DEF ServerStep, RaftStep, Deliver, DeliverWrong, ReadCommand,
      DeliverSnapshot, DeliverWrongSnapshot, ReadSnapshot, ApplierStep,
      CheckLogsRPC, Apply, IngestLogRPC, ApplyErrRPC, ApplyErr, Die, Restart,
      StateInv, TypeOK
  <2>4. ASSUME Pending(e), e = i
        PROVE  NoticedOf(e)'
    <3>1. CASE Apply(i)
      BY <2>4, <3>1 DEF Apply, Continue, Pending, NoticedOf, StateInv, TypeOK
    <3>2. CASE IngestLogRPC(i)
      BY <2>4, <3>2
      DEF IngestLogRPC, Continue, Pending, NoticedOf, StateInv, TypeOK
    <3>3. CASE ApplyErrRPC(i)
      BY <2>4, <3>3 DEF ApplyErrRPC, ApplyErr, NoticedOf, StateInv, TypeOK
    <3>4. CASE Die(i)
      <4>1. CASE lost' = IF Pending(i) THEN lost \cup {i} ELSE lost
        BY <2>4, <4>1 DEF NoticedOf
      <4>2. CASE /\ late' = late \cup {Request(i)}
                 /\ lost' = IF err[i] /\ apc[i] = "ingest" THEN lost \cup {i}
                                                          ELSE lost
                 /\ apc[i] \in {"check", "ingest", "report"}
        <5>1. CASE apc[i] = "ingest"
          BY <2>4, <4>2, <5>1 DEF Pending, NoticedOf
        <5>2. CASE apc[i] = "report"
          <6>1. Request(i).kind = "report" /\ Request(i).srv = i
            BY <5>2 DEF Request
          <6> QED
            BY <2>4, <4>2, <6>1 DEF NoticedOf
        <5> QED
          BY <2>4, <4>2, <5>1, <5>2 DEF Pending
      <4> QED
        BY <3>4, <4>1, <4>2 DEF Die
    <3> QED
      BY <1>3, <2>4, <3>1, <3>2, <3>3, <3>4, RaftCases
      DEF ServerStep, ApplierStep, CheckLogsRPC, Restart, Pending,
        ReadCommand, ReadSnapshot
  <2>5. ASSUME e # i, Pending(e)
        PROVE  Pending(e)'
    BY <1>3, <2>5, OthersSame DEF Pending
  <2> QED
    BY <2>1, <2>2, <2>3, <2>4, <2>5 DEF NoticedOf
<1> QED
  BY <1>1, <1>2, <1>3, StepCases DEF Aside, srvVars

\* The same of the errors of all servers.
LEMMA NoticedStable ==
  ASSUME StateInv, [Next]_vars, Noticed
  PROVE  Noticed'
BY NoticedOfStable DEF Noticed

-----------------------------------------------------------------------------
(* Logs and gaps. *)

\* A command that was not expected is noticed at once; one that was expected
\* is checked.
LEMMA ReadCommandQuiet ==
  ASSUME StateInv, ~Noticed', NEW i \in Servers,
         NEW n \in Indexes, NEW c \in Commands, ReadCommand(i, n, c)
  PROVE  /\ snapshot => n = lastApplied[i] + 1
         /\ apc[i] = "read" /\ apc'[i] = "check"
         /\ delivered'[i] = n
         /\ msg'[i] = [index |-> n, cmd |-> c]
         /\ UNCHANGED <<snap, log, lastApplied, logs, snapshot, behind>>
<1> DEFINE unexpected == snapshot /\ n # lastApplied[i] + 1
<1>1. /\ apc'[i] = IF unexpected THEN "apply" ELSE "check"
      /\ unexpected => err'[i]
      /\ apc[i] = "read"
      /\ delivered'[i] = n
      /\ msg'[i] = [index |-> n, cmd |-> c]
      /\ UNCHANGED <<snap, log, lastApplied, logs, snapshot, behind>>
  BY DEF ReadCommand, StateInv, TypeOK
<1>2. ~unexpected
  BY <1>1 DEF Noticed, NoticedOf, Pending
<1> QED
  BY <1>1, <1>2

\* A snapshot with a wrong index is noticed at once; the others are taken.
LEMMA ReadSnapshotQuiet ==
  ASSUME StateInv, ~Noticed', NEW i \in Servers, NEW j \in Servers,
         NEW n \in 0..MaxIndex, ReadSnapshot(i, snap[j], n)
  PROVE  /\ n = snap[j].index
         /\ snapshot
         /\ apc[i] = "read" /\ apc'[i] = "ingest"
         /\ log'[i] = snap[j].log
         /\ lastApplied'[i] = snap[j].index
         /\ delivered'[i] = snap[j].index
         /\ snap'[i] \in {snap[i], snap[j]}
         /\ UNCHANGED <<logs, snapshot, behind>>
<1>1. /\ apc'[i] = "ingest"
      /\ err'[i] = ~(n = snap[j].index)
      /\ delivered'[i] = snap[j].index
      /\ apc[i] = "read" /\ snapshot
      /\ snap'[i] \in {snap[i], snap[j]}
      /\ UNCHANGED <<logs, snapshot, behind>>
      /\ log'[i] = IF n = snap[j].index THEN snap[j].log ELSE log[i]
      /\ lastApplied'[i] = IF n = snap[j].index THEN n ELSE lastApplied[i]
  BY DEF ReadSnapshot, IngestSnap, Keep, StateInv, TypeOK
<1>2. n = snap[j].index
  BY <1>1 DEF Noticed, NoticedOf, Pending
<1> QED
  BY <1>1, <1>2

\* What Apply does to the server's log, with snapshots.
LEMMA ApplyEffect ==
  ASSUME StateInv, snapshot, NEW i \in Servers, Apply(i)
  PROVE  /\ msg[i].index \in Indexes /\ msg[i].cmd \in Commands
         /\ log'[i] = [log[i] EXCEPT ![msg[i].index] = msg[i].cmd]
         /\ lastApplied'[i] = msg[i].index
         /\ apc[i] = "apply" /\ apc'[i] \in {"read", "report"}
         /\ \/ UNCHANGED snap[i]
            \/ snap'[i] = [index |-> msg[i].index,
                           log |-> Encoded(log'[i], msg[i].index)]
         /\ UNCHANGED <<delivered, logs, snapshot, behind>>
<1>1. msg[i] \in Msgs
  BY DEF Apply, StateInv
<1>2. msg[i].index \in Indexes /\ msg[i].cmd \in Commands
  BY <1>1 DEF Msgs
<1>3. log'[i] = [log[i] EXCEPT ![msg[i].index] = msg[i].cmd]
  BY DEF Apply, StateInv, TypeOK
<1>4. /\ lastApplied'[i] = msg[i].index
      /\ apc[i] = "apply" /\ apc'[i] \in {"read", "report"}
      /\ UNCHANGED <<delivered, logs, snapshot, behind>>
  BY DEF Apply, Continue, Untouched, StateInv, TypeOK
<1>5. \/ UNCHANGED snap[i]
      \/ snap'[i] = [index |-> msg[i].index,
                     log |-> Encoded(log'[i], msg[i].index)]
  <2> DEFINE l == [log[i] EXCEPT ![msg[i].index] = msg[i].cmd]
  <2>1. \/ UNCHANGED snap
        \/ Keep(i, [index |-> msg[i].index, log |-> Encoded(l, msg[i].index)])
    BY DEF Apply
  <2>2. log'[i] = l
    BY <1>3
  <2> HIDE DEF l
  <2>3. CASE Keep(i, [index |-> msg[i].index,
                      log |-> Encoded(l, msg[i].index)])
    BY <2>2, <2>3 DEF Keep, StateInv, TypeOK
  <2> QED
    BY <2>1, <2>3
<1> QED
  BY <1>2, <1>3, <1>4, <1>5

\* Numbers and logs of a server are what their types say.
LEMMA ServerTypes ==
  ASSUME StateInv, NEW i \in Servers
  PROVE  /\ lastApplied[i] \in 0..MaxIndex /\ delivered[i] \in 0..MaxIndex
         /\ snap[i].index \in 0..MaxIndex /\ snap[i].log \in Logs
         /\ log[i] \in Logs /\ logs[i] \in Logs
         /\ apc[i] \in Pcs
BY DEF StateInv, TypeOK, Snaps

\* Every step keeps LogInv.
LEMMA LogStep ==
  ASSUME StateInv, SnapInv, LogInv, [Next]_vars
  PROVE  LogInv'
<1> SUFFICES ASSUME ~Noticed', NEW j \in Servers
             PROVE  LogOk(j)'
  BY DEF LogInv
<1>1. \A i \in Servers : LogOk(i)
  BY NoticedStable DEF LogInv
<1>2. CASE UNCHANGED <<delivered, snap, snapshot, apc, msg, log, lastApplied>>
  BY <1>1, <1>2 DEF LogOk, AtNext, Present
<1>3. ASSUME NEW i \in Servers, ServerStep(i)
      PROVE  LogOk(j)'
  <2>1. CASE j # i
    <3>1. UNCHANGED <<delivered[j], snap[j], apc[j], msg[j], log[j],
                      lastApplied[j], snapshot>>
      BY <1>3, <2>1, OthersSame, ServerFrame
    <3> QED
      BY <1>1, <3>1 DEF LogOk, AtNext, Present
  <2>2. ASSUME NEW n \in Indexes, NEW c \in Commands, ReadCommand(i, n, c),
               j = i
        PROVE  LogOk(i)'
    <3>1. /\ snapshot => n = lastApplied[i] + 1
          /\ apc[i] = "read" /\ apc'[i] = "check"
          /\ delivered'[i] = n
          /\ msg'[i] = [index |-> n, cmd |-> c]
          /\ UNCHANGED <<snap, log, lastApplied, snapshot>>
      BY <2>2, ReadCommandQuiet, Zenon
    <3> QED
      BY <1>1, <3>1 DEF LogOk, AtNext, Present
  <2>3. ASSUME NEW k \in Servers, delivered[i] < snap[k].index,
               ReadSnapshot(i, snap[k], snap[k].index), j = i
        PROVE  LogOk(i)'
    <3>1. /\ apc[i] = "read" /\ apc'[i] = "ingest" /\ snapshot
          /\ log'[i] = snap[k].log
          /\ lastApplied'[i] = snap[k].index
          /\ delivered'[i] = snap[k].index
          /\ snap'[i] \in {snap[i], snap[k]}
          /\ UNCHANGED snapshot
      BY <2>3, ReadSnapshotQuiet, ServerTypes
    <3>2. snap[i].index <= lastApplied[i] /\ delivered[i] = lastApplied[i]
      BY <1>1, <3>1 DEF LogOk, AtNext
    <3>3. snap'[i].index <= snap[k].index
      BY <2>3, <3>1, <3>2, ServerTypes
    <3> QED
      BY <3>1, <3>3 DEF LogOk, AtNext, SnapInv, Present
  <2>4. ASSUME NEW k \in Servers, NEW n \in 0..MaxIndex, n # snap[k].index,
               ReadSnapshot(i, snap[k], n)
        PROVE  FALSE
    BY <2>4, ReadSnapshotQuiet
  <2>5. ASSUME j = i, Apply(i)
        PROVE  LogOk(i)'
    <3>1. CASE snapshot
      <4>1. /\ msg[i].index = lastApplied[i] + 1
            /\ delivered[i] = lastApplied[i] + 1
            /\ snap[i].index <= lastApplied[i]
            /\ \A k \in Indexes : Present(log[i][k]) <=> k <= lastApplied[i]
        BY <1>1, <2>5, <3>1 DEF LogOk, AtNext, Apply
      <4>2. /\ msg[i].index \in Indexes /\ msg[i].cmd \in Commands
            /\ log'[i] = [log[i] EXCEPT ![msg[i].index] = msg[i].cmd]
            /\ lastApplied'[i] = msg[i].index
            /\ apc'[i] \in {"read", "report"}
            /\ \/ UNCHANGED snap[i]
               \/ snap'[i] = [index |-> msg[i].index,
                              log |-> Encoded(log'[i], msg[i].index)]
            /\ UNCHANGED <<delivered, snapshot>>
        BY <2>5, <3>1, ApplyEffect, Zenon
      <4>3. \A k \in Indexes :
              Present(log'[i][k]) <=> (k = msg[i].index \/ Present(log[i][k]))
        BY <4>2, ServerTypes, RaftTestAssumption DEF Logs, Present
      <4>4. \A k \in Indexes :
              k <= lastApplied[i] + 1 <=>
                (k = lastApplied[i] + 1 \/ k <= lastApplied[i])
        BY ServerTypes DEF Indexes
      <4>5. snap'[i].index <= lastApplied'[i]
        BY <4>1, <4>2, ServerTypes
      <4>6. \A k \in Indexes : Present(log'[i][k]) <=> k <= lastApplied'[i]
        BY <4>1, <4>2, <4>3, <4>4
      <4> QED
        BY <4>1, <4>2, <4>5, <4>6 DEF LogOk, AtNext
    <3>2. CASE ~snapshot
      BY <1>1, <2>5, <3>2
      DEF LogOk, AtNext, Apply, Untouched, StateInv, TypeOK, Present
    <3> QED
      BY <3>1, <3>2
  <2>6. CASE j = i /\ CheckLogsRPC(i)
    BY <1>1, <2>6
    DEF LogOk, AtNext, CheckLogsRPC, Untouched, StateInv, TypeOK, Present
  <2>7. CASE j = i /\ (IngestLogRPC(i) \/ ApplyErrRPC(i))
    BY <1>1, <2>7
    DEF LogOk, AtNext, IngestLogRPC, ApplyErrRPC, Continue, Untouched,
      StateInv, TypeOK, Present
  <2>8. CASE j = i /\ Die(i)
    BY <2>8 DEF Die, LogOk, StateInv, TypeOK
  <2>9. CASE j = i /\ Restart(i)
    <3>1. /\ apc'[i] \in {"boot", "read"}
          /\ lastApplied'[i] = snap[i].index
          /\ delivered'[i] = snap[i].index
          /\ log'[i] = IF snapshot /\ snap[i].index > 0 THEN snap[i].log
                                                       ELSE NoLog
          /\ UNCHANGED <<snap, snapshot>>
      BY <2>9 DEF Restart, NewRfsrv, StateInv, TypeOK
    <3>2. \A k \in Indexes : Present(log'[i][k]) <=> k <= snap[i].index
      <4>1. CASE snapshot /\ snap[i].index > 0
        BY <3>1, <4>1 DEF SnapInv
      <4>2. CASE ~(snapshot /\ snap[i].index > 0)
        <5>1. snap[i].index = 0
          BY <4>2, ServerTypes DEF SnapInv
        <5> QED
          BY <3>1, <4>2, <5>1 DEF NoLog, Present, Indexes
      <4> QED
        BY <4>1, <4>2
    <3>3. snap[i].index <= snap[i].index
      BY ServerTypes
    <3> QED
      BY <2>9, <3>1, <3>2, <3>3 DEF LogOk, AtNext
  <2> QED
    BY <1>3, <2>1, <2>2, <2>3, <2>4, <2>5, <2>6, <2>7, <2>8, <2>9, RaftCases
    DEF ServerStep, ApplierStep
<1> QED
  BY <1>2, <1>3, StepCases DEF RunLate, Aside, raftVars, srvVars
\* The history of late requests only grows.
LEMMA BehindGrows ==
  ASSUME StateInv, [Next]_vars
  PROVE  behind \subseteq behind'
BY StepCases, ServerFrame DEF RunLate, Aside

\* Every step notices the gaps it makes, unless it carries out a request that
\* was left behind.
LEMMA GapStep ==
  ASSUME StateInv, LogInv, GapNoticed, [Next]_vars
  PROVE  GapNoticed'
<1> SUFFICES ASSUME ~Noticed', NEW j \in Servers, NEW k \in Indexes, k > 1,
                    Present(logs'[j][k]), ~Present(logs'[j][k - 1])
             PROVE  \E kind \in {"check", "ingest"} : <<kind, j>> \in behind'
  BY Zenon DEF GapNoticed, Present
<1>1. ~Noticed
  BY NoticedStable
<1>2. k - 1 \in Indexes /\ k \in Int
  BY RaftTestAssumption DEF Indexes
<1>3. CASE logs'[j] = logs[j]
  BY <1>1, <1>3, BehindGrows DEF GapNoticed
<1>4. ASSUME NEW i \in Servers, ServerStep(i)
      PROVE  \E kind \in {"check", "ingest"} : <<kind, j>> \in behind'
  <2>1. CASE j # i
    BY <1>3, <1>4, <2>1, OthersSame
  <2>2. CASE j = i /\ CheckLogsRPC(i)
    <3>1. msg[i] \in Msgs /\ logs[i] \in Logs
      BY <2>2 DEF CheckLogsRPC, StateInv, TypeOK
    <3>2. msg[i].index \in Indexes /\ Present(msg[i].cmd)
      BY <3>1, RaftTestAssumption DEF Msgs, Present
    <3>3. logs'[i] = [logs[i] EXCEPT ![msg[i].index] = msg[i].cmd]
      BY <2>2 DEF CheckLogsRPC, CheckLogs, StateInv, TypeOK
    <3>4. PrevOk(i, msg[i])
      <4>1. apc'[i] = "apply" /\ (~PrevOk(i, msg[i]) => err'[i])
        BY <2>2 DEF CheckLogsRPC, StateInv, TypeOK
      <4> QED
        BY <4>1 DEF Noticed, NoticedOf, Pending
    <3>5. k - 1 # msg[i].index /\ ~Present(logs[i][k - 1])
      BY <1>2, <2>2, <3>1, <3>2, <3>3 DEF Logs
    <3>6. k # msg[i].index
      BY <1>2, <3>4, <3>5 DEF PrevOk
    <3>7. Present(logs[i][k])
      BY <2>2, <3>1, <3>3, <3>6 DEF Logs
    <3> QED
      BY <1>1, <2>2, <3>5, <3>7, BehindGrows DEF GapNoticed
  <2>3. CASE j = i /\ IngestLogRPC(i)
    <3>1. logs'[i] = log[i] /\ apc[i] # "off"
      BY <2>3 DEF IngestLogRPC, IngestLog, StateInv, TypeOK
    <3>2. k <= lastApplied[i] /\ ~(k - 1 <= lastApplied[i])
      BY <1>1, <1>2, <2>3, <3>1 DEF LogInv, LogOk
    <3> QED
      BY <1>2, <3>2, ServerTypes
  <2>4. CASE ApplierStep(i) /\ ~CheckLogsRPC(i) /\ ~IngestLogRPC(i)
    BY <1>3, <2>4 DEF ApplierStep, Apply, ApplyErrRPC
  <2>5. CASE RaftStep(i) \/ Die(i) \/ Restart(i)
    BY <1>3, <2>5, RaftCases DEF ReadCommand, ReadSnapshot, Die, Restart,
      NewRfsrv
  <2> QED
    BY <1>4, <2>1, <2>2, <2>3, <2>4, <2>5 DEF ServerStep, ApplierStep
<1>5. ASSUME NEW q \in late, RunLate(q)
      PROVE  \E kind \in {"check", "ingest"} : <<kind, j>> \in behind'
  <2>1. q.kind \in {"check", "ingest", "report"} /\ q.srv \in Servers
    BY DEF StateInv, TypeOK, Requests
  <2>2. CASE q.kind = "report" \/ q.srv # j
    <3>1. logs'[j] = logs[j]
      BY <1>5, <2>1, <2>2 DEF RunLate, CheckLogs, IngestLog, StateInv, TypeOK
    <3> QED
      BY <1>3, <3>1
  <2>3. CASE q.kind # "report" /\ q.srv = j
    BY <1>5, <2>1, <2>3 DEF RunLate
  <2> QED
    BY <2>2, <2>3
<1> QED
  BY <1>3, <1>4, <1>5, StepCases DEF Aside

-----------------------------------------------------------------------------
(* Entries that the tester knows. *)

\* Until an error is noticed and while nothing is left behind, the tester's
\* state is changed by the requests of running servers only.
LEMMA QuietStep ==
  ASSUME StateInv, [Next]_vars, ~Noticed', behind' = {}
  PROVE  /\ ~Noticed /\ behind = {}
         /\ \/ \E i \in Servers : ServerStep(i)
            \/ UNCHANGED <<delivered, snap, snapshot, srvVars, logs>>
<1>1. ~Noticed /\ behind = {}
  BY NoticedStable, BehindGrows
<1>2. ASSUME NEW q \in late, RunLate(q)
      PROVE  UNCHANGED <<delivered, snap, snapshot, srvVars, logs>>
  BY <1>2 DEF RunLate, raftVars
<1> QED
  BY <1>1, <1>2, StepCases DEF Aside

\* What a quiet step of a server does to the tester's view of it.
LEMMA LogsCases ==
  ASSUME StateInv, NEW i \in Servers, ServerStep(i), ~Noticed'
  PROVE  /\ CheckLogsRPC(i) =>
              /\ logs'[i] = [logs[i] EXCEPT ![msg[i].index] = msg[i].cmd]
              /\ msg[i].index \in Indexes /\ Present(msg[i].cmd)
              /\ ~Disagrees(msg[i])
         /\ IngestLogRPC(i) => logs'[i] = log[i]
         /\ CheckLogsRPC(i) \/ IngestLogRPC(i) \/ logs'[i] = logs[i]
<1>1. ASSUME CheckLogsRPC(i)
      PROVE  /\ logs'[i] = [logs[i] EXCEPT ![msg[i].index] = msg[i].cmd]
             /\ msg[i].index \in Indexes /\ Present(msg[i].cmd)
             /\ ~Disagrees(msg[i])
  <2>1. msg[i] \in Msgs
    BY <1>1 DEF CheckLogsRPC, StateInv
  <2>2. msg[i].index \in Indexes /\ Present(msg[i].cmd)
    BY <2>1, RaftTestAssumption DEF Msgs, Present
  <2>3. logs'[i] = [logs[i] EXCEPT ![msg[i].index] = msg[i].cmd]
    BY <1>1 DEF CheckLogsRPC, CheckLogs, StateInv, TypeOK
  <2>4. apc'[i] = "apply" /\ (Disagrees(msg[i]) => err'[i])
    BY <1>1 DEF CheckLogsRPC, StateInv, TypeOK
  <2>5. ~Disagrees(msg[i])
    BY <2>4 DEF Noticed, NoticedOf, Pending
  <2> QED
    BY <2>2, <2>3, <2>5
<1>2. IngestLogRPC(i) => logs'[i] = log[i]
  BY DEF IngestLogRPC, IngestLog, StateInv, TypeOK
<1>3. Apply(i) \/ ApplyErrRPC(i) \/ Die(i) \/ Restart(i) => UNCHANGED logs
  BY DEF Apply, ApplyErrRPC, Die, Restart,
      NewRfsrv
<1>4. RaftStep(i) => UNCHANGED logs
  BY RaftCases DEF ReadCommand, ReadSnapshot
<1> QED
  BY <1>1, <1>2, <1>3, <1>4 DEF ServerStep, ApplierStep

\* A snapshot is never replaced by an older one.
LEMMA SnapGrows ==
  ASSUME StateInv, LogInv, ~Noticed, ~Noticed', NEW i \in Servers,
         ServerStep(i)
  PROVE  snap[i].index <= snap'[i].index
<1>1. LogOk(i)
  BY DEF LogInv
<1>2. CASE snap'[i] = snap[i]
  BY <1>2, ServerTypes
<1>3. ASSUME NEW j \in Servers, delivered[i] < snap[j].index,
             ReadSnapshot(i, snap[j], snap[j].index)
      PROVE  snap[i].index <= snap'[i].index
  <2>1. /\ snapshot
        /\ apc[i] = "read"
        /\ snap'[i] \in {snap[i], snap[j]}
    BY <1>3, ReadSnapshotQuiet, ServerTypes
  <2>2. snap[i].index <= lastApplied[i] /\ delivered[i] = lastApplied[i]
    BY <1>1, <2>1 DEF LogOk, AtNext
  <2> QED
    BY <1>3, <2>1, <2>2, ServerTypes
<1>4. ASSUME NEW j \in Servers, NEW n \in 0..MaxIndex, n # snap[j].index,
             ReadSnapshot(i, snap[j], n)
      PROVE  FALSE
  BY <1>4, ReadSnapshotQuiet
<1>5. CASE Apply(i)
  <2>1. CASE snapshot
    <3>1. snap[i].index <= lastApplied[i] /\ msg[i].index = lastApplied[i] + 1
      BY <1>1, <1>5, <2>1 DEF LogOk, AtNext, Apply
    <3>2. \/ UNCHANGED snap[i]
          \/ snap'[i] = [index |-> msg[i].index,
                         log |-> Encoded(log'[i], msg[i].index)]
      BY <1>5, <2>1, ApplyEffect, Zenon
    <3>3. snap'[i] = snap[i] \/ snap'[i].index = lastApplied[i] + 1
      BY <3>1, <3>2
    <3> QED
      BY <1>2, <3>1, <3>3, ServerTypes
  <2> QED
    BY <1>2, <1>5, <2>1 DEF Apply
<1> QED
  BY <1>2, <1>3, <1>4, <1>5, RaftCases
  DEF ServerStep, ApplierStep, ReadCommand, CheckLogsRPC, IngestLogRPC,
    ApplyErrRPC, Die, Restart, NewRfsrv, raftVars
\* What some server keeps, some server keeps.
LEMMA KeptStable ==
  ASSUME StateInv, LogInv, [Next]_vars, ~Noticed', behind' = {},
         NEW n \in 0..MaxIndex, Kept(n)
  PROVE  Kept(n)'
<1>1. ~Noticed
  BY QuietStep
<1>2. PICK h \in Servers :
        n <= snap[h].index /\ \A k \in Indexes : k <= n => Present(logs[h][k])
  BY DEF Kept
<1>3. CASE UNCHANGED <<snap[h], logs[h]>>
  BY <1>2, <1>3 DEF Kept, Present
<1>4. ASSUME ServerStep(h)
      PROVE  Kept(n)'
  <2>1. n <= snap'[h].index
    <3>1. StateInv'
      BY StateStep
    <3>2. snap'[h].index \in Int
      BY <3>1 DEF StateInv, TypeOK, Snaps
    <3> QED
      BY <1>1, <1>2, <1>4, <3>2, SnapGrows, ServerTypes
  <2>2. ASSUME NEW k \in Indexes, k <= n
        PROVE  Present(logs'[h][k])
    <3>1. Present(logs[h][k])
      BY <1>2, <2>2
    <3>2. CASE IngestLogRPC(h)
      <4>1. apc[h] # "off"
        BY <3>2 DEF IngestLogRPC
      <4>2. snap[h].index <= lastApplied[h]
            /\ (k <= lastApplied[h] => Present(log[h][k]))
        BY <1>1, <4>1 DEF LogInv, LogOk
      <4>3. k <= lastApplied[h]
        BY <1>2, <2>2, <4>2, ServerTypes DEF Indexes
      <4> QED
        BY <1>4, <3>2, <4>2, <4>3, LogsCases
    <3>3. CASE CheckLogsRPC(h)
      BY <1>4, <3>1, <3>3, LogsCases, ServerTypes DEF Logs
    <3> QED
      BY <1>4, <3>1, <3>2, <3>3, LogsCases
  <2> QED
    BY <2>1, <2>2 DEF Kept, Present
<1> QED
  BY <1>3, <1>4, OthersSame, QuietStep

\* Every step keeps KeptInv.
LEMMA KeptStep ==
  ASSUME StateInv, SnapInv, LogInv, KeptInv, [Next]_vars
  PROVE  KeptInv'
<1> SUFFICES ASSUME ~Noticed', behind' = {}, NEW j \in Servers
             PROVE  KeptOk(j)'
  BY DEF KeptInv
<1>1. ~Noticed /\ behind = {}
  BY QuietStep
<1>2. \A h \in Servers : LogOk(h) /\ KeptOk(h)
  BY <1>1 DEF LogInv, KeptInv
<1> DEFINE KeptNext(n) ==
             \E h \in Servers :
               /\ n <= snap'[h].index
               /\ \A k \in Indexes : k <= n => Present(logs'[h][k])
<1>3. ASSUME NEW n \in 0..MaxIndex, Kept(n)
      PROVE  KeptNext(n)
  <2>1. Kept(n)'
    BY <1>3, KeptStable
  <2> QED
    BY <2>1 DEF Kept, Present
<1>4. \A h \in Servers :
        /\ KeptNext(snap[h].index)
        /\ apc[h] \in {"boot", "ingest"} => KeptNext(lastApplied[h])
  BY <1>2, <1>3, ServerTypes DEF KeptOk
<1> SUFFICES
      /\ KeptNext(snap'[j].index)
      /\ apc'[j] \in {"boot", "ingest"} => KeptNext(lastApplied'[j])
      /\ apc'[j] \in {"read", "check", "apply", "report"} =>
           \A k \in Indexes : k <= lastApplied'[j] => Present(logs'[j][k])
      /\ apc'[j] = "apply" => logs'[j][msg'[j].index] = msg'[j].cmd
  BY DEF KeptOk, Kept, Reporting, Present
<1>5. CASE UNCHANGED <<snap[j], apc[j], lastApplied[j], logs[j], msg[j]>>
  BY <1>2, <1>4, <1>5 DEF KeptOk, Reporting
<1>6. ASSUME ServerStep(j)
      PROVE  /\ KeptNext(snap'[j].index)
             /\ apc'[j] \in {"boot", "ingest"} => KeptNext(lastApplied'[j])
             /\ apc'[j] \in {"read", "check", "apply", "report"} =>
                  \A k \in Indexes :
                    k <= lastApplied'[j] => Present(logs'[j][k])
             /\ apc'[j] = "apply" => logs'[j][msg'[j].index] = msg'[j].cmd
  <2>1. ASSUME NEW n \in Indexes, NEW c \in Commands, ReadCommand(j, n, c)
        PROVE  /\ apc[j] = "read" /\ apc'[j] = "check"
               /\ UNCHANGED <<snap, lastApplied, logs>>
    BY <2>1, ReadCommandQuiet, Zenon
  <2>2. ASSUME NEW i \in Servers, NEW n \in 0..MaxIndex,
               ReadSnapshot(j, snap[i], n)
        PROVE  /\ apc'[j] = "ingest"
               /\ lastApplied'[j] = snap[i].index
               /\ snap'[j] \in {snap[j], snap[i]}
    BY <2>2, ReadSnapshotQuiet, Zenon
  <2>3. CASE RaftStep(j)
    <3>1. CASE \E n \in Indexes, c \in Commands : ReadCommand(j, n, c)
      BY <1>2, <1>4, <2>1, <3>1 DEF KeptOk, Reporting
    <3>2. CASE \E i \in Servers, n \in 0..MaxIndex : ReadSnapshot(j, snap[i], n)
      BY <1>4, <2>2, <3>2
    <3> QED
      BY <2>3, <3>1, <3>2, RaftCases, ServerTypes
  <2>4. CASE CheckLogsRPC(j)
    <3>1. /\ apc[j] = "check" /\ apc'[j] = "apply"
          /\ UNCHANGED <<snap, lastApplied, msg>>
      BY <2>4 DEF CheckLogsRPC, Untouched, StateInv, TypeOK
    <3>2. /\ logs'[j] = [logs[j] EXCEPT ![msg[j].index] = msg[j].cmd]
          /\ msg[j].index \in Indexes /\ Present(msg[j].cmd)
      BY <1>6, <2>4, LogsCases
    <3>3. \A k \in Indexes : k <= lastApplied[j] => Present(logs'[j][k])
      BY <1>2, <3>1, <3>2, ServerTypes DEF KeptOk, Reporting, Logs
    <3>4. logs'[j][msg[j].index] = msg[j].cmd
      BY <3>2, ServerTypes DEF Logs
    <3> QED
      BY <1>4, <3>1, <3>3, <3>4
  <2>5. CASE Apply(j)
    <3>1. apc[j] = "apply" /\ apc'[j] \in {"read", "report"} /\ UNCHANGED logs
      BY <2>5 DEF Apply, Continue, StateInv, TypeOK
    <3>2. CASE snapshot
      <4>1. /\ msg[j].index \in Indexes /\ msg[j].cmd \in Commands
            /\ lastApplied'[j] = msg[j].index
            /\ \/ UNCHANGED snap[j]
               \/ snap'[j] = [index |-> msg[j].index,
                              log |-> Encoded(log'[j], msg[j].index)]
        BY <2>5, <3>2, ApplyEffect, Zenon
      <4>2. msg[j].index = lastApplied[j] + 1
        BY <1>2, <3>1, <3>2 DEF LogOk, AtNext
      <4>3. Present(logs[j][msg[j].index])
        BY <1>2, <3>1, <4>1, RaftTestAssumption DEF KeptOk, Present
      <4>4. \A k \in Indexes : k <= msg[j].index => Present(logs'[j][k])
        <5>1. \A k \in Indexes :
                k <= lastApplied[j] + 1 =>
                  k <= lastApplied[j] \/ k = lastApplied[j] + 1
          BY ServerTypes DEF Indexes
        <5>2. \A k \in Indexes : k <= lastApplied[j] => Present(logs[j][k])
          BY <1>2, <3>1 DEF KeptOk, Reporting
        <5> QED
          BY <3>1, <4>2, <4>3, <5>1, <5>2
      <4>5. KeptNext(snap'[j].index)
        <5>1. CASE snap'[j] = [index |-> msg[j].index,
                               log |-> Encoded(log'[j], msg[j].index)]
          <6>1. snap'[j].index = msg[j].index
            BY <5>1
          <6>2. msg[j].index <= snap'[j].index
            BY <4>1, <6>1 DEF Indexes
          <6> QED
            BY <4>4, <6>1, <6>2
        <5> QED
          BY <1>4, <4>1, <5>1
      <4> QED
        BY <3>1, <4>1, <4>4, <4>5
    <3>3. CASE ~snapshot
      <4>1. UNCHANGED <<snap, lastApplied>>
        BY <2>5, <3>3 DEF Apply
      <4> QED
        BY <1>2, <1>4, <3>1, <4>1 DEF KeptOk, Reporting
    <3> QED
      BY <3>2, <3>3
  <2>6. CASE IngestLogRPC(j)
    <3>1. /\ apc[j] # "off" /\ apc'[j] \in {"read", "report"}
          /\ logs'[j] = log[j]
          /\ UNCHANGED <<snap, lastApplied>>
      BY <2>6 DEF IngestLogRPC, IngestLog, Continue, StateInv, TypeOK
    <3> QED
      BY <1>2, <1>4, <3>1 DEF LogOk
  <2>7. CASE ApplyErrRPC(j)
    <3>1. /\ apc[j] = "report" /\ apc'[j] = "read"
          /\ UNCHANGED <<logs, snap, lastApplied>>
      BY <2>7 DEF ApplyErrRPC, StateInv, TypeOK
    <3> QED
      BY <1>2, <1>4, <3>1 DEF KeptOk, Reporting
  <2>8. CASE Die(j)
    <3>1. apc'[j] = "off" /\ UNCHANGED snap
      BY <2>8 DEF Die, raftVars, StateInv, TypeOK
    <3> QED
      BY <1>4, <3>1
  <2>9. CASE Restart(j)
    <3>1. /\ \/ apc'[j] = "boot"
             \/ apc'[j] = "read" /\ ~(snapshot /\ snap[j].index > 0)
          /\ lastApplied'[j] = snap[j].index
          /\ UNCHANGED snap
      BY <2>9 DEF Restart, NewRfsrv, StateInv, TypeOK
    <3>2. apc'[j] = "read" => snap[j].index = 0
      BY <3>1, ServerTypes DEF SnapInv
    <3>3. \A k \in Indexes : ~(k <= 0)
      BY DEF Indexes
    <3> QED
      BY <1>4, <3>1, <3>2, <3>3
  <2> QED
    BY <1>6, <2>3, <2>4, <2>5, <2>6, <2>7, <2>8, <2>9
    DEF ServerStep, ApplierStep
<1>7. ASSUME NEW i \in Servers, ServerStep(i), i # j
      PROVE  UNCHANGED <<snap[j], apc[j], lastApplied[j], logs[j], msg[j]>>
  BY <1>7, OthersSame
<1> QED
  BY <1>5, <1>6, <1>7, QuietStep DEF srvVars
\* The tester knows every entry of a snapshot or of a running server's log
\* from somebody.
LEMMA Witnessed ==
  ASSUME StateInv, SnapInv, NEW j \in Servers, LogOk(j), KeptOk(j),
         NEW k \in Indexes,
         \/ Present(snap[j].log[k])
         \/ apc[j] # "off" /\ Present(log[j][k])
  PROVE  \E h \in Servers : Present(logs[h][k])
<1>1. CASE Present(snap[j].log[k])
  BY <1>1 DEF SnapInv, KeptOk, Kept
<1>2. CASE apc[j] # "off" /\ Present(log[j][k])
  <2>1. k <= lastApplied[j]
    BY <1>2 DEF LogOk
  <2>2. Reporting(j) \/ apc[j] \in {"boot", "ingest"}
    BY <1>2, ServerTypes DEF Reporting, Pcs
  <2> QED
    BY <2>1, <2>2 DEF KeptOk, Kept
<1> QED
  BY <1>1, <1>2

\* Every step keeps AgreeInv.
LEMMA AgreeStep ==
  ASSUME StateInv, SnapInv, LogInv, KeptInv, AgreeInv, [Next]_vars
  PROVE  AgreeInv'
<1> SUFFICES ASSUME ~Noticed', behind' = {}, NEW a \in Servers,
                    NEW b \in Servers, NEW k \in Indexes
             PROVE  AgreeAt(a, b, k)'
  BY DEF AgreeInv
<1>1. ~Noticed /\ behind = {}
  BY QuietStep
<1>2. \A h \in Servers : LogOk(h) /\ KeptOk(h)
  BY <1>1 DEF LogInv, KeptInv
<1>3. \A g, h \in Servers : AgreeAt(g, h, k)
  BY <1>1 DEF AgreeInv
<1>4. \A h \in Servers :
        \/ Present(snap[h].log[k])
        \/ apc[h] # "off" /\ Present(log[h][k])
        => \E g \in Servers : Present(logs[g][k])
  BY <1>2, Witnessed
<1>5. CASE UNCHANGED <<snap, srvVars, logs>>
  BY <1>3, <1>5 DEF AgreeAt, Present, srvVars
<1>6. ASSUME NEW i \in Servers, ServerStep(i)
      PROVE  AgreeAt(a, b, k)'
  <2>1. ASSUME NEW j \in Servers, j # i
        PROVE  UNCHANGED <<snap[j], apc[j], log[j], logs[j]>>
    BY <1>6, <2>1, OthersSame
  <2>2. ASSUME logs'[i] = logs[i],
               Present(snap'[i].log[k]) =>
                 \E h \in Servers :
                   \/ snap'[i].log[k] = snap[h].log[k]
                   \/ snap'[i].log[k] = logs[h][k]
                   \/ apc[h] # "off" /\ snap'[i].log[k] = log[h][k],
               apc'[i] # "off" /\ Present(log'[i][k]) =>
                 \E h \in Servers :
                   \/ log'[i][k] = snap[h].log[k]
                   \/ log'[i][k] = logs[h][k]
                   \/ apc[h] # "off" /\ log'[i][k] = log[h][k]
        PROVE  AgreeAt(a, b, k)'
    BY <1>3, <2>1, <2>2 DEF AgreeAt, Present
  <2>3. CASE RaftStep(i)
    <3>1. ASSUME NEW n \in Indexes, NEW c \in Commands, ReadCommand(i, n, c)
          PROVE  apc[i] # "off" /\ UNCHANGED <<snap, log, logs>>
      BY <3>1 DEF ReadCommand
    <3>2. ASSUME NEW j \in Servers, NEW n \in 0..MaxIndex,
                 ReadSnapshot(i, snap[j], n)
          PROVE  /\ log'[i] = snap[j].log
                 /\ snap'[i] \in {snap[i], snap[j]}
                 /\ UNCHANGED logs
      BY <3>2, ReadSnapshotQuiet, Zenon
    <3>3. CASE \E n \in Indexes, c \in Commands : ReadCommand(i, n, c)
      BY <2>2, <3>1, <3>3
    <3>4. ASSUME NEW j \in Servers, NEW n \in 0..MaxIndex,
                 ReadSnapshot(i, snap[j], n)
          PROVE  AgreeAt(a, b, k)'
      BY <2>2, <3>2, <3>4
    <3> QED
      BY <2>3, <3>3, <3>4, RaftCases, ServerTypes
  <2>4. CASE CheckLogsRPC(i)
    <3>1. /\ logs'[i] = [logs[i] EXCEPT ![msg[i].index] = msg[i].cmd]
          /\ msg[i].index \in Indexes /\ Present(msg[i].cmd)
          /\ ~Disagrees(msg[i])
      BY <1>6, <2>4, LogsCases
    <3>2. apc[i] # "off" /\ UNCHANGED <<snap, log>>
      BY <2>4 DEF CheckLogsRPC
    <3>3. CASE k # msg[i].index
      <4>1. logs'[i][k] = logs[i][k]
        BY <3>1, <3>3, ServerTypes DEF Logs
      <4> QED
        BY <1>3, <2>1, <3>2, <4>1 DEF AgreeAt, Present
    <3>4. CASE k = msg[i].index
      <4>1. logs'[i][k] = msg[i].cmd
        BY <3>1, <3>4, ServerTypes DEF Logs
      <4>2. \A h \in Servers : Present(logs[h][k]) => logs[h][k] = msg[i].cmd
        BY <3>1, <3>4 DEF Disagrees
      <4>3. \A h \in Servers :
              /\ Present(snap[h].log[k]) => snap[h].log[k] = msg[i].cmd
              /\ apc[h] # "off" /\ Present(log[h][k]) =>
                   log[h][k] = msg[i].cmd
        BY <1>3, <1>4, <4>2 DEF AgreeAt
      <4>4. \A h \in Servers :
              Present(logs'[h][k]) => logs'[h][k] = msg[i].cmd
        BY <2>1, <4>1, <4>2
      <4> QED
        BY <2>1, <3>2, <4>3, <4>4 DEF AgreeAt, Present
    <3> QED
      BY <3>3, <3>4
  <2>5. CASE Apply(i)
    <3>1. CASE snapshot
      <4>1. /\ msg[i].index \in Indexes
            /\ log'[i] = [log[i] EXCEPT ![msg[i].index] = msg[i].cmd]
            /\ lastApplied'[i] = msg[i].index
            /\ apc[i] = "apply" /\ apc'[i] \in {"read", "report"}
            /\ \/ UNCHANGED snap[i]
               \/ snap'[i] = [index |-> msg[i].index,
                              log |-> Encoded(log'[i], msg[i].index)]
            /\ UNCHANGED logs
        BY <2>5, <3>1, ApplyEffect, Zenon
      <4>2. \/ log'[i][k] = log[i][k]
            \/ log'[i][k] = logs[i][k]
        <5>1. logs[i][msg[i].index] = msg[i].cmd
          BY <1>2, <4>1 DEF KeptOk
        <5> QED
          BY <4>1, <5>1, ServerTypes DEF Logs
      <4>3. k <= msg[i].index => Present(log'[i][k])
        <5>1. LogOk(i)'
          BY LogStep DEF LogInv
        <5> QED
          BY <4>1, <5>1 DEF LogOk, Present
      <4>4. Present(snap'[i].log[k]) =>
              snap'[i].log[k] \in {snap[i].log[k], log'[i][k]}
        <5>1. CASE snap'[i] = [index |-> msg[i].index,
                               log |-> Encoded(log'[i], msg[i].index)]
          <6>1. snap'[i].log[k] =
                  IF k > msg[i].index THEN NoEntry
                  ELSE IF Present(log'[i][k]) THEN log'[i][k] ELSE Nil
            BY <5>1 DEF Encoded
          <6>2. ~(k > msg[i].index) => k <= msg[i].index
            BY <4>1 DEF Indexes
          <6> QED
            BY <4>3, <6>1, <6>2 DEF Present
        <5> QED
          BY <4>1, <5>1
      <4> QED
        BY <2>2, <4>1, <4>2, <4>4
    <3>2. CASE ~snapshot
      BY <2>2, <2>5, <3>2 DEF Apply
    <3> QED
      BY <3>1, <3>2
  <2>6. CASE IngestLogRPC(i)
    <3>1. logs'[i] = log[i] /\ apc[i] # "off" /\ UNCHANGED <<snap, log>>
      BY <2>6 DEF IngestLogRPC, IngestLog, StateInv, TypeOK
    <3>2. apc'[i] # "off" /\ \A h \in Servers : apc'[h] # "off" => apc[h] # "off"
      BY <2>1, <3>1, <2>6
      DEF IngestLogRPC, Continue, StateInv, TypeOK
    <3>3. ASSUME Present(log[i][k])
          PROVE  \A h \in Servers :
                   /\ Present(logs[h][k]) => logs[h][k] = log[i][k]
                   /\ Present(snap[h].log[k]) => snap[h].log[k] = log[i][k]
                   /\ apc[h] # "off" /\ Present(log[h][k]) =>
                        log[h][k] = log[i][k]
      <4>1. PICK g \in Servers : Present(logs[g][k])
        BY <1>4, <3>1, <3>3
      <4>2. logs[g][k] = log[i][k]
        BY <1>3, <3>1, <3>3, <4>1 DEF AgreeAt
      <4> QED
        BY <1>3, <3>1, <4>1, <4>2 DEF AgreeAt
    <3>4. CASE a = i
      BY <2>1, <3>1, <3>2, <3>3, <3>4 DEF AgreeAt, Present
    <3>5. CASE a # i
      BY <1>3, <2>1, <3>1, <3>2, <3>3, <3>5 DEF AgreeAt, Present
    <3> QED
      BY <3>4, <3>5
  <2>7. CASE ApplyErrRPC(i)
    BY <2>2, <2>7 DEF ApplyErrRPC
  <2>8. CASE Die(i)
    BY <2>2, <2>8 DEF Die, raftVars, StateInv, TypeOK
  <2>9. CASE Restart(i)
    <3>1. /\ log'[i][k] = snap[i].log[k] \/ ~Present(log'[i][k])
          /\ UNCHANGED <<snap, logs>>
      BY <2>9 DEF Restart, NewRfsrv, NoLog, Present, StateInv, TypeOK
    <3> QED
      BY <2>2, <3>1
  <2> QED
    BY <1>6, <2>3, <2>4, <2>5, <2>6, <2>7, <2>8, <2>9
    DEF ServerStep, ApplierStep
<1> QED
  BY <1>5, <1>6, QuietStep
-----------------------------------------------------------------------------
(* A correct library. *)

\* Prefixes of the committed log.
LEMMA PrefixFacts ==
  /\ Prefix(0) = NoLog
  /\ \A n \in 0..MaxIndex : \A k \in Indexes :
       Present(Prefix(n)[k]) <=> k <= n
  /\ \A n \in Indexes :
       /\ [Prefix(n - 1) EXCEPT ![n] = Chosen[n]] = Prefix(n)
       /\ Encoded(Prefix(n), n) = Prefix(n)
<1>1. \A k \in Indexes : Chosen[k] \in Commands /\ k \in Int /\ ~(k <= 0)
  BY RaftTestAssumption DEF Indexes
<1>2. Prefix(0) = NoLog
  BY <1>1 DEF Prefix, NoLog
<1>3. \A n \in 0..MaxIndex : \A k \in Indexes :
        Present(Prefix(n)[k]) <=> k <= n
  BY <1>1, RaftTestAssumption DEF Prefix, Present
<1>4. ASSUME NEW n \in Indexes
      PROVE  [Prefix(n - 1) EXCEPT ![n] = Chosen[n]] = Prefix(n)
  <2>1. \A k \in Indexes : k <= n <=> (k <= n - 1 \/ k = n)
    BY <1>1
  <2>2. ASSUME NEW k \in Indexes
        PROVE  [Prefix(n - 1) EXCEPT ![n] = Chosen[n]][k] = Prefix(n)[k]
    BY <1>1, <2>1 DEF Prefix
  <2> QED
    BY <2>2 DEF Prefix
<1>5. ASSUME NEW n \in Indexes
      PROVE  Encoded(Prefix(n), n) = Prefix(n)
  <2>1. ASSUME NEW k \in Indexes
        PROVE  Encoded(Prefix(n), n)[k] = Prefix(n)[k]
    BY <1>1, RaftTestAssumption DEF Encoded, Prefix, Present
  <2> QED
    BY <2>1 DEF Encoded, Prefix
<1> QED
  BY <1>2, <1>3, <1>4, <1>5

\* A prefix of what is committed is right.
LEMMA PrefixRight ==
  ASSUME StateInv, NEW n \in 0..MaxIndex, n <= committed
  PROVE  Right(Prefix(n))
BY DEF Prefix, Right, Present, StateInv, TypeOK, Indexes

\* What a correct library hands over is expected by the server.
LEMMA DeliverRight ==
  ASSUME StateInv, SnapInv, NEW i \in Servers, RaftStep(i),
         wrong = 0, wrong' = 0, \A j \in Servers : ServerRight(j)
  PROVE  /\ apc[i] = "read"
         /\ err'[i] = FALSE
         /\ UNCHANGED <<logs, applyErr, late, behind>>
         /\ \/ \E n \in Indexes :
                 /\ n = delivered[i] + 1
                 /\ n <= committed
                 /\ apc'[i] = "check"
                 /\ delivered'[i] = n
                 /\ msg'[i] = [index |-> n, cmd |-> Chosen[n]]
                 /\ UNCHANGED <<snap[i], log[i], lastApplied[i]>>
            \/ \E j \in Servers :
                 /\ apc'[i] = "ingest"
                 /\ delivered'[i] = snap[j].index
                 /\ lastApplied'[i] = snap[j].index
                 /\ log'[i] = snap[j].log
                 /\ snap'[i] \in {snap[i], snap[j]}
<1>1. ~DeliverWrong(i) /\ ~DeliverWrongSnapshot(i)
  BY DEF DeliverWrong, DeliverWrongSnapshot
<1>2. ASSUME NEW n \in Indexes, NEW c \in Commands, Expected(i, n, c),
             ReadCommand(i, n, c)
      PROVE  /\ apc[i] = "read"
             /\ err'[i] = FALSE
             /\ UNCHANGED <<logs, applyErr, late, behind>>
             /\ n = delivered[i] + 1
             /\ n <= committed
             /\ apc'[i] = "check"
             /\ delivered'[i] = n
             /\ msg'[i] = [index |-> n, cmd |-> Chosen[n]]
             /\ UNCHANGED <<snap[i], log[i], lastApplied[i]>>
  <2>1. apc[i] = "read"
    BY <1>2 DEF ReadCommand
  <2>2. ~(snapshot /\ n # lastApplied[i] + 1)
    BY <1>2, <2>1 DEF Expected, ServerRight
  <2> QED
    BY <1>2, <2>1, <2>2 DEF ReadCommand, Expected, StateInv, TypeOK
<1>3. ASSUME NEW j \in Servers, ReadSnapshot(i, snap[j], snap[j].index)
      PROVE  /\ apc[i] = "read"
             /\ err'[i] = FALSE
             /\ UNCHANGED <<logs, applyErr, late, behind>>
             /\ apc'[i] = "ingest"
             /\ delivered'[i] = snap[j].index
             /\ lastApplied'[i] = snap[j].index
             /\ log'[i] = snap[j].log
             /\ snap'[i] \in {snap[i], snap[j]}
  BY <1>3 DEF ReadSnapshot, IngestSnap, Keep, StateInv, TypeOK
<1>4. CASE Deliver(i)
  BY <1>2, <1>4 DEF Deliver
<1>5. CASE DeliverSnapshot(i)
  BY <1>3, <1>5 DEF DeliverSnapshot
<1> QED
  BY <1>1, <1>4, <1>5 DEF RaftStep

\* A step of a server that works with a correct library.
LEMMA ServerRightStep ==
  ASSUME StateInv, SnapInv, NEW i \in Servers, ServerStep(i),
         wrong = 0, wrong' = 0, \A j \in Servers : ServerRight(j)
  PROVE  ServerRight(i)'
<1>1. UNCHANGED <<committed, snapshot>>
  BY ServerFrame
<1>2. ServerRight(i)
  OBVIOUS
<1>3. committed \in 0..MaxIndex /\ snapshot \in BOOLEAN
  BY DEF StateInv, TypeOK
<1>4. CASE RaftStep(i)
  <2>1. CASE \E n \in Indexes :
               /\ n = delivered[i] + 1
               /\ n <= committed
               /\ apc'[i] = "check"
               /\ delivered'[i] = n
               /\ msg'[i] = [index |-> n, cmd |-> Chosen[n]]
               /\ UNCHANGED <<snap[i], log[i], lastApplied[i]>>
    <3>1. apc[i] = "read"
      BY <1>4, DeliverRight
    <3>2. snapshot => delivered[i] = lastApplied[i]
      BY <1>2, <3>1 DEF ServerRight
    <3> QED
      BY <1>1, <1>2, <2>1, <3>2 DEF ServerRight, RightMsg, Prefix
  <2>2. CASE \E j \in Servers :
               /\ apc'[i] = "ingest"
               /\ delivered'[i] = snap[j].index
               /\ lastApplied'[i] = snap[j].index
               /\ log'[i] = snap[j].log
               /\ snap'[i] \in {snap[i], snap[j]}
    <3>1. \A j \in Servers : /\ snap[j].index <= committed
                             /\ snap[j].log = Prefix(snap[j].index)
      BY DEF ServerRight
    <3>2. /\ delivered'[i] <= committed
          /\ snap'[i].index <= committed
          /\ snap'[i].log = Prefix(snap'[i].index)
          /\ lastApplied'[i] <= committed
          /\ log'[i] = Prefix(lastApplied'[i])
          /\ delivered'[i] = lastApplied'[i]
          /\ apc'[i] = "ingest"
      BY <2>2, <3>1
    <3> QED
      BY <1>1, <3>2 DEF ServerRight, Prefix
  <2> QED
    BY <1>4, <2>1, <2>2, DeliverRight
<1>5. CASE Apply(i)
  <2>1. CASE snapshot
    <3>1. /\ msg[i].index \in Indexes
          /\ log'[i] = [log[i] EXCEPT ![msg[i].index] = msg[i].cmd]
          /\ lastApplied'[i] = msg[i].index
          /\ apc[i] = "apply" /\ apc'[i] \in {"read", "report"}
          /\ \/ UNCHANGED snap[i]
             \/ snap'[i] = [index |-> msg[i].index,
                            log |-> Encoded(log'[i], msg[i].index)]
          /\ UNCHANGED delivered
      BY <1>5, <2>1, ApplyEffect, Zenon
    <3>2. /\ msg[i].index <= committed
          /\ msg[i].cmd = Chosen[msg[i].index]
          /\ msg[i].index = delivered[i]
          /\ delivered[i] = lastApplied[i] + 1
          /\ log[i] = Prefix(lastApplied[i])
      BY <1>2, <2>1, <3>1 DEF ServerRight, RightMsg
    <3>3. lastApplied[i] = msg[i].index - 1
      BY <3>2, ServerTypes
    <3>4. log'[i] = Prefix(msg[i].index)
      BY <3>1, <3>2, <3>3, PrefixFacts
    <3>5. /\ snap'[i].index <= committed
          /\ snap'[i].log = Prefix(snap'[i].index)
      <4>1. CASE snap'[i] = [index |-> msg[i].index,
                             log |-> Encoded(log'[i], msg[i].index)]
        BY <3>1, <3>2, <3>4, <4>1, PrefixFacts
      <4> QED
        BY <1>2, <3>1, <4>1 DEF ServerRight
    <3> QED
      BY <1>1, <3>1, <3>2, <3>4, <3>5 DEF ServerRight, Prefix
  <2>2. CASE ~snapshot
    <3>1. /\ apc'[i] \in {"read", "report"}
          /\ UNCHANGED <<delivered, snap, log, lastApplied>>
      BY <1>5, <2>2 DEF Apply, Continue, Untouched, StateInv, TypeOK
    <3> QED
      BY <1>1, <1>2, <2>2, <3>1 DEF ServerRight, Prefix
  <2> QED
    BY <2>1, <2>2
<1>6. CASE CheckLogsRPC(i)
  <2>1. /\ apc[i] = "check" /\ apc'[i] = "apply"
        /\ UNCHANGED <<delivered, snap, log, lastApplied, msg>>
    BY <1>6 DEF CheckLogsRPC, Untouched, StateInv, TypeOK
  <2> QED
    BY <1>1, <1>2, <2>1 DEF ServerRight, RightMsg, Prefix
<1>7. CASE IngestLogRPC(i) \/ ApplyErrRPC(i)
  <2>1. /\ apc[i] \in {"boot", "ingest", "report"}
        /\ apc'[i] \in {"read", "report"}
        /\ UNCHANGED <<delivered, snap, log, lastApplied>>
    BY <1>7
    DEF IngestLogRPC, ApplyErrRPC, Continue, Untouched, StateInv, TypeOK
  <2> QED
    BY <1>1, <1>2, <2>1 DEF ServerRight, Prefix
<1>8. CASE Die(i)
  <2>1. apc'[i] = "off" /\ UNCHANGED <<delivered, snap, log, lastApplied>>
    BY <1>8 DEF Die, raftVars, StateInv, TypeOK
  <2> QED
    BY <1>1, <1>2, <2>1 DEF ServerRight, Prefix
<1>9. CASE Restart(i)
  <2>1. /\ apc'[i] \in {"boot", "read"}
        /\ lastApplied'[i] = snap[i].index
        /\ delivered'[i] = snap[i].index
        /\ log'[i] = IF snapshot /\ snap[i].index > 0 THEN snap[i].log
                                                     ELSE NoLog
        /\ UNCHANGED snap
    BY <1>9 DEF Restart, NewRfsrv, StateInv, TypeOK
  <2>2. log'[i] = Prefix(snap[i].index)
    <3>1. CASE snapshot /\ snap[i].index > 0
      BY <1>2, <2>1, <3>1 DEF ServerRight
    <3>2. CASE ~(snapshot /\ snap[i].index > 0)
      <4>1. snap[i].index = 0
        BY <3>2, ServerTypes DEF SnapInv
      <4> QED
        BY <2>1, <3>2, <4>1, PrefixFacts
    <3> QED
      BY <3>1, <3>2
  <2> QED
    BY <1>1, <1>2, <2>1, <2>2 DEF ServerRight, Prefix
<1> QED
  BY <1>4, <1>5, <1>6, <1>7, <1>8, <1>9 DEF ServerStep, ApplierStep
\* The request or answer of a server that works with a correct library.
LEMMA TesterRightStep ==
  ASSUME StateInv, SnapInv, NEW i \in Servers, ServerStep(i),
         wrong = 0, wrong' = 0,
         \A j \in Servers : ServerRight(j) /\ TesterRight(j)
  PROVE  TesterRight(i)'
<1>1. UNCHANGED <<committed, snapshot, behind>>
  BY ServerFrame
<1>2. ServerRight(i) /\ TesterRight(i)
  OBVIOUS
<1>3. CASE RaftStep(i)
  <2>1. /\ apc[i] = "read"
        /\ err'[i] = FALSE
        /\ UNCHANGED <<logs, applyErr, behind>>
        /\ \/ apc'[i] = "check" /\ delivered'[i] = delivered[i] + 1
           \/ apc'[i] = "ingest"
    BY <1>3, DeliverRight
  <2>2. \A k \in Indexes : k < delivered[i] + 1 => k <= delivered[i]
    BY ServerTypes DEF Indexes
  <2>3. Right(logs[i])'
    BY <1>1, <1>2, <2>1 DEF TesterRight, Right, Present
  <2> QED
    BY <1>2, <2>1, <2>2, <2>3 DEF TesterRight, Present
<1>4. CASE CheckLogsRPC(i)
  <2>1. msg[i] \in Msgs /\ apc[i] = "check"
    BY <1>4 DEF CheckLogsRPC, StateInv
  <2>2. /\ msg[i].index \in Indexes
        /\ msg[i].cmd = Chosen[msg[i].index]
        /\ msg[i].index <= committed
        /\ msg[i].index = delivered[i]
        /\ Present(msg[i].cmd)
    BY <1>2, <2>1, RaftTestAssumption DEF ServerRight, RightMsg, Msgs, Present
  <2>3. /\ logs'[i] = [logs[i] EXCEPT ![msg[i].index] = msg[i].cmd]
        /\ apc'[i] = "apply"
        /\ err'[i] = (Disagrees(msg[i]) \/ ~PrevOk(i, msg[i]))
        /\ UNCHANGED <<applyErr, delivered>>
    BY <1>4 DEF CheckLogsRPC, CheckLogs, Untouched, StateInv, TypeOK
  <2>4. \A k \in Indexes :
          logs'[i][k] = IF k = msg[i].index THEN msg[i].cmd ELSE logs[i][k]
    BY <2>2, <2>3, ServerTypes DEF Logs
  <2>5. Right(logs[i])'
    BY <1>1, <1>2, <2>2, <2>4 DEF TesterRight, Right, Present
  <2>6. ~Disagrees(msg[i])
    BY <2>2 DEF Disagrees, TesterRight, Right
  <2>7. <<"ingest", i>> \notin behind => PrevOk(i, msg[i])
    <3> SUFFICES ASSUME <<"ingest", i>> \notin behind, msg[i].index # 1
                 PROVE  Present(logs[i][msg[i].index - 1])
      BY DEF PrevOk
    <3>1. msg[i].index - 1 \in Indexes /\ msg[i].index - 1 < delivered[i]
      BY <2>2, RaftTestAssumption DEF Indexes
    <3> QED
      BY <1>2, <2>1, <3>1 DEF TesterRight
  <2>8. <<"ingest", i>> \notin behind =>
          \A k \in Indexes : k <= delivered[i] => Present(logs'[i][k])
    <3>1. \A k \in Indexes : k <= delivered[i] =>
            k < delivered[i] \/ k = msg[i].index
      BY <2>2, ServerTypes DEF Indexes
    <3> QED
      BY <1>2, <2>1, <2>2, <2>4, <3>1 DEF TesterRight
  <2>9. err'[i] \/ applyErr'[i] => <<"ingest", i>> \in behind
    BY <1>2, <2>3, <2>6, <2>7 DEF TesterRight
  <2> QED
    BY <1>1, <2>3, <2>5, <2>8, <2>9 DEF TesterRight, Present
<1>5. CASE Apply(i)
  <2>1. /\ apc[i] = "apply" /\ apc'[i] \in {"read", "report"}
        /\ UNCHANGED <<logs, err, applyErr, delivered>>
    BY <1>5 DEF Apply, Continue, Untouched, StateInv, TypeOK
  <2>2. Right(logs[i])'
    BY <1>1, <1>2, <2>1 DEF TesterRight, Right, Present
  <2> QED
    BY <1>1, <1>2, <2>1, <2>2 DEF TesterRight, Present
<1>6. CASE IngestLogRPC(i)
  <2>1. /\ apc[i] \in {"boot", "ingest"} /\ apc'[i] \in {"read", "report"}
        /\ logs'[i] = log[i]
        /\ UNCHANGED <<err, applyErr, delivered>>
    BY <1>6
    DEF IngestLogRPC, IngestLog, Continue, Untouched, StateInv, TypeOK
  <2>2. /\ delivered[i] = lastApplied[i]
        /\ log[i] = Prefix(lastApplied[i])
        /\ lastApplied[i] <= committed
    BY <1>2, <2>1 DEF ServerRight, SnapInv
  <2>3. Right(log[i])
    BY <2>2, PrefixRight, ServerTypes
  <2>4. Right(logs[i])'
    BY <1>1, <2>1, <2>3 DEF Right, Present
  <2>5. \A k \in Indexes : k <= delivered[i] => Present(log[i][k])
    BY <2>2, PrefixFacts, ServerTypes
  <2> QED
    BY <1>1, <1>2, <2>1, <2>4, <2>5 DEF TesterRight, Present
<1>7. CASE ApplyErrRPC(i)
  <2>1. /\ apc[i] = "report" /\ apc'[i] = "read"
        /\ UNCHANGED <<logs, delivered>>
    BY <1>7 DEF ApplyErrRPC, Untouched, StateInv, TypeOK
  <2>2. <<"ingest", i>> \in behind
    BY <1>2, <2>1 DEF StateInv, TesterRight
  <2>3. Right(logs[i])'
    BY <1>1, <1>2, <2>1 DEF TesterRight, Right, Present
  <2> QED
    BY <1>1, <2>2, <2>3 DEF TesterRight
<1>8. CASE Die(i)
  <2>1. apc'[i] = "off" /\ ~err'[i] /\ UNCHANGED <<logs, applyErr>>
    BY <1>8 DEF Die, StateInv, TypeOK
  <2>2. Right(logs[i])'
    BY <1>1, <1>2, <2>1 DEF TesterRight, Right, Present
  <2> QED
    BY <1>1, <1>2, <2>1, <2>2 DEF TesterRight
<1>9. CASE Restart(i)
  <2>1. /\ \/ apc'[i] = "boot"
           \/ apc'[i] = "read" /\ ~(snapshot /\ snap[i].index > 0)
        /\ delivered'[i] = snap[i].index
        /\ UNCHANGED <<logs, err, applyErr>>
    BY <1>9 DEF Restart, NewRfsrv, StateInv, TypeOK
  <2>2. apc'[i] = "read" => delivered'[i] = 0
    BY <2>1, ServerTypes DEF SnapInv
  <2>3. \A k \in Indexes : ~(k <= 0)
    BY DEF Indexes
  <2>4. Right(logs[i])'
    BY <1>1, <1>2, <2>1 DEF TesterRight, Right, Present
  <2> QED
    BY <1>1, <1>2, <2>1, <2>2, <2>3, <2>4 DEF TesterRight
<1> QED
  BY <1>3, <1>4, <1>5, <1>6, <1>7, <1>8, <1>9 DEF ServerStep, ApplierStep

\* A request that a killed server leaves behind is one that it could have made.
LEMMA RequestRightStep ==
  ASSUME StateInv, NEW i \in Servers, ServerStep(i),
         ServerRight(i), TesterRight(i), NEW q \in late' \ late
  PROVE  RequestRight(q)
<1>1. Die(i) /\ q = Request(i) /\ apc[i] \in {"check", "ingest", "report"}
  BY DEF ServerStep, RaftStep, Deliver, DeliverWrong, ReadCommand,
    DeliverSnapshot, DeliverWrongSnapshot, ReadSnapshot, ApplierStep,
    CheckLogsRPC, Apply, IngestLogRPC, ApplyErrRPC, Untouched, Die, Restart,
      NewRfsrv
<1>2. CASE apc[i] = "check"
  <2>1. q = [kind |-> "check", srv |-> i, body |-> msg[i]]
    BY <1>1, <1>2 DEF Request
  <2>2. RightMsg(msg[i])
    BY <1>2 DEF ServerRight
  <2> QED
    BY <2>1, <2>2 DEF RequestRight
<1>3. CASE apc[i] = "ingest"
  <2>1. q = [kind |-> "ingest", srv |-> i, body |-> log[i]]
    BY <1>1, <1>3 DEF Request
  <2>2. Right(log[i])
    BY PrefixRight, ServerTypes DEF ServerRight
  <2> QED
    BY <2>1, <2>2 DEF RequestRight
<1>4. CASE apc[i] = "report"
  <2>1. q = [kind |-> "report", srv |-> i, body |-> Nil]
    BY <1>1, <1>4 DEF Request
  <2>2. <<"ingest", i>> \in behind
    BY <1>4 DEF StateInv, TesterRight
  <2> QED
    BY <2>1, <2>2 DEF RequestRight
<1> QED
  BY <1>1, <1>2, <1>3, <1>4

\* What is right stays right while more commands are committed.
LEMMA RightGrows ==
  ASSUME StateInv, committed <= committed', committed' \in 0..MaxIndex
  PROVE  /\ \A l : Right(l) =>
              \A k \in Indexes :
                Present(l[k]) => k <= committed' /\ l[k] = Chosen[k]
         /\ \A m \in Msgs : RightMsg(m) =>
              m.index <= committed' /\ m.cmd = Chosen[m.index]
<1>1. \A k \in Indexes : k \in Int
  BY DEF Indexes
<1>2. \A k \in Indexes : k <= committed => k <= committed'
  BY <1>1 DEF StateInv, TypeOK
<1> QED
  BY <1>2 DEF Right, RightMsg, Msgs
\* A library that has been wrong stays so.
LEMMA WrongStays ==
  ASSUME StateInv, [Next]_vars, wrong' = 0
  PROVE  wrong = 0
<1>1. wrong \in Nat
  BY RaftTestAssumption DEF StateInv, TypeOK
<1>2. ASSUME NEW i \in Servers, ServerStep(i)
      PROVE  wrong' = wrong \/ wrong' = wrong + 1
  BY <1>2
  DEF ServerStep, RaftStep, Deliver, DeliverWrong, DeliverSnapshot,
    DeliverWrongSnapshot, ApplierStep, CheckLogsRPC, Apply, IngestLogRPC,
    ApplyErrRPC, Untouched, Die, Restart, NewRfsrv, raftVars
<1> QED
  BY <1>1, <1>2, StepCases DEF RunLate, Aside, raftVars

\* Every step keeps CorrectInv.
LEMMA CorrectStep ==
  ASSUME StateInv, SnapInv, CorrectInv, [Next]_vars
  PROVE  CorrectInv'
<1> SUFFICES ASSUME wrong' = 0
             PROVE  /\ \A j \in Servers : ServerRight(j)' /\ TesterRight(j)'
                    /\ \A q \in late' : RequestRight(q)'
  BY DEF CorrectInv
<1>1. /\ wrong = 0
      /\ \A j \in Servers : ServerRight(j) /\ TesterRight(j)
      /\ \A q \in late : RequestRight(q)
  BY WrongStays DEF CorrectInv
<1>2. ASSUME NEW i \in Servers, ServerStep(i)
      PROVE  /\ \A j \in Servers : ServerRight(j)' /\ TesterRight(j)'
             /\ \A q \in late' : RequestRight(q)'
  <2>1. UNCHANGED <<committed, snapshot, behind>>
    BY <1>2, ServerFrame
  <2>2. ServerRight(i)' /\ TesterRight(i)'
    BY <1>1, <1>2, ServerRightStep, TesterRightStep
  <2>3. ASSUME NEW j \in Servers, j # i
        PROVE  ServerRight(j)' /\ TesterRight(j)'
    <3>1. UNCHANGED <<delivered[j], snap[j], apc[j], msg[j], log[j],
                      lastApplied[j], err[j], logs[j], applyErr[j]>>
      BY <1>2, <2>3, OthersSame
    <3>2. ServerRight(j)'
      BY <1>1, <2>1, <3>1 DEF ServerRight, RightMsg, Prefix
    <3>3. TesterRight(j)'
      BY <1>1, <2>1, <3>1 DEF TesterRight, Right, Present
    <3> QED
      BY <3>2, <3>3
  <2>4. ASSUME NEW q \in late'
        PROVE  RequestRight(q)'
    <3>1. RequestRight(q)
      BY <1>1, <1>2, RequestRightStep
    <3> QED
      BY <2>1, <3>1 DEF RequestRight, RightMsg, Right, Present
  <2> QED
    BY <2>2, <2>3, <2>4
<1>3. CASE Aside
  <2>1. committed' \in 0..MaxIndex
    BY StateStep DEF StateInv, TypeOK
  <2>2. /\ \A l : Right(l) =>
             \A k \in Indexes :
               Present(l[k]) => k <= committed' /\ l[k] = Chosen[k]
        /\ \A m \in Msgs : RightMsg(m) =>
             m.index <= committed' /\ m.cmd = Chosen[m.index]
    BY <1>3, <2>1, RightGrows DEF Aside
  <2>3. ASSUME NEW j \in Servers
        PROVE  ServerRight(j)'
    <3>1. /\ delivered[j] <= committed'
          /\ snap[j].index <= committed'
          /\ lastApplied[j] <= committed'
      <4>1. committed \in Int
        BY DEF StateInv, TypeOK
      <4> QED
        BY <1>1, <1>3, <2>1, <4>1, ServerTypes DEF Aside, ServerRight
    <3>2. apc[j] \in {"check", "apply"} =>
            msg[j].index <= committed' /\ msg[j].cmd = Chosen[msg[j].index]
      BY <1>1, <2>2 DEF ServerRight, StateInv
    <3> QED
      BY <1>1, <1>3, <3>1, <3>2
      DEF Aside, srvVars, ServerRight, RightMsg, Prefix
  <2>4. ASSUME NEW j \in Servers
        PROVE  TesterRight(j)'
    <3>1. Right(logs[j])'
      BY <1>1, <1>3, <2>2 DEF Aside, TesterRight, Right, Present
    <3> QED
      BY <1>1, <1>3, <3>1 DEF Aside, srvVars, TesterRight, Present
  <2>5. ASSUME NEW q \in late'
        PROVE  RequestRight(q)'
    <3>1. q \in late /\ RequestRight(q)
      BY <1>1, <1>3 DEF Aside
    <3>2. q.kind = "check" => q.body \in Msgs
      BY <3>1 DEF StateInv, TypeOK, Requests
    <3>3. q.kind = "check" =>
            q.body.index <= committed' /\ q.body.cmd = Chosen[q.body.index]
      BY <2>2, <3>1, <3>2 DEF RequestRight
    <3>4. q.kind = "ingest" =>
            \A k \in Indexes : Present(q.body[k]) =>
              k <= committed' /\ q.body[k] = Chosen[k]
      BY <2>2, <3>1 DEF RequestRight
    <3> QED
      BY <1>3, <3>1, <3>3, <3>4
      DEF Aside, RequestRight, RightMsg, Right, Present
  <2> QED
    BY <2>3, <2>4, <2>5
<1>4. ASSUME NEW p \in late, RunLate(p)
      PROVE  /\ \A j \in Servers : ServerRight(j)' /\ TesterRight(j)'
             /\ \A q \in late' : RequestRight(q)'
  <2>1. /\ UNCHANGED <<raftVars, snapshot, srvVars>>
        /\ late' = late \ {p}
        /\ behind \subseteq behind'
        /\ p.kind = "ingest" => <<"ingest", p.srv>> \in behind'
    BY <1>4 DEF RunLate
  <2>2. /\ p.srv \in Servers
        /\ p.kind \in {"check", "ingest", "report"}
        /\ p.kind = "check" => p.body \in Msgs
    BY DEF StateInv, TypeOK, Requests
  <2>3. RequestRight(p)
    BY <1>1
  <2>4. ASSUME NEW j \in Servers
        PROVE  ServerRight(j)'
    BY <1>1, <2>1 DEF raftVars, srvVars, ServerRight, RightMsg, Prefix
  <2>5. ASSUME NEW j \in Servers
        PROVE  TesterRight(j)'
    <3>1. CASE p.srv # j \/ p.kind = "report"
      <4>1. logs'[j] = logs[j]
        BY <1>4, <2>2, <3>1 DEF RunLate, CheckLogs, IngestLog, StateInv, TypeOK
      <4>2. Right(logs[j])'
        BY <1>1, <2>1, <4>1 DEF raftVars, TesterRight, Right, Present
      <4>3. applyErr'[j] => applyErr[j] \/ (p.kind = "report" /\ p.srv = j)
        BY <1>4, <2>2 DEF RunLate, ApplyErr, StateInv, TypeOK
      <4>4. err[j] \/ applyErr'[j] => <<"ingest", j>> \in behind
        BY <1>1, <2>3, <4>3 DEF TesterRight, RequestRight
      <4> QED
        BY <1>1, <2>1, <4>1, <4>2, <4>4
        DEF raftVars, srvVars, TesterRight, Present
    <3>2. CASE p.srv = j /\ p.kind = "check"
      <4>1. p.body.index \in Indexes /\ p.body.cmd = Chosen[p.body.index]
            /\ p.body.index <= committed /\ Present(p.body.cmd)
        BY <2>2, <2>3, <3>2, RaftTestAssumption
        DEF RequestRight, RightMsg, Msgs, Present
      <4>2. \A k \in Indexes :
              logs'[j][k] = IF k = p.body.index THEN p.body.cmd
                                                ELSE logs[j][k]
        BY <1>4, <2>2, <3>2, <4>1, ServerTypes
        DEF RunLate, CheckLogs, StateInv, TypeOK, Logs
      <4>3. Right(logs[j])'
        BY <1>1, <2>1, <4>1, <4>2 DEF raftVars, TesterRight, Right, Present
      <4>4. \A k \in Indexes : Present(logs[j][k]) => Present(logs'[j][k])
        BY <4>1, <4>2
      <4>5. UNCHANGED applyErr
        BY <1>4, <3>2 DEF RunLate
      <4> QED
        BY <1>1, <2>1, <4>3, <4>4, <4>5
        DEF raftVars, srvVars, TesterRight, Present
    <3>3. CASE p.srv = j /\ p.kind = "ingest"
      <4>1. logs'[j] = p.body
        BY <1>4, <2>2, <3>3 DEF RunLate, IngestLog, StateInv, TypeOK
      <4>2. Right(logs[j])'
        BY <2>1, <2>3, <3>3, <4>1 DEF raftVars, RequestRight, Right, Present
      <4> QED
        BY <2>1, <3>3, <4>2 DEF TesterRight
    <3> QED
      BY <2>2, <3>1, <3>2, <3>3
  <2>6. ASSUME NEW q \in late'
        PROVE  RequestRight(q)'
    <3>1. RequestRight(q)
      BY <1>1, <2>1
    <3> QED
      BY <2>1, <3>1 DEF raftVars, RequestRight, RightMsg, Right, Present
  <2> QED
    BY <2>4, <2>5, <2>6
<1> QED
  BY <1>2, <1>3, <1>4, StepCases

-----------------------------------------------------------------------------
(* Theorems. *)

IInv ==
  /\ StateInv
  /\ SnapInv
  /\ LogInv
  /\ KeptInv
  /\ AgreeInv
  /\ GapNoticed
  /\ CorrectInv

\* The initial state satisfies the inductive invariant.
LEMMA InitInv == Init => IInv
<1> SUFFICES ASSUME Init PROVE IInv
  OBVIOUS
<1>1. \A k \in Indexes : ~(k <= 0) /\ ~Present(NoLog[k])
  BY DEF Indexes, Present, NoLog
<1>2. \A i \in Servers :
        /\ delivered[i] = 0 /\ lastApplied[i] = 0
        /\ snap[i].index = 0 /\ snap[i].log = NoLog
        /\ log[i] = NoLog /\ logs[i] = NoLog
        /\ apc[i] = "read"
  BY DEF Init
<1>3. LogInv
  BY <1>1, <1>2 DEF LogInv, LogOk, AtNext
<1>4. KeptInv
  BY <1>1, <1>2 DEF KeptInv, KeptOk, Kept
<1>5. AgreeInv /\ GapNoticed
  BY <1>1, <1>2 DEF AgreeInv, AgreeAt, GapNoticed
<1>6. CorrectInv
  <2>1. \A i \in Servers : ServerRight(i)
    BY <1>2, PrefixFacts DEF Init, ServerRight
  <2>2. \A i \in Servers : ~err[i] /\ ~applyErr[i]
    BY DEF Init
  <2>3. \A i \in Servers : TesterRight(i)
    BY <1>1, <1>2, <2>2 DEF TesterRight, Right
  <2> QED
    BY <2>1, <2>3 DEF CorrectInv, Init
<1> QED
  BY <1>3, <1>4, <1>5, <1>6, InitState DEF IInv

\* Every step keeps the inductive invariant.
LEMMA InvStep == IInv /\ [Next]_vars => IInv'
<1> SUFFICES ASSUME IInv, [Next]_vars PROVE IInv'
  OBVIOUS
<1>1. StateInv' /\ SnapInv' /\ LogInv'
  BY StateStep, SnapStep, LogStep DEF IInv
<1>2. KeptInv' /\ AgreeInv' /\ GapNoticed' /\ CorrectInv'
  BY KeptStep, AgreeStep, GapStep, CorrectStep DEF IInv
<1> QED
  BY <1>1, <1>2 DEF IInv

\* The inductive invariant holds in every reachable state.
LEMMA Invariance == Spec => []IInv
BY InitInv, InvStep, PTL DEF Spec

\* Library, servers, tester and requests keep their types.
THEOREM TypeCorrect == Spec => []TypeOK
<1>1. IInv => TypeOK
  BY DEF IInv, StateInv
<1> QED
  BY <1>1, Invariance, PTL

\* The harness accuses no correct library, of an apply error or of a mismatch,
\* except for an IngestLog that a killed server left behind.
THEOREM CorrectNotAccused == Spec => []NoFalseAlarm
<1>1. IInv => NoFalseAlarm
  BY DEF IInv, CorrectInv, NoFalseAlarm, TesterRight, Right
<1> QED
  BY <1>1, Invariance, PTL

\* Whatever a faulty library does, two servers do not report different
\* commands for an index without an error being noticed.
THEOREM DisagreementFound == Spec => []DisagreementNoticed
<1>1. IInv => DisagreementNoticed
  BY DEF IInv, AgreeInv, AgreeAt, DisagreementNoticed
<1> QED
  BY <1>1, Invariance, PTL

\* Whatever a faulty library does, no entry is reported without the one before
\* it and without an error being noticed.
THEOREM GapFound == Spec => []GapNoticed
<1>1. IInv => GapNoticed
  BY DEF IInv
<1> QED
  BY <1>1, Invariance, PTL

\* An error that was noticed of a server stays noticed of that server:
\* restarts, later messages and late requests do not hide it.
THEOREM NoticedForever ==
  Spec => [][\A i \in Servers : NoticedOf(i) => NoticedOf(i)']_vars
<1>1. IInv /\ [Next]_vars =>
        [\A i \in Servers : NoticedOf(i) => NoticedOf(i)']_vars
  BY NoticedOfStable DEF IInv
<1> QED
  BY <1>1, Invariance, PTL DEF Spec

\* With a correct library, one returns only when the command it started is
\* committed at the index it waited for.
THEOREM OneIsCommitted == Spec => OneReturnsCommitted
<1>1. IInv /\ [Next]_vars =>
        [tpc = "one" /\ tpc' = "idle" /\ wrong = 0
           => cur.index <= committed /\ Chosen[cur.index] = cur.cmd]_vars
  <2> SUFFICES ASSUME IInv, Next, tpc = "one", tpc' = "idle", wrong = 0
               PROVE  cur.index <= committed /\ Chosen[cur.index] = cur.cmd
    BY DEF vars, testVars
  <2>1. OneReturns
    BY DEF Next, Commit, RaftStep, Deliver, DeliverWrong, ReadCommand,
      DeliverSnapshot, DeliverWrongSnapshot, ReadSnapshot, ApplierStep,
      CheckLogsRPC, Apply, IngestLogRPC, ApplyErrRPC, Untouched, Kill, Die,
      Restart, NewRfsrv, LateStep, RunLate, CallStep, One, Start, Wait,
      PollFails, OneStep,
      AskServers, NoLeader, OneTimesOut, OneFails, WaitStep, WaitReturns,
      WaitMovesOn, WaitFails,
      Go, testVars
  <2>2. cur.index \in Indexes
    BY DEF IInv, StateInv
  <2>3. PICK i \in Servers :
          Present(logs[i][cur.index]) /\ logs[i][cur.index] = cur.cmd
    BY <2>1 DEF OneReturns, SameCommand, Reported
  <2> QED
    BY <2>2, <2>3 DEF IInv, CorrectInv, TesterRight, Right
<1> QED
  BY <1>1, Invariance, PTL DEF Spec, OneReturnsCommitted
=============================================================================
