# Verification of the 6.824 labs: key/value server, lock, MapReduce, test frame

TLA+ models of the programs in `src/lab1/src`, TLC configurations that check
them on small instances, and TLAPS proofs for every size of instance. The
repository is a set of MIT 6.824 labs in which MapReduce, the versioned
key/value server and the lock built on it are implemented. The later labs
(Raft, the replicated state machine, the sharded service) are skeletons with
empty methods. The frame they run in is complete and concurrent itself: a
simulated network, servers in processes of their own, a checker for
linearizability, a harness that judges Raft implementations, and tests that race
clients against each other.

Paths below are relative to `src/lab1/src`.

## 1. Inventory

| Part | State | Operations | Interacts with |
|---|---|---|---|
| **Key/value server** `kvsrv1/server.go` | `data`, `dataVersion`, one mutex | `Get`, `Put` (conditional on the version) | is called through labrpc |
| **Clerk** `kvsrv1/client.go` | the call in progress, whether it is the first | `Get`, `Put`: retry for ever; ErrVersion to a resent Put becomes ErrMaybe | labrpc; used by lock and tests |
| **Lock** `kvsrv1/lock/lock.go` | nothing but the lock's key on the server: "held" or "free" | `Acquire`, `Release`: loops of Get and conditional Put | clerk |
| **Network** `labrpc/labrpc.go` | ends, enabled flags, connections, servers; one goroutine per call | `Call`, `Forward`, `processReq`, `Enable`, `AddServer`, `DeleteServer` | everything |
| **Checker's model** `models1/kv.go`, `kvtest1/porcupine.go` | value and version of a key; the log of operations | `Init`, `Step`; porcupine searches for a linearization | judges the clerks' histories |
| **Test clients** `kvtest1/kvtest.go` | counts of OK and ErrMaybe per client | `OneClientPut`, `OneClientAppend`, `PutAtLeastOnce`, and the checks at the end | clerk |
| **MapReduce coordinator** `mr/coordinator.go`, `*_task_manager.go`, `main/mrcoordinator.go` | status, time of assignment and file lists of the tasks | `Register`, `AssignTask`, `ReportMapTask`, `ReportReduceTask`, `IsWaiting`, `Done` | workers, by RPC over a Unix socket |
| **MapReduce worker** `mr/worker.go`, `mr/util.go` | current task, retries; files on a shared disk | register, ask, map, reduce, report, exit | coordinator, disk |
| **Server group** `tester1/group.go`, `srv.go`, `daemon*.go`, `persister.go` | connected servers, ends per incarnation, the saved persister; a process per server | start, connect, disconnect, partition, shut down, restart | network, daemons |
| **Test clients' ends** `tester1/clnts.go` | ends made on demand, allowed servers | `Call`, `ConnectAll`, `ConnectTo`, `Disconnect`, `DisconnectAll`, `MakeClientTo`, `DeleteClient` | network |
| **Call multiplexing** `tester1/demux`, `tester1/sockrpc` | tags, call map, mutex, socket | `SendReceive`, reader, `Close`; a goroutine per request on the server | between tester and daemons |
| **Raft test harness** `raft1/server.go`, `test.go`, `proxy.go` | per server: log, last index applied, snapshot; in the tester: a copy of each server's log, the error it reported | `applier`, `applierSnap`, `ingestSnap`; `CheckLogs`, `IngestLog`, `ApplyErr`; `kill`, `restart`, `one`, `wait` | the Raft library (a skeleton), tester and servers by RPC |
| **Shard configurations** `shardkv1/shardcfg/shardcfg.go` | number, shards, groups | `Join`, `Leave`, `Rebalance`, `JoinBalance`, `LeaveBalance` | shard controller (a skeleton) |

What is hard in it:

- *Lost messages and retries.* The clerk cannot tell a lost request from a
  lost reply; the MapReduce worker neither. What was done may be done again.
- *Handlers left behind.* `processReq` stops waiting for a handler whose
  client's end was disabled. The handler still runs, possibly long after the
  clerk's operation has returned.
- *Values read by one call and used by the next*: the lock, the
  read-modify-write clients.
- *Timeouts that race late answers*: a MapReduce task is given to a second
  worker while the first one is about to report.
- *Crash and restart*: of workers; of servers that are cut off, checkpointed
  and killed in separate steps while calls are running.
- *Reports that race kill and restart*: a Raft server tells the tester what it
  has applied, one request at a time; requests of a server that was killed may
  arrive after its restart.
- *Sharing of a socket*: calls, replies, errors and `Close` in any order.

What makes each part correct is in section 3, with the run that checks it; the
hazards at their lines are in `PROJECT.json`.

## 2. Modules

```
KVServer <- KVClerk <- KVSystem <- KVRefinement (INSTANCE KvModel) <- MCKVSystem
                    <- Lock                                        <- MCLock
                    <- KVTest                                      <- MCKVTest
MRCoordinator <- MapReduce (INSTANCE MapReduceJob)                 <- MCMapReduce
Network <- ServerGrp <- Tester                                     <- MCTester
RaftTest                                                           <- MCRaftTest
Demux                                                              <- MCDemux
ShardCfg

KVSystemProofs (about KVSystem and KVRefinement)   LockProofs   KVTestProofs
MapReduceProofs   TesterProofs   RaftTestProofs   DemuxProofs   ShardCfgProofs
```

The arrow is EXTENDS, from the extended module to the extending one. Besides
actions that follow the code, modules hold operators named as a *mutant of*
another one: a plausible bug in the same lines, with which a property of the
model fails. They are used nowhere else.

**KVServer.** The two maps are functions over all keys; a key that is missing
has `NoValue` and version 0, which is what Go's map returns. A handler runs
under the mutex from its first to its last line and is one step. All four
outcomes of `Put` are there.

**KVClerk.** One `Call` is one run of `processReq`: sent, dispatched, replied.
`LoseRequest`, `LoseReply` and `GiveUp` are its ways to return false, after
which the clerk sends again (`Resend`). `GiveUp` leaves the handler of a Put in
`late`, from where `HandleLate` runs it at any later time. `ClerkErr` is the
ErrMaybe rule. The tester's `Enable` takes an end away and gives it back.

**KVSystem.** Applications start Gets and Puts. A version passed to Put has
been read from the server (or is 0), or, with `AnyVersion`, is made up. The
history variables `applied` and `returned` record what the server performed
and what callers were told.

**KvModel, KVRefinement.** `KvModel` is the Go model that porcupine searches
with, written as a specification: an operation is called, takes its `Step` at
some moment, and returns an answer that the step allows: OK or ErrMaybe if the
version matched, ErrVersion or ErrMaybe if not. A step that changed nothing may
be taken back and taken later (the search tries every moment). `KVRefinement` maps
the step of a Get to the handler whose reply arrives, and that of a Put to the
handler that performs it.

**KVTest.** Four tests on one key; the variable `test` says which one a
behaviour is about. `OneClientPut`: clients that start over with the version
they have read when somebody was faster, then `CheckPutConcurrent`.
`OneClientAppend`: clients that read a list, add an entry and put it back with
the version they read, then `CheckAppends`, whose loop over the list is written
as what it computes for each client: the numbers of its entries, the one
expected next, and how many were skipped. `TestUnreliableNet` and
`PutAtLeastOnce` with one client. Every `Fatalf` on the way is the state
"fatal". `OneClientAppend` and `PutAtLeastOnce` are written for the later labs'
clerks; here they run with the one that exists.

**Lock.** `Acquire` and `Release` share their loop, and so do the actions:
`AfterGet` and `AfterPut` with the value to wait for and the value to put.
`doubt` is a history variable: the locks one of whose Puts was performed, or
may yet be performed, without its caller hearing of it.

**MRCoordinator, MapReduce, MapReduceJob.** Handlers hold `c.mu` and are one
step each. A task's time of assignment becomes a flag `timedOut`, which may be set
at any time after the assignment. A file's contents are reduced to which map
outputs it holds, and how often; `Emits` says which buckets a map task writes.
Worker steps are split where other processes can see the difference: before
and after each call, and between `os.Create` and the write of an output file.
A worker that fails may have written a part of its file. `spoiled` is a history
variable: the reduce tasks whose input could not be read completely, and those
that had been reported and whose output a failing worker left truncated or
partly overwritten, with no other worker about to write it. A worker that fails
before another one writes, or after it without having written itself, spoils
nothing. `MapReduceJob` is the promise: map tasks finish once, then reduce tasks
once, then the job is over.

**Network, ServerGrp, Tester.** `Network` is `labrpc` with many servers: an end
belongs to an incarnation of its owner and has one target, a server name stands
for an incarnation or for nothing. A call looks twice at the state of the
world: before the handler starts and before the reply is delivered. In between
the handler may hang, at a server that is being taken down; then it is the poll
of `IsServerDead` that ends the call (`GiveUp`).
`ServerGrp` has the life of a server in the steps of `StartServer` and
`ShutdownServer`, during which calls go on. What a server persists is
represented by the calls it has handled, in both parts of the persister.
`Tester` adds clients and the composition.

**RaftTest.** The Raft library is external: a log of commands that are
committed one by one and handed to each server in order, or a snapshot of
another server instead. As the harness is there to find faulty libraries, it may
also hand over any other index or command, or a snapshot with a wrong index,
`MaxWrong` times. A server's loop is split where it waits for the tester:
`CheckLogsRPC`, `Apply` (log, last index, snapshot), `IngestLogRPC`,
`ApplyErrRPC`. The tester's handlers run under `ts.mu` and are one step. `Kill`
has the two steps of `ShutdownServer`: the persisted state is fetched, later the
process ends. The request it then has under way is lost, or stays in `late` and
is carried out at any later time. A restarted server has its persisted state and
nothing of the rest; the tester's record of its errors stays. `one` and `wait`
poll the tester's logs. `one` looks at its ten seconds, and at whether the test is
finished, at the head of its loop only; it then asks the servers for the leader by
RPCs that have no timeout, and if one gave an index it waits for two seconds. That
index is any, as the leader that gave it may have been deposed, and which of its
calls retry is left open. Snapshots are on or off for
a whole test.

**Demux.** Callers, reader, `Close` and the server's goroutines around a socket
that holds `Cap` messages in each direction. A writer waits for room and holds
`dmx.mu` meanwhile.

**ShardCfg.** A configuration as a record. The two loops of `Rebalance`
are recursive functions with one configuration per round (`InOrder`). The second
one has no bound in the code; the model gives it as many rounds as there are
shards, which is enough (section 4), and `CheckConfig` would fail if it was not. `JoinFails` and `LeaveFails` are the calls that
return false halfway.

## 3. Runs

| Run | Instance | States | Shows |
|---|---|---|---|
| `kv_any_version` | 2 clients, 2 operations each, versions up to 2 made up, losses, partitions, 2 late handlers | 1,307,485 | no Put is performed twice (`AtMostOnce`); no version is replaced twice (`VersionReplacedOnce`); OK and ErrVersion are true, for ever (`AnswerIsTrue`) |
| `kv_linearizable` | 2 clients, 2 operations each, 2 values, versions that were read, losses, partitions, 1 late handler | 1,216,001 | every history is one `KvModel` allows (`Linearizable`); a Put that has returned does not happen later (`SettledWhenReturned`) |
| `kv_test` | 2 clients with 2 and 1 rounds, the tester's clerk (2 tries in the tests of its own), losses, partitions, 1 late handler | 186,122 | no Fatalf (`NoFatal`); the counts bracket the version, also after the last late handler (`PutsCounted`); no append is lost (`NoAppendLost`); the tests with several clients end (`TestEnds`) |
| `lock_faults` | 2 clients, 1 round each, losses, partitions, 1 late handler | 103,536 | the lock is safe until the answer of one of its performed Puts is lost (`FaultsAreContained`); until then somebody gets it (`SomebodyAcquires`) and `Release` returns (`ReleaseReturns`) |
| `lock_unreliable_mutex` | 2 clients, 2 rounds each, losses | - | *violated*: `MutualExclusion` |
| `mr_faults` | 2 workers, 2 input files, 1 bucket; 2 failed calls, 1 disk error, 1 crash, timeouts at will | 210,254 | `ReduceInputExact`, `CompletedHasOutput`, `NoEarlyExit`, `FilenamesFrozen`, `ImplementsJob`, `JobEnds`, `OutputSettles` |
| `mr_output_final` | 2 workers, 2 files, 2 buckets, no faults but timeouts | - | *violated*: `OutputFinalAtExit` |
| `tester` | 2 servers, 2 incarnations each, 1 client, 1 call | 446,920 | connections are symmetric and as asked for (`ConnectedAsAsked`); state and snapshot belong together (`SnapshotInSync`); what was answered true is in what survives (`AckedIsDurable`); a client that was cut off stays so (`CutOffClient`); every call returns (`EveryCallReturns`) |
| `raft_servers` | 2 servers, 3 indexes, a snapshot every 2, 2 kills, 1 wrong message | 4,121,156 | a correct library is not accused (`NoFalseAlarm`); servers that disagree are noticed (`DisagreementNoticed`), and so are entries without their predecessor (`GapNoticed`) |
| `raft_one` | 2 servers, 2 indexes, 1 kill, 1 wrong message, calls of one for 1 and 2 servers and of wait | 562,008 | what one returns is committed (`OneReturnsCommitted`); the error a server is about to report reaches the tester and stays there, whatever is killed and restarted afterwards, unless this server is killed first (`ErrorReported`) |
| `demux` | 2 callers, 3 calls, sockets of 1 message | 39,175 | `NoFatal`, `OwnReply`, `SendReceiveReturns` |
| `shardcfg` | 5 shards, 4 groups, 4 changes | 12,367 | `CheckConfig`; no balanced assignment moves fewer shards (`FewestMoves`) |

`TypeOK` is checked where a module has one. Every run has its largest number of
faults of each kind in its cfg; all of them are constants, and the bound is a
guard of the action concerned.

**Why the bounds are enough.**

- *Key/value.* A key's history is independent of the others', so one key is
  enough. Two clients with two operations each give a Put that is resent, whose
  first handler was left behind, against another client's Put and Get. With two
  late slots two handlers left behind run in either order.
- *kv_test.* Three rounds in all, unevenly divided: one client goes on after
  the other is done, and each loses to the other at least once. The one client of
  the other tests has two tries, so that a Put left behind by the first meets
  the second. That the tester's
  signal comes after a client's first OnePut is how the test's second is meant.
- *Lock.* Two clients meet in every state of both loops, and a third one can
  only do what the second does; safety for any number is proved. The version is
  capped: it takes five changes of the lock to meet the cap, which two rounds
  without a lost answer do not reach.
- *MapReduce.* The calls that can fail are as many as a worker tries
  (`RPCRetryCount` is 2 there, 3 in the code), so that one may give up. One
  bucket is enough for the properties of `mr_faults`, in which buckets do not
  meet; `mr_output_final` needs two, so that a worker can be in a reduce task
  while the rest finishes.
- *Tester.* Two incarnations are a restart. One call at a time races all of the tester's operations; the proofs
  cover any number.
- *RaftTest.* Two servers can disagree; three indexes are one before a
  snapshot, one in the next, and one in between; the second kill may hit the
  server that has been restarted, with the first one's request still under way.
  (3 servers with 1 kill pass as well.)
- *Demux.* With `Cap = 1` every writer may have to wait. Tags wrap around at
  2^32, which is left out.
- *ShardCfg.* 5 shards on up to 4 groups cannot be divided evenly in most
  configurations; 6 and 4, and 3 and 4 (more groups than shards) pass as well.
  Of all subsets of groups every one may join or leave at once.

Deadlock is not checked where the system stops by itself: clients reach
`MaxOps`, tests and jobs end. That they get there is a liveness property where it
matters. `shardcfg` never stops.

**Fairness.** A goroutine or process that can run keeps running (weak
fairness). `labrpc` decides about each message by its own random number, so
infinitely many tries include one that is delivered: strong fairness of
`Dispatch` and `Return`. `TestEnds` and the liveness of the lock assume that a
client's end is not disabled for ever, as the clerk retries for ever and promises
nothing else. `SomebodyAcquires` and `ReleaseReturns` are promised as long as no
answer of a performed Put is lost; afterwards an Acquire may wait for itself.
The tests with one client promise no end: each Put may be answered ErrMaybe.
`EveryCallReturns` assumes that a handler ends if its server can be reached; one
at a server that has been taken from the network may hang for ever.
`ErrorReported` assumes that the servers' appliers, the tester's handlers and a kill
that has begun go on. No test need go on, no `Start` need return, and the Raft
library need not deliver anything. That `one` itself returns is not claimed: its
RPCs have no timeout.
`JobEnds` assumes that time passes, so that tasks time out, and that workers
which crashed are started again, as the tests' scripts do. Disk errors and
crashes are finite in number. Failed calls have to be fewer: a worker that has
used up its tries exits and nobody starts another, so the property holds
only if too few calls fail for all workers to give up. The run has 2 workers, 2 tries
and 2 failed calls, and one worker may give up. Nothing forces a client to call
Acquire, the tester to restart a server, or anybody to close a socket.

## 4. Proofs

They hold for any number of clients, keys, servers, workers, operations and
faults. Every safety property of section 3 that is expected to hold is a
theorem. The assumptions are the named `ASSUME`s next
to the constants: bounds are natural numbers, null values are outside of what
they stand for, and the sets over which the code counts (`Servers` of RaftTest,
`Clients` of KVTest) are finite. TLC evaluates them on every run.

All proofs have one shape. An invariant `IInv` (`KVInv`, `LockInv` and so on)
extends the property by what it silently relies on. One lemma per action says
that the action keeps it, and has one step per conjunct that the action can
disturb.

**KVSystemProofs.** `AtMostOnce`, `VersionReplacedOnce` and `AnswerIsTrue` are
not inductive: they speak of what was done, and what can be done yet sits in
calls and handlers left behind. `HistoryInv` says it: all calls of one operation
have the same arguments (`SameArgs`); what was performed replaced a version that
has passed (`VersionPassed`), hence nothing with the same version is performed
again; during an operation's first call no handler was left behind for it
(`FirstCall`), hence ErrVersion to a first call is final (`ErrVersionDead`).
`SettledWhenReturned` holds only for versions that were read. Then
`SettledInv` holds: no operation is ahead of the server, and one that was
answered is behind it. With versions that are made up a handler left behind may
find its version after its Put has returned, which is what the theorem's
hypothesis `AnyVersion = FALSE` excludes.

`HistoriesAreLinearizable` is the refinement `Linearizable`, under the same
hypothesis, as the checker's model knows no Put that happens after its return.
`StepInv` adds what the mapping needs: a handler left behind belongs to a Put
that is in progress or has returned (`LateHasOwner`); no Put is answered
ErrNoKey (`PutAnswers`); only Puts are performed (`PutsApplied`). Then each step
has its image. Starting an operation is a `Call`. A handler that performs a Put
is the `Step` of the client that still waits for it, even if the handler was
left behind: by `SettledInv` it cannot be a Put that has returned. A handler that
refuses a Put is its `Step` if the Put was not performed before, and unseen if it
was. A lost reply is an `Undo` of a step without effect. The return is
`ReturnOp`, and `FirstCall` and `ReplyTrue` make its answer one that the step
allows.

**LockProofs.** `LockInv`: the call in progress is the one the loop asked for;
Acquire's Put is guarded by a version that, if it is still current, has a value
other than "held"; a lock that reads "held" and is not in doubt has exactly one
owner (`HeldHasOwner`), where an owner holds the lock, is about to learn it, or has not yet given it
back. Every step that could hand over the lock unnoticed adds it to
`doubt`. On a reliable network `doubt` stays empty, and the lock is exclusive and
never orphaned. `ReleaseFirstTimeRound` is about the loop of `Release`: nobody can
put over the lock of an owner that is not in doubt, so the owner's Get reads the
version that its Put finds (`ReleaseSure`), and Release returns the first time
round on every network. With it, what `ReleaseReturns` needs of fairness is that two clerk
operations return.

**KVTestProofs.** `NoFatal`, `PutsCounted` and `NoAppendLost`. A Put uses a
version that its client has read, and when it is answered the server is past
that version. So whether the Put of the current round has happened is all there
is to know about it (`PutInv`), and a handler left behind can perform it only
while its client waits and has sent it again (`LateInv`). `CountInv` has, for each
client, a number of Puts performed between what it has counted as OK and as OK
or ErrMaybe; their sum is the version. `ListInv` says the same of the entries of
each client in the list, which go up and include every round that was OK;
`OneClientInv` has the version for the tests with one client. The sums are over
any finite set of clients. What is needed of them is proved by induction over
subsets, with a least counterexample (the library's theorem that finite subsets
are well-founded). `TestsPass` has the hypothesis that clients are cut off only
on a network that is called unreliable: otherwise a Put may be answered ErrMaybe
where `CheckPutConcurrent` expects none. The tests of the repository keep to it:
those of `kvsrv1` cut nobody off, and `kvraft1/kvraft_test.go:52` calls a network
with partitions unreliable. `NobodyLosesForever` has the ranking for the loop of
`OnePut`, which has no bound in the code. When a Put is answered the server is past its version, so
the Get after it reads a higher one (`TryInv`); a client has at most one Put
performed in a round (`BoundInv`, `CountInv`), so the version never exceeds the number
of rounds.

**MapReduceProofs.** `FilesInv`: a file list holds the output of every
completed map task once, and nothing else, however often the task was assigned
and reported. `PhaseInv`: no reduce task has been handed out before the last map
task was completed, from when on `FilesInv` leaves the lists no way to grow. So
a worker's copy is exact (`ReduceInputExact`) and need not be encoded under the
mutex (`FilenamesFrozen`). `OutputInv`: of a reduce task that no fault has
spoiled, whoever has the output file open has the right data to write, and as
soon as one output counts the file is right or still being written
(`CompletedHasOutput`); a file that is written completely is right. `TriesInv` counts a worker's failed tries against the
calls that failed (`NoEarlyExit`). With these, each step of coordinator and
workers is one of `MapReduceJob` or changes nothing of it
(`CoordinatorImplementsJob`).

**TesterProofs.** `DurableInv`: only the current incarnation is on the network,
and only before its checkpoint (`OnNetwork`); what a handler has done is in the
persister of its daemon (`ExecutedIsSaved`), and what is being delivered is in
what survives (`DeliveringIsDurable`): at the check the server was still on the
network, so the checkpoint comes later. `SyncInv` extends `SnapshotInSync`
to the daemons' own persisters, `WiresInv` adds to `ConnectedAsAsked` that no end of
an incarnation to come is enabled, `ClntInv` to `CutOffClient` that enabled
ends have been made.

**RaftTestProofs.** Two arguments. With a correct library (`CorrectInv`), what is
delivered, logged, in a snapshot, in a request or in the tester's logs is what
was committed, so that neither check of the harness fails (`NoFalseAlarm`) and
`one` sees only what is committed (`OneReturnsCommitted`). With a faulty one,
as long as nothing was noticed: a server's log, its snapshot and the tester's
copy match up to the last index applied (`LogInv`, `SnapInv`, `KeptInv`); two
servers that have reported different commands, or of which one is on the way to
do so, contradict the comparison in `CheckLogs` (`AgreeInv`). `NoticedForever`
says that what was noticed of a server is not forgotten, through its restart and
everybody else's: an error in its applier goes on to the tester's record, or
to a kill of this server. It is the part of `ErrorReported` that needs no fairness. The exceptions, handlers left behind by a kill, are those that the
properties name.

**DemuxProofs.** A tag belongs to one call for ever (`TagInv`), the call map
lists exactly the callers between `put` and their reply (`CallsInv`), and a message
with a tag is in one place, once (`OnceInv`), where its caller waits for it as long
as the reader takes replies (`FlightInv`). Hence each reply finds its caller
(`NoFatal`), and the right one (`OwnReply`). `ReaderInv` has the shutdown: the map
is closed, and those the reader still has to tell are exactly those in the map;
`NobodyIsLeft` is what follows once the reader has ended.

**ShardCfgProofs.** What the loops of `Rebalance` compute is proved by
induction over the rounds, with a least counterexample: first that the recursive
function exists and satisfies its equation, then that each round keeps an
invariant (`LoopInv`). It compares a configuration with the one
before `Rebalance`: a group that has received shards has at most one more than
the least loaded (`ReceivedFew`), one that has lost some at most one less than
the most loaded (`LostMany`), no group has done both (`OneWay`), and none that has received
has more than one that has lost (`Downhill`). Hence a round of the second loop
moves a shard that was not moved before, there are at most `NShards` rounds that
move anything, and afterwards the loads differ by one at most (`ConfigsChecked`).
`MovesAreFewest`: at the end of the loops either only groups
with the higher load have lost shards, or only groups with the lower load have received
some. In the first case the moved shards are counted by where they come from, in the
second by where they go. Any other balanced assignment has to take as many from,
or give as many to, each of these groups, which an injection per group shows.
The number of groups may be infinite; only the shards are counted.

**What the proofs found in the models.** The initial state of KVTest was chosen by a
CASE with arms that overlapped, which TLC reads in order and the logic does not;
it is a nested IF now. `CheckAppends` was restated per client (what is
expected next, what was skipped), which says the same and can be reasoned about.
The loops of `Rebalance` were folds over the shards and are recursive functions
for the same reason.

**Model-checked only.** Liveness (`TestEnds`, `SomebodyAcquires`,
`ReleaseReturns`, `JobEnds`, `OutputSettles`, `EveryCallReturns`,
`SendReceiveReturns`, `ErrorReported`) is beyond the prover. Of four of them the
part that does not need fairness is proved: `NobodyIsLeft` for
`SendReceiveReturns`, `ReleaseFirstTimeRound` for `ReleaseReturns`,
`NobodyLosesForever` for `TestEnds` in PutConcurrent, and `NoticedForever` for
`ErrorReported`. The two properties that are expected to be violated
are settled by their counterexamples.

## 5. What was found

- *Lock, ErrMaybe* (`kvsrv1/lock/lock.go:51`; run `lock_unreliable_mutex`). A
  Release that was performed and whose answer was lost gets ErrMaybe for the
  resent Put and starts over. When another client has the lock by then, it reads
  "held" and frees it, and two clients are inside. In the same way an Acquire
  that was performed may wait for itself for ever. Both come from a
  value that does not say who holds the lock. `FaultsAreContained` shows that
  nothing else goes wrong.
- *MapReduce, output at exit* (`mr/worker.go:202`; run `mr_output_final`). A
  reassigned reduce task truncates the finished file with `os.Create`, and the
  first worker's report may end the job before it is written again.
  `OutputSettles` shows that it is written in the end, if its worker lives, and
  that a worker that does not live spoils this one file only, and not even that
  if another worker is writing it.

Noted while modelling, without a run:

- `models1/kv.go:64` does not know ErrNoKey as the answer to a Put, which the
  server gives for a missing key and a version other than 0; no test logs one,
  and `Linearizable` shows that clients which put versions they have read never
  get it.
- `mr/worker.go:181` logs that an intermediate file cannot be read, goes on
  without it and reports the task as completed; `mr/README.md:559` says that a
  disk failure makes the task fail. A worker exits when its retries of Register or
  IsWaiting fail (`mr/worker.go:66`, `:78`) and goes on after those of AssignTask
  and the reports; `mr/README.md:555` says that it exits when retries fail.
- `kvtest1/kvtest.go:228` lets a foreign value pass if one of its two fields is
  right (`&&` for `||`).
- `tester1/daemonsrv.go:160` says "Stop server from sending requests and
  replies", but only the listener is closed: connections that exist go on. This is
  harmless, by `AckedIsDurable`, as `processReq` looks at the server again.
- `PutAtLeastOnceJson` (`kvtest1/kvtest.go:202`) puts version 0 whatever version
  it was given, and counts up a variable that it does not use; nobody calls it.
- The Raft harness overlooks, or misjudges, what the exceptions in the properties
  of RaftTest say, and each of them does happen. A server that is killed after
  CheckLogs has found a mismatch and before ApplyErr has arrived takes the error
  with it (`raft1/server.go:115`). The answer of a CheckLogs that is carried out
  after the server was killed is read by nobody. A late IngestLog
  (`raft1/test.go:203`) takes back entries, so that a correct library may be
  accused of applying out of order, and an entry that `one` has agreed on may be
  replaced. Kills are rare and the window is short; the harness errs, if at all, in
  tests with restarts. The properties of RaftTest therefore say nothing about
  late requests of this kind, and `ErrorReported` nothing about a server that is
  killed while it reports.
- The contents of a snapshot are not compared with what other servers have
  reported (`raft1/test.go:198`), until an entry of it is; an index that a
  restarted server skips is not noticed without snapshots, as the tester
  still has the entry from before.
- `checkTerms` asks one server after the other, and `wait` with a term uses
  `rfsrv`, which is nil for a server that is down (`raft1/test.go:378`).
- `Clnt.ConnectTo` leaves ends enabled that were made before.
- A `Join` or `Leave` that returns false has changed the groups before the one
  that it stopped at; the next one that succeeds balances all.

## 6. Left out

- Raft, rsm, kvraft, shardgrp, shardctrler: empty methods, nothing to model. The
  harness of rsm and of the sharded service drives what does not exist; its
  checks are those of `kvtest1`.
- The Raft harness: `checkOneLeader`, `checkTerms`, `checkNoLeader` and
  `checkNoAgreement`, which compare the library's own answers; connections, which
  decide what the library delivers; the answer ErrRPC, given when the tester has
  gone.
- `kvtest1`: `SpreadPuts` (many keys, one Put each) and `Partitioner` (calls
  `Partition` of Tester at random).
- `labgob`: reflection over Go types. `mr/logger.go`, annotations, statistics:
  no influence on anything. The main programs parse arguments.
- `labrpc`: `Cleanup`, counters, and switching `reliable` during a test; long
  delays are the unbounded time between two steps.
- The tester: several groups, cleanup at the end of a test.
- MapReduce: sorting, grouping of keys and the text of the output.
- Shard configurations: servers of groups, JSON, `Key2Shard`.

## 7. Plan

Done first: the key/value server with clerk and network, as everything rests on
it; lock, MapReduce and tester after it, then the parts that stand alone.
The harness of Raft and the clients of the later labs followed, and then the
proofs of all safety properties and of the safety halves of four liveness
properties. What is left, in order:

1. Proofs: the safety halves of the other liveness properties, of `TestEnds` in
   Append among them.
2. Several groups (`MakeGroup`, `ExitGroup`, `Cleanup` of network and groups).
