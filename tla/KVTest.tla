------------------------------- MODULE KVTest -------------------------------
(***************************************************************************)
(* The tests of one key in lab1/src/kvtest1/kvtest.go and                  *)
(* lab1/src/kvsrv1/kvsrv_test.go; `test` says which of them runs.          *)
(*                                                                         *)
(*   PutConcurrent  clients race to put (OneClientPut) until they are told *)
(*                  to stop; then the tester compares the version on the   *)
(*                  server with what they counted (CheckPutConcurrent)     *)
(*   Append         clients append to a list by a Get and a Put of the     *)
(*                  version they got (OneClientAppend); then the tester    *)
(*                  looks at the list (CheckAppends)                       *)
(*   UnreliableNet  one client puts again after every ErrMaybe and expects *)
(*                  ErrVersion (TestUnreliableNet)                         *)
(*   AtLeastOnce    one client puts with ever higher versions until it is  *)
(*                  told OK (PutAtLeastOnce), and reads (CheckGet)         *)
(*                                                                         *)
(*   loop    between two rounds                                            *)
(*   put     in the Put of the test, get: in its Get                       *)
(*   done    the client has returned                                       *)
(*   fatal   ts.Fatalf                                                     *)
(*                                                                         *)
(* The tester's own clerk goes from "wait" through "check" to "passed"; it *)
(* is the one client of the last two tests.                                *)
(***************************************************************************)
EXTENDS KVClerk, FiniteSetsExt, SequencesExt

CONSTANTS
  Checker,    \* the clerk of the tester; the others put
  Key,        \* ka[0]; randomkeys is false
  MaxPuts,    \* bound: MaxPuts[c] rounds of client c
  NTry        \* rounds of TestUnreliableNet; bound on PutAtLeastOnce

Putters == Clients \ {Checker}

\* EntryV, entry, EntryN
Entry(c, v) == <<c, v>>
Entries == Clients \X Nat

ASSUME TestAssumption ==
  /\ IsFiniteSet(Clients)
  /\ Checker \in Clients
  /\ Putters # {}
  /\ NoValue \notin Entries
  /\ NoValue \notin Seq(Entries)
  /\ Key \in Keys
  /\ MaxPuts \in [Putters -> Nat \ {0}]
  /\ NTry \in Nat \ {0}

VARIABLES
  test,
  pc,
  ver,      \* ver[c]: the version of the next Put; in UnreliableNet `try`
  err,      \* err[c]: what its PutJson returned
  nok,      \* ClntRes.Nok
  nmaybe    \* ClntRes.Nmaybe; in UnreliableNet 0 while i is 0

testVars == <<test, pc, ver, err, nok, nmaybe>>
vars == <<kvVars, testVars>>

Tests == {"PutConcurrent", "Append", "UnreliableNet", "AtLeastOnce"}

\* CheckAppends expects a list that was put once before the clients started.
StoreInit ==
  IF test = "Append"
    THEN /\ data = [k \in Keys |-> IF k = Key THEN <<>> ELSE NoValue]
         /\ dataVersion = [k \in Keys |-> IF k = Key THEN 1 ELSE 0]
    ELSE MakeKVServer

Concurrent == test \in {"PutConcurrent", "Append"}

Init ==
  /\ test \in Tests
  /\ StoreInit
  /\ ClerkInit
  /\ pc = [c \in Clients |-> IF c = Checker
                               THEN IF Concurrent THEN "wait" ELSE "loop"
                               ELSE IF Concurrent THEN "loop" ELSE "done"]
  /\ ver = [c \in Clients |-> 0]
  /\ err = [c \in Clients |-> "OK"]
  /\ nok = [c \in Clients |-> 0]
  /\ nmaybe = [c \in Clients |-> 0]

-----------------------------------------------------------------------------
(* What the clients have in common. *)

Goto(c, l) == pc' = [pc EXCEPT ![c] = l]

AnId == CHOOSE i \in Ids : TRUE

PutJson(c, e, v) == StartPut(c, Key, e, v, AnId)

GetJson(c) == StartGet(c, Key, AnId)

Finished(c, l) == pc[c] = l /\ rpc[c] = "idle"

\* i of OneClientAppend: every round is counted once.
Rounds(c) == nok[c] + nmaybe[c]

NextRound(c) == pc[c] = "loop" /\ Rounds(c) < MaxPuts[c]

\* A round ends and is counted.
Count(c, e) ==
  /\ IF e = "OK"
       THEN nok' = [nok EXCEPT ![c] = @ + 1] /\ UNCHANGED nmaybe
       ELSE nmaybe' = [nmaybe EXCEPT ![c] = @ + 1] /\ UNCHANGED nok
  /\ Goto(c, "loop")
  /\ UNCHANGED kvVars

\* The signal `done`.  It comes after a second, when every client is long
\* in its first round.
Stop(c) ==
  /\ pc[c] = "loop"
  /\ Rounds(c) > 0
  /\ Goto(c, "done")
  /\ UNCHANGED <<kvVars, test, ver, err, nok, nmaybe>>

-----------------------------------------------------------------------------
(* OneClientPut *)

\* The next call of OnePut.
OnePut(c) ==
  /\ NextRound(c)
  /\ PutJson(c, Entry(c, ver[c]), ver[c])
  /\ Goto(c, "put")
  /\ UNCHANGED <<test, ver, err, nok, nmaybe>>

PutReturned(c) ==
  /\ Finished(c, "put")
  /\ err' = [err EXCEPT ![c] = result[c].Err]
  /\ IF result[c].Err \in {"OK", "ErrVersion", "ErrMaybe"}
       THEN GetJson(c) /\ Goto(c, "get")
       ELSE Goto(c, "fatal") /\ UNCHANGED kvVars
  /\ UNCHANGED <<test, ver, nok, nmaybe>>

\* "my put?"
MyVersion(c) == err[c] = "OK" /\ result[c].Version = ver[c] + 1

WrongValue(c) ==
  /\ MyVersion(c)
  /\ result[c].Value[1] # c
  /\ result[c].Value[2] # ver[c]

\* Another client was faster: OnePut tries the version it has read.
TryAgain(c) ==
  /\ err[c] = "ErrVersion"
  /\ PutJson(c, Entry(c, result[c].Version), result[c].Version)
  /\ Goto(c, "put")
  /\ UNCHANGED <<nok, nmaybe>>

GetReturned(c) ==
  /\ Finished(c, "get")
  /\ IF result[c].Err # "OK" \/ WrongValue(c)
       THEN /\ Goto(c, "fatal")
            /\ UNCHANGED <<kvVars, ver, nok, nmaybe>>
       ELSE /\ ver' = [ver EXCEPT ![c] = result[c].Version]
            /\ \/ TryAgain(c)
               \/ err[c] # "ErrVersion" /\ Count(c, err[c])
  /\ UNCHANGED <<test, err>>

OneClientPut(c) ==
  /\ test = "PutConcurrent"
  /\ OnePut(c) \/ PutReturned(c) \/ GetReturned(c)

-----------------------------------------------------------------------------
(* OneClientAppend *)

AppendGet(c) ==
  /\ NextRound(c)
  /\ GetJson(c)
  /\ Goto(c, "get")
  /\ UNCHANGED <<test, ver, err, nok, nmaybe>>

AppendPut(c) ==
  /\ Finished(c, "get")
  /\ IF result[c].Err = "OK"
       THEN /\ PutJson(c, Append(result[c].Value, Entry(c, Rounds(c))),
                       result[c].Version)
            /\ Goto(c, "put")
       ELSE Goto(c, "fatal") /\ UNCHANGED kvVars
  /\ UNCHANGED <<test, ver, err, nok, nmaybe>>

\* OK and ErrMaybe end the round, any other answer begins it again.
AppendDone(c) ==
  /\ Finished(c, "put")
  /\ \/ result[c].Err \in {"OK", "ErrMaybe"} /\ Count(c, result[c].Err)
     \/ /\ result[c].Err \notin {"OK", "ErrMaybe"}
        /\ GetJson(c)
        /\ Goto(c, "get")
        /\ UNCHANGED <<nok, nmaybe>>
  /\ UNCHANGED <<test, ver, err>>

OneClientAppend(c) ==
  /\ test = "Append"
  /\ AppendGet(c) \/ AppendPut(c) \/ AppendDone(c)

PutterStep(c) == OneClientPut(c) \/ OneClientAppend(c) \/ Stop(c)

-----------------------------------------------------------------------------
(* SpawnClientsAndWait, CheckPutConcurrent and CheckAppends *)

AllDone == \A c \in Putters : pc[c] = "done"

Nok == MapThenSumSet(LAMBDA c : nok[c], Putters)
Nmaybe == MapThenSumSet(LAMBDA c : nmaybe[c], Putters)

StartCheck ==
  /\ AllDone
  /\ pc[Checker] = "wait"
  /\ GetJson(Checker)
  /\ Goto(Checker, "check")
  /\ UNCHANGED <<test, ver, err, nok, nmaybe>>

\* CheckPutConcurrent: "Wrong number of puts"
WrongCount(ver0) ==
  IF Unreliable THEN ver0 > Nok + Nmaybe ELSE ver0 # Nok

\* The positions of c's entries in es; what CheckAppends expects next of c
\* after the last one, and how many it has skipped.
Mine(es, c) == {i \in 1..Len(es) : es[i][1] = c}
Expect(es, c) == IF Mine(es, c) = {} THEN 0 ELSE es[Max(Mine(es, c))][2] + 1
Skipped(es, c) == Expect(es, c) - Cardinality(Mine(es, c))

\* CheckAppends: an old put; "appends in val != puts on server"; "skipped
\* puts on server > maybe"; "puts on server > ok+maybe".
WrongAppends(es, ver0) ==
  \/ Len(es) + 1 # ver0
  \/ \E c \in Putters :
       \/ \E i, j \in Mine(es, c) : i < j /\ es[i][2] >= es[j][2]
       \/ Skipped(es, c) > nmaybe[c]
       \/ Expect(es, c) > nok[c] + nmaybe[c]

Check ==
  /\ Finished(Checker, "check")
  /\ Goto(Checker,
          IF \/ result[Checker].Err # "OK"
             \/ /\ test = "PutConcurrent"
                /\ WrongCount(result[Checker].Version)
             \/ /\ test = "Append"
                /\ WrongAppends(result[Checker].Value, result[Checker].Version)
            THEN "fatal" ELSE "passed")
  /\ UNCHANGED <<kvVars, test, ver, err, nok, nmaybe>>

CheckStep == StartCheck \/ Check

-----------------------------------------------------------------------------
(* TestUnreliableNet and PutAtLeastOnce.  The test at the end of the first *)
(* whether there was an ErrMaybe at all is left to chance, and left out.   *)

\* The value is i: only 0 and the others are told apart.
OneClientTry ==
  /\ pc[Checker] = "loop"
  /\ PutJson(Checker, Entry(Checker, nmaybe[Checker]), ver[Checker])
  /\ Goto(Checker, "put")
  /\ UNCHANGED <<test, ver, err, nok, nmaybe>>

\* TestUnreliableNet: put again after ErrMaybe, "it should fail with
\* ErrVersion".
TryReturned ==
  /\ test = "UnreliableNet"
  /\ Finished(Checker, "put")
  /\ LET e == result[Checker].Err IN
     \/ /\ e = "ErrMaybe"
        /\ nmaybe' = [nmaybe EXCEPT ![Checker] = 1]
        /\ Goto(Checker, "loop")
        /\ UNCHANGED kvVars
     \/ /\ e # "ErrMaybe"
        /\ IF nmaybe[Checker] > 0 /\ e # "ErrVersion"
             THEN Goto(Checker, "fatal") /\ UNCHANGED kvVars
             ELSE GetJson(Checker) /\ Goto(Checker, "get")
        /\ UNCHANGED nmaybe
  /\ UNCHANGED <<test, ver, err, nok>>

\* The next try, if this one has left value 0 with the next version.
NextTry ==
  /\ test = "UnreliableNet"
  /\ Finished(Checker, "get")
  /\ IF \/ result[Checker].Err # "OK"
        \/ result[Checker].Version # ver[Checker] + 1
        \/ result[Checker].Value # Entry(Checker, 0)
       THEN Goto(Checker, "fatal") /\ UNCHANGED <<ver, nmaybe>>
       ELSE /\ ver' = [ver EXCEPT ![Checker] = @ + 1]
            /\ nmaybe' = [nmaybe EXCEPT ![Checker] = 0]
            /\ Goto(Checker, IF ver[Checker] + 1 = NTry THEN "passed" ELSE "loop")
  /\ UNCHANGED <<kvVars, test, err, nok>>

\* PutAtLeastOnce: the version goes up with every answer but ErrNoKey.
PutAtLeastOnce ==
  /\ test = "AtLeastOnce"
  /\ Finished(Checker, "put")
  /\ LET e == result[Checker].Err IN
     \/ /\ e = "OK"
        /\ ver' = [ver EXCEPT ![Checker] = @ + 1]
        /\ GetJson(Checker)
        /\ Goto(Checker, "get")
     \/ /\ e \in {"ErrMaybe", "ErrVersion"}
        /\ ver[Checker] < NTry
        /\ ver' = [ver EXCEPT ![Checker] = @ + 1]
        /\ Goto(Checker, "loop")
        /\ UNCHANGED kvVars
     \/ /\ e = "ErrNoKey"
        /\ Goto(Checker, IF ver[Checker] # 0 THEN "fatal" ELSE "loop")
        /\ UNCHANGED <<kvVars, ver>>
  /\ UNCHANGED <<test, err, nok, nmaybe>>

CheckGet ==
  /\ test = "AtLeastOnce"
  /\ Finished(Checker, "get")
  /\ Goto(Checker,
          IF \/ result[Checker].Err # "OK"
             \/ result[Checker].Value # Entry(Checker, 0)
             \/ result[Checker].Version # ver[Checker]
            THEN "fatal" ELSE "passed")
  /\ UNCHANGED <<kvVars, test, ver, err, nok, nmaybe>>

OneClientStep ==
  OneClientTry \/ TryReturned \/ NextTry \/ PutAtLeastOnce \/ CheckGet

-----------------------------------------------------------------------------
\* An end that is disabled between two operations might as well be disabled
\* when the next one has been sent.
LossStep(c) ==
  \/ LoseRequest(c)
  \/ GiveUp(c)
  \/ LoseReply(c)
  \/ (rpc[c] # "idle" \/ ~enabled[c]) /\ Enable(c)

Next ==
  \/ \E c \in Putters : PutterStep(c)
  \/ CheckStep
  \/ OneClientStep
  \/ /\ \/ \E c \in Clients : Dispatch(c) \/ Handle(c) \/ Return(c)
        \/ \E c \in Clients : LossStep(c)
        \/ \E s \in LateSlots : HandleLate(s)
     /\ UNCHANGED testVars

Spec == Init /\ [][Next]_vars

(***************************************************************************)
(* Fairness.  A goroutine that can run eventually does, and the tester     *)
(* signals `done` at last.  A loss is a coin flip for each message, so     *)
(* infinitely many tries include a request that is delivered and a reply   *)
(* that is (strong fairness).  A clerk promises nothing while its end is   *)
(* disabled: from some time on the tester leaves it enabled.               *)
(***************************************************************************)
Fairness ==
  /\ \A c \in Clients :
       /\ SF_vars(Dispatch(c) /\ UNCHANGED testVars)
       /\ WF_vars(Handle(c) /\ UNCHANGED testVars)
       /\ SF_vars(Return(c) /\ UNCHANGED testVars)
       /\ <>[]enabled[c]
  /\ \A c \in Putters : WF_vars(PutterStep(c))
  /\ WF_vars(CheckStep)

FairSpec == Spec /\ Fairness

-----------------------------------------------------------------------------
(* Properties. *)

\* No Fatalf is reached, in any of the tests: no clerk returns an error that
\* the test does not expect, the key is always there to be read, no wrong
\* value is read, CheckPutConcurrent finds the right number of Puts,
\* CheckAppends a list with the right entries in the right order, and "if
\* Clerk.Put returns ErrMaybe, the Put must have happened, since the test
\* uses only one client" (TestUnreliableNet): putting again fails.
NoFatal == \A c \in Clients : pc[c] # "fatal"

\* Once the clients are done the version is at least the number of OKs and
\* at most that of OKs and ErrMaybes, and stays so, although handlers that
\* were left behind may still run after the check.
PutsCounted ==
  test = "PutConcurrent" /\ AllDone => dataVersion[Key] \in Nok..(Nok + Nmaybe)

\* No append is lost: every Put that is performed, late ones included,
\* extends the list that is there by one entry.
NoAppendLost ==
  [][test = "Append" /\ data'[Key] # data[Key]
       => /\ IsPrefix(data[Key], data'[Key])
          /\ Len(data'[Key]) = Len(data[Key]) + 1]_vars

\* A test with several clients comes to an end: every clerk operation
\* returns, and nobody goes on losing to faster clients for ever.  (The
\* tests with one client may meet ErrMaybe every time.)
TestEnds == Concurrent => <>(pc[Checker] = "passed")

=============================================================================
