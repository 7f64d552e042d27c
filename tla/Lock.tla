-------------------------------- MODULE Lock --------------------------------
(***************************************************************************)
(* The distributed lock of lab1/src/kvsrv1/lock/lock.go over the clerks,   *)
(* the network and the server of KVClerk.  The lock with name l is the key *)
(* l of the server, with the value "held" or "free" (a missing key is a    *)
(* free lock).  Nothing in the value says who holds it.                    *)
(*                                                                         *)
(* lpc[c] is where client c is: "out" of the lock, waiting for the Get or  *)
(* for the Put of Acquire, "in" the lock, or waiting for the Get or the    *)
(* Put of Release.                                                         *)
(*                                                                         *)
(* The history variable `doubt` collects the locks that a fault has left   *)
(* in doubt: one of their Puts was performed and its answer was lost, or   *)
(* its handler was left behind.                                            *)
(***************************************************************************)
EXTENDS KVClerk

CONSTANTS
  LockOf,       \* LockOf[c]: the lockname client c was made with
  MaxRounds,    \* bound: calls of Acquire per client
  MaxVersion    \* bound: versions of a lock's key

ASSUME LockAssumption ==
  /\ LockOf \in [Clients -> Keys]
  /\ {"free", "held"} \subseteq Values
  /\ Clients \subseteq Ids
  /\ MaxRounds \in Nat
  /\ MaxVersion \in Nat

VARIABLES
  lpc,
  rounds,   \* rounds[c]: calls of Acquire so far
  doubt

lockVars == <<lpc, rounds, doubt>>
vars == <<kvVars, lockVars>>

LockPcs == {"out", "acqGet", "acqPut", "in", "relGet", "relPut"}

TypeOK ==
  /\ KVTypeOK
  /\ lpc \in [Clients -> LockPcs]
  /\ rounds \in [Clients -> 0..MaxRounds]
  /\ doubt \subseteq Keys
  /\ \A c \in Clients :
       lpc[c] \notin {"out", "in"} /\ rpc[c] = "idle" => result[c] # NoReply

Init ==
  /\ KVInit
  /\ lpc = [c \in Clients |-> "out"]
  /\ rounds = [c \in Clients |-> 0]
  /\ doubt = {}

-----------------------------------------------------------------------------
(* The loop that Acquire and Release share: Get the lock's key; if it      *)
(* reads `from`, or is missing, Put `to` with the version read; leave the  *)
(* loop if that Put answers OK, sleep and start over in every other case.  *)

Goto(c, l) ==
  /\ lpc' = [lpc EXCEPT ![c] = l]
  /\ UNCHANGED <<rounds, doubt>>

AskGet(c, get) == StartGet(c, LockOf[c], c) /\ Goto(c, get)

\* What the Get returned lets the loop try its Put.
MayPut(c, from) ==
  \/ result[c].Err = "ErrNoKey"
  \/ result[c].Err = "OK" /\ result[c].Value = from

AfterGet(c, get, put, from, to) ==
  /\ lpc[c] = get
  /\ rpc[c] = "idle"
  /\ \/ /\ MayPut(c, from)
        /\ result[c].Version < MaxVersion
        /\ StartPut(c, LockOf[c], to, result[c].Version, c)
        /\ Goto(c, put)
     \/ /\ ~MayPut(c, from)
        /\ AskGet(c, get)

AfterPut(c, get, put, done) ==
  /\ lpc[c] = put
  /\ rpc[c] = "idle"
  /\ \/ /\ result[c].Err = "OK"
        /\ Goto(c, done)
        /\ UNCHANGED kvVars
     \/ /\ result[c].Err # "OK"
        /\ AskGet(c, get)

-----------------------------------------------------------------------------
Acquire(c) ==
  /\ lpc[c] = "out"
  /\ rounds[c] < MaxRounds
  /\ StartGet(c, LockOf[c], c)
  /\ lpc' = [lpc EXCEPT ![c] = "acqGet"]
  /\ rounds' = [rounds EXCEPT ![c] = @ + 1]
  /\ UNCHANGED doubt

AcquireGot(c) == AfterGet(c, "acqGet", "acqPut", "free", "held")

\* Mutant of AcquirePutDone: Acquire returns on ErrMaybe as well.
AcquireTrustsMaybe(c) ==
  \/ AfterPut(c, "acqGet", "acqPut", "in")
  \/ /\ lpc[c] = "acqPut"
     /\ rpc[c] = "idle"
     /\ result[c].Err = "ErrMaybe"
     /\ Goto(c, "in")
     /\ UNCHANGED kvVars

AcquirePutDone(c) == AfterPut(c, "acqGet", "acqPut", "in")

Release(c) ==
  /\ lpc[c] = "in"
  /\ AskGet(c, "relGet")

\* Mutant of ReleaseGot: Release puts the value that Acquire puts.
ReleasePutsHeld(c) == AfterGet(c, "relGet", "relPut", "held", "held")

\* Mutant of ReleaseGot: Release waits for the value that Acquire waits for.
ReleaseWaitsForFree(c) == AfterGet(c, "relGet", "relPut", "free", "free")

ReleaseGot(c) == AfterGet(c, "relGet", "relPut", "held", "free")

ReleasePutDone(c) == AfterPut(c, "relGet", "relPut", "out")

LockStep(c) ==
  \/ AcquireGot(c)
  \/ AcquirePutDone(c)
  \/ Release(c)
  \/ ReleaseGot(c)
  \/ ReleasePutDone(c)

ClerkStep(c) ==
  /\ \/ Dispatch(c)
     \/ Handle(c)
     \/ Return(c)
  /\ UNCHANGED lockVars

\* The lock whose Put client c hears nothing about if its call now fails.
Unanswered(c) ==
  IF /\ op[c].Op = "Put"
     /\ \/ rpc[c] = "dispatched"
        \/ rpc[c] = "replied" /\ reply[c].Err = "OK"
    THEN {LockOf[c]}
    ELSE {}

LossStep(c) ==
  /\ \/ LoseRequest(c)
     \/ LoseReply(c)
     \/ GiveUp(c)
  /\ doubt' = doubt \cup Unanswered(c)
  /\ UNCHANGED <<lpc, rounds>>

FaultStep(c) ==
  \/ LossStep(c)
  \/ Enable(c) /\ UNCHANGED lockVars

LateStep(s) == HandleLate(s) /\ UNCHANGED lockVars

Next ==
  \/ \E c \in Clients :
       \/ Acquire(c)
       \/ LockStep(c)
       \/ ClerkStep(c)
       \/ FaultStep(c)
  \/ \E s \in LateSlots : LateStep(s)

Spec == Init /\ [][Next]_vars

(***************************************************************************)
(* Fairness.  A client that is inside Acquire, Release or a Get or Put     *)
(* keeps running, and one that holds the lock releases it.  Infinitely     *)
(* many tries of a message include a delivered one, and from some time on  *)
(* the tester leaves the ends enabled.  Nobody has to call Acquire.        *)
(***************************************************************************)
Fairness ==
  \A c \in Clients :
    /\ WF_vars(LockStep(c))
    /\ SF_vars(Dispatch(c) /\ UNCHANGED lockVars)
    /\ WF_vars(Handle(c) /\ UNCHANGED lockVars)
    /\ SF_vars(Return(c) /\ UNCHANGED lockVars)
    /\ <>[]enabled[c]

FairSpec == Spec /\ Fairness

-----------------------------------------------------------------------------
(* Properties. *)

SameLock(c, d) == LockOf[c] = LockOf[d]

Acquiring(c) == lpc[c] \in {"acqGet", "acqPut"}

\* The Put that a client has in progress was performed but its answer has
\* not reached the lock code.
PutWasPerformed(c) ==
  \/ rpc[c] = "replied" /\ reply[c].Err = "OK"
  \/ rpc[c] = "idle" /\ result[c].Err = "OK"

\* Clients that stand behind the value "held": they hold the lock, are about
\* to learn that they do, or have not yet given it back.
Owner(c) ==
  \/ lpc[c] \in {"in", "relGet"}
  \/ lpc[c] = "acqPut" /\ PutWasPerformed(c)
  \/ lpc[c] = "relPut" /\ ~PutWasPerformed(c)

Exclusive(l) ==
  \A c, d \in Clients :
    /\ c # d
    /\ LockOf[c] = l
    /\ LockOf[d] = l
    => ~(lpc[c] = "in" /\ lpc[d] = "in")

HasOwner(l) ==
  data[l] = "held" => \E c \in Clients : LockOf[c] = l /\ Owner(c)

\* Two clients of one lock are never both between the return of Acquire and
\* the call of Release (lock_test.go fails with "two clients acquired lock").
MutualExclusion == \A l \in Keys : Exclusive(l)

\* A lock that reads "held" is on its way to being released: somebody owns
\* it.  If nobody did, every later Acquire would spin for ever.
HeldHasOwner == \A l \in Keys : HasOwner(l)

\* On any network a lock is exclusive, and held by somebody if it reads
\* "held", until the answer of one of its own Puts is lost: lost requests,
\* lost answers of Gets and of Puts that were refused, and everything that
\* happens to other locks, do no harm.
FaultsAreContained == \A l \in Keys \ doubt : Exclusive(l) /\ HasOwner(l)

\* Whoever waits in Acquire sees the lock given to somebody, itself or
\* another client, again and again until it is its turn or the others stop,
\* whatever is lost or cut off, unless the lock is in doubt.
SomebodyAcquires ==
  \A c \in Clients :
    Acquiring(c) ~> \/ \E d \in Clients : SameLock(c, d) /\ lpc[d] = "in"
                    \/ LockOf[c] \in doubt

\* Release returns, unless the lock is in doubt.
ReleaseReturns ==
  \A c \in Clients :
    (lpc[c] \in {"relGet", "relPut"})
      ~> (lpc[c] = "out" \/ LockOf[c] \in doubt)

-----------------------------------------------------------------------------
(* The inductive invariant behind the safety properties. *)

\* The call in progress is the one the loop asked for.
CallMatches(c) ==
  /\ lpc[c] \in {"out", "in"} => rpc[c] = "idle"
  /\ lpc[c] \in {"acqGet", "relGet"} /\ rpc[c] # "idle" =>
       op[c].Op = "Get" /\ op[c].Key = LockOf[c]
  /\ lpc[c] \in {"acqPut", "relPut"} /\ rpc[c] # "idle" =>
       /\ op[c].Op = "Put"
       /\ op[c].Key = LockOf[c]
       /\ op[c].Value = IF lpc[c] = "acqPut" THEN "held" ELSE "free"

\* What a Get returned is the current value or has an older version.
Fresh(c, x) ==
  /\ x.Version <= dataVersion[LockOf[c]]
  /\ x.Version = dataVersion[LockOf[c]] => x.Value = data[LockOf[c]]
  /\ x.Err = "ErrNoKey" => x.Value = NoValue

\* Acquire puts "held" only over a value that is not "held".
AcquireIsGuarded(c) ==
  /\ lpc[c] = "acqGet" /\ rpc[c] = "replied" => Fresh(c, reply[c])
  /\ lpc[c] = "acqGet" /\ rpc[c] = "idle" => Fresh(c, result[c])
  /\ lpc[c] = "acqPut" /\ rpc[c] # "idle" =>
       /\ op[c].Version <= dataVersion[LockOf[c]]
       /\ op[c].Version = dataVersion[LockOf[c]] => data[LockOf[c]] # "held"

ClientInv(c) ==
  /\ CallMatches(c)
  /\ AcquireIsGuarded(c)
  /\ Owner(c) /\ LockOf[c] \notin doubt => data[LockOf[c]] = "held"

OneOwner ==
  \A c, d \in Clients :
    /\ SameLock(c, d)
    /\ LockOf[c] \notin doubt
    /\ Owner(c)
    /\ Owner(d)
    => c = d

LockInv ==
  /\ \A s \in LateSlots : late[s] # NoOp => late[s].Key \in doubt
  /\ \A c \in Clients : ClientInv(c)
  /\ OneOwner
  /\ \A l \in Keys \ doubt : HasOwner(l)

\* On a reliable network nothing is ever lost.
NoFaults ==
  /\ \A c \in Clients : enabled[c]
  /\ doubt = {}

=============================================================================
