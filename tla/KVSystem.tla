------------------------------ MODULE KVSystem ------------------------------
(***************************************************************************)
(* Applications that call Get and Put through their clerks, as the tests   *)
(* of kvsrv1 and kvtest1 do, over the server and the network of KVClerk.   *)
(*                                                                         *)
(* Two history variables say what happened: `applied` records every Put    *)
(* the server performed and `returned` every Put that came back to its     *)
(* caller.  An operation is named <<c, n>>, the n-th one of client c.      *)
(***************************************************************************)
EXTENDS KVClerk

CONSTANTS
  MaxOps,       \* bound: operations per client
  MaxVersion,   \* bound: largest version an application makes up
  AnyVersion    \* may an application Put a version nobody has read

ASSUME BoundsAssumption ==
  /\ MaxOps \in Nat
  /\ MaxVersion \in Nat
  /\ AnyVersion \in BOOLEAN
  /\ \A c \in Clients, n \in 1..MaxOps : <<c, n>> \in Ids

VARIABLES
  opno,      \* opno[c]: operations client c has started
  applied,   \* Puts performed: [id, key, old] with old the version replaced
  returned   \* Puts returned: [id, err]

histVars == <<opno, applied, returned>>
vars == <<kvVars, histVars>>

TypeOK ==
  /\ KVTypeOK
  /\ opno \in [Clients -> 0..MaxOps]
  /\ applied \subseteq [id : Ids, key : Keys, old : Nat]
  /\ returned \subseteq [id : Ids, err : Errs]

Init ==
  /\ KVInit
  /\ opno = [c \in Clients |-> 0]
  /\ applied = {}
  /\ returned = {}

-----------------------------------------------------------------------------
(* The applications.  A version passed to Put has been read from the       *)
(* server, by this client or by another one, or is 0 to create the key;    *)
(* with AnyVersion it may also be made up.                                 *)

PutVersions(k) ==
  0..(IF AnyVersion THEN MaxVersion ELSE dataVersion[k])

NewId(c) == <<c, opno[c] + 1>>

CanStart(c) == opno[c] < MaxOps

AppGet(c, k) ==
  /\ CanStart(c)
  /\ StartGet(c, k, NewId(c))
  /\ opno' = [opno EXCEPT ![c] = @ + 1]
  /\ UNCHANGED <<applied, returned>>

AppPut(c, k, v) ==
  /\ CanStart(c)
  /\ \E n \in PutVersions(k) : StartPut(c, k, v, n, NewId(c))
  /\ opno' = [opno EXCEPT ![c] = @ + 1]
  /\ UNCHANGED <<applied, returned>>

-----------------------------------------------------------------------------
(* The steps of KVClerk with the history they write. *)

\* What a handler that runs with arguments o adds to `applied`.
Effect(o) ==
  IF o.Op = "Put" /\ PutPerforms(o)
    THEN {[id |-> o.id, key |-> o.Key, old |-> dataVersion[o.Key]]}
    ELSE {}

RunHandler(c) ==
  /\ Handle(c)
  /\ applied' = applied \cup Effect(op[c])
  /\ UNCHANGED <<opno, returned>>

RunLateHandler(s) ==
  /\ HandleLate(s)
  /\ applied' = applied \cup Effect(late[s])
  /\ UNCHANGED <<opno, returned>>

ClerkReturn(c) ==
  /\ Return(c)
  /\ returned' = returned \cup
       (IF op[c].Op = "Put" THEN {[id |-> op[c].id, err |-> ClerkErr(c)]}
                            ELSE {})
  /\ UNCHANGED <<opno, applied>>

NetworkStep(c) ==
  /\ \/ LoseRequest(c)
     \/ Dispatch(c)
     \/ GiveUp(c)
     \/ LoseReply(c)
     \/ Enable(c)
  /\ UNCHANGED histVars

Next ==
  \/ \E c \in Clients :
       \/ \E k \in Keys : AppGet(c, k)
       \/ \E k \in Keys, v \in Values : AppPut(c, k, v)
       \/ RunHandler(c)
       \/ ClerkReturn(c)
       \/ NetworkStep(c)
  \/ \E s \in LateSlots : RunLateHandler(s)

Spec == Init /\ [][Next]_vars

-----------------------------------------------------------------------------
(* Properties. *)

\* A clerk resends a Put until it gets an answer, and abandoned handlers
\* run late, but the server performs each Put at most once.
AtMostOnce ==
  \A a, b \in applied : a.id = b.id => a = b

\* Two Puts never replace the same version of a key: of all clients that
\* read a version exactly one can replace it (the conditional Put that locks
\* and read-modify-write clients rely on).
VersionReplacedOnce ==
  \A a, b \in applied : a.key = b.key /\ a.old = b.old => a = b

\* OK means the Put was performed, ErrVersion that it was not and never will
\* be, whatever handlers are still running (the comment of Clerk.Put).
AnswerIsTrue ==
  \A r \in returned :
    /\ r.err = "OK" => \E a \in applied : a.id = r.id
    /\ r.err = "ErrVersion" => \A a \in applied : a.id # r.id

\* Once Clerk.Put has returned, whatever it returned, the Put does not
\* happen any more.
SettledWhenReturned ==
  [][\A a \in applied' \ applied : \A r \in returned : a.id # r.id]_vars

-----------------------------------------------------------------------------
(* The inductive invariant behind the properties. *)

\* Operations that a handler runs, or may run, for: those in progress and
\* those of handlers left behind.
LiveOps ==
  {op[c] : c \in {d \in Clients : rpc[d] # "idle"}} \cup
  {late[s] : s \in {t \in LateSlots : late[t] # NoOp}}

\* The name i has been given to an operation.
Used(i) == \E c \in Clients : \E n \in 1..opno[c] : i = <<c, n>>

IdsUsed ==
  /\ \A c \in Clients : rpc[c] # "idle" => op[c].id = <<c, opno[c]>>
  /\ \A o \in LiveOps : Used(o.id)
  /\ \A a \in applied : Used(a.id)
  /\ \A r \in returned : Used(r.id)

\* All calls of one operation carry the same arguments, and a Put is
\* performed with its own arguments on the version it asked for.
SameArgs ==
  /\ \A o, p \in LiveOps : o.id = p.id => o = p
  /\ \A o \in LiveOps, a \in applied :
       a.id = o.id => a.key = o.Key /\ a.old = o.Version

\* A version that was replaced does not come back.
VersionPassed == \A a \in applied : a.old < dataVersion[a.key]

\* An operation in progress has not returned.
NotReturned ==
  \A c \in Clients, r \in returned : rpc[c] # "idle" => r.id # op[c].id

\* During an operation's first call no handler was left behind for it, and
\* it was performed only if this call's reply says so.
FirstCall ==
  \A c \in Clients : rpc[c] # "idle" /\ first[c] =>
    /\ \A s \in LateSlots : late[s] # NoOp => late[s].id # op[c].id
    /\ \A a \in applied :
         a.id = op[c].id => rpc[c] = "replied" /\ reply[c].Err = "OK"

\* A Put that was answered OK was performed.
ReplyTrue ==
  \A c \in Clients :
    rpc[c] = "replied" /\ op[c].Op = "Put" /\ reply[c].Err = "OK"
      => \E a \in applied : a.id = op[c].id

\* Nothing runs any more for a Put that returned ErrVersion.
ErrVersionDead ==
  \A r \in returned, o \in LiveOps : r.err = "ErrVersion" => o.id # r.id

HistoryInv ==
  /\ IdsUsed
  /\ SameArgs
  /\ VersionPassed
  /\ NotReturned
  /\ FirstCall
  /\ ReplyTrue
  /\ ErrVersionDead

\* If versions are read before they are used: no operation is ahead of the
\* server, and a Put that was answered, or has returned, is behind it.
SettledInv ==
  /\ \A o \in LiveOps : o.Version <= dataVersion[o.Key]
  /\ \A c \in Clients :
       rpc[c] = "replied" /\ op[c].Op = "Put"
         => op[c].Version < dataVersion[op[c].Key]
  /\ \A r \in returned, o \in LiveOps :
       r.id = o.id => o.Version < dataVersion[o.Key]

=============================================================================
