------------------------------- MODULE Demux -------------------------------
(***************************************************************************)
(* Concurrent calls over one socket: lab1/src/tester1/demux (dmxclnt.go,   *)
(* callmap.go, dmxsrv.go, transport.go) below lab1/src/tester1/sockrpc.    *)
(* The tester and the daemons of ServerGrp reach each other this way.      *)
(*                                                                         *)
(* Each caller is a goroutine in SendReceive:                              *)
(*                                                                         *)
(*   idle -> tagged -> queued -> write -> wait -> idle                     *)
(*                                                                         *)
(* "write" holds dmx.mu.  One goroutine, the reader, hands the replies to  *)
(* the callers by their tags, and when the connection fails an error to    *)
(* everybody who is left.  The server runs a goroutine per request.        *)
(*                                                                         *)
(* A message in the socket is one element of `up` or `down`; both hold at  *)
(* most Cap messages, and a writer waits for room.  The data of a request  *)
(* is a number of its own, and a reply is the data that was served.  Tags  *)
(* wrap around after 2^32 calls, far beyond MaxCalls.                      *)
(***************************************************************************)
EXTENDS Naturals, Sequences

CONSTANTS
  Callers,
  Cap,        \* bound: messages in one direction of the socket
  MaxCalls,   \* bound: calls in all
  NoOne

ASSUME DemuxAssumption ==
  /\ Cap \in Nat \ {0}
  /\ MaxCalls \in Nat
  /\ NoOne \notin Callers

VARIABLES
  nextTag,    \* DemuxClnt.nextTag
  closed,     \* callMap.closed
  calls,      \* callMap.calls: pairs of a tag and the caller that waits
  mu,         \* the writer that holds DemuxClnt.mu, or NoOne
  pc, tag,    \* of each caller
  want,       \* want[c]: the data c sends
  res,        \* res[c]: what its last call returned
  made,       \* number of calls
  reader,     \* the reader of DemuxClnt
  closing     \* progress of DemuxClnt.Close

clntVars == <<nextTag, closed, calls, mu, pc, tag, want, res, made, reader,
              closing>>

VARIABLES
  open,       \* the client's side of the connection is open
  alive,      \* the server's process is alive
  up, down,   \* messages in the socket
  srvClosed,  \* DemuxSrv.closed
  serving,    \* requests whose goroutine is in ServeRequest
  replying,   \* requests that were served and not yet answered
  served      \* history: data that was served

connVars == <<open, alive, up, down>>
srvVars == <<srvClosed, serving, replying, served>>
vars == <<clntVars, connVars, srvVars>>

Tags == 0..(MaxCalls + 1)
Msgs == [tag : Tags, data : 0..MaxCalls]

Connected == open /\ alive

Results == [data : 0..MaxCalls, ok : BOOLEAN]

TypeOK ==
  /\ nextTag \in Tags
  /\ closed \in BOOLEAN
  /\ calls \subseteq Tags \X Callers
  /\ mu \in Callers \cup {NoOne}
  /\ \A c \in Callers : pc[c] = "write" <=> mu = c
  /\ pc \in [Callers -> {"idle", "tagged", "queued", "write", "wait"}]
  /\ tag \in [Callers -> Tags]
  /\ want \in [Callers -> 0..MaxCalls]
  /\ res \in [Callers -> Results]
  /\ made \in 0..MaxCalls
  /\ reader \in [st : {"read", "reply", "closing", "failing", "end", "fatal"},
                 msg : Msgs, todo : SUBSET Tags]
  /\ closing \in {"no", "called", "cut", "closed"}
  /\ open \in BOOLEAN
  /\ alive \in BOOLEAN
  /\ up \in Seq(Msgs)
  /\ down \in Seq(Msgs)
  /\ srvClosed \in BOOLEAN
  /\ serving \subseteq Msgs
  /\ replying \subseteq Msgs
  /\ served \subseteq 0..MaxCalls

NoMsg == [tag |-> 0, data |-> 0]

\* NewDemuxClnt and NewDemuxSrv: tag 0 was used for the InitMsg.
Init ==
  /\ nextTag = 1
  /\ closed = FALSE
  /\ calls = {}
  /\ mu = NoOne
  /\ pc = [c \in Callers |-> "idle"]
  /\ tag = [c \in Callers |-> 0]
  /\ want = [c \in Callers |-> 0]
  /\ res = [c \in Callers |-> [data |-> 0, ok |-> FALSE]]
  /\ made = 0
  /\ reader = [st |-> "read", msg |-> NoMsg, todo |-> {}]
  /\ closing = "no"
  /\ open = TRUE
  /\ alive = TRUE
  /\ up = <<>>
  /\ down = <<>>
  /\ srvClosed = FALSE
  /\ serving = {}
  /\ replying = {}
  /\ served = {}

-----------------------------------------------------------------------------
(* DemuxClnt.SendReceive *)

Goto(c, l) == pc' = [pc EXCEPT ![c] = l]

Return(c, d, ok) ==
  /\ Goto(c, "idle")
  /\ res' = [res EXCEPT ![c] = [data |-> d, ok |-> ok]]

\* Mutant of TakeTag: two callers may draw the same tag.
TakeTagTwice(c) ==
  /\ pc[c] = "idle"
  /\ made < MaxCalls
  /\ mu = NoOne
  /\ tag' = [tag EXCEPT ![c] = nextTag]
  /\ nextTag' \in {nextTag, nextTag + 1}
  /\ made' = made + 1
  /\ want' = [want EXCEPT ![c] = made + 1]
  /\ Goto(c, "tagged")
  /\ UNCHANGED <<closed, calls, mu, res, reader, closing, connVars, srvVars>>

TakeTag(c) ==
  /\ pc[c] = "idle"
  /\ made < MaxCalls
  /\ mu = NoOne
  /\ tag' = [tag EXCEPT ![c] = nextTag]
  /\ nextTag' = nextTag + 1
  /\ made' = made + 1
  /\ want' = [want EXCEPT ![c] = made + 1]
  /\ Goto(c, "tagged")
  /\ UNCHANGED <<closed, calls, mu, res, reader, closing, connVars, srvVars>>

\* The entry of tag t, as a map would have it.
With(t, c) == {p \in calls : p[1] # t} \cup {<<t, c>>}

\* Mutant of Put: the call map is not checked.
PutUnchecked(c) ==
  /\ pc[c] = "tagged"
  /\ calls' = With(tag[c], c)
  /\ Goto(c, "queued")
  /\ UNCHANGED <<nextTag, closed, mu, tag, want, res, made, reader, closing,
                 connVars, srvVars>>

\* callMap.put fails when the connection is closed.
Put(c) ==
  /\ pc[c] = "tagged"
  /\ IF closed
       THEN Return(c, 0, FALSE) /\ UNCHANGED calls
       ELSE calls' = With(tag[c], c) /\ Goto(c, "queued") /\ UNCHANGED res
  /\ UNCHANGED <<nextTag, closed, mu, tag, want, made, reader, closing,
                 connVars, srvVars>>

Lock(c) ==
  /\ pc[c] = "queued"
  /\ mu = NoOne
  /\ mu' = c
  /\ Goto(c, "write")
  /\ UNCHANGED <<nextTag, closed, calls, tag, want, res, made, reader,
                 closing, connVars, srvVars>>

\* Mutant of Write: an error returns with the lock held.
WriteKeepsLock(c) ==
  /\ pc[c] = "write"
  /\ IF Connected
       THEN /\ Len(up) < Cap
            /\ up' = Append(up, [tag |-> tag[c], data |-> want[c]])
            /\ mu' = NoOne
       ELSE UNCHANGED <<up, mu>>
  /\ Goto(c, "wait")
  /\ UNCHANGED <<nextTag, closed, calls, tag, want, res, made, reader,
                 closing, open, alive, down, srvVars>>

\* Mutant of Write: after an error nobody listens to the channel.
WriteReturnsError(c) ==
  /\ pc[c] = "write"
  /\ IF Connected
       THEN /\ Len(up) < Cap
            /\ up' = Append(up, [tag |-> tag[c], data |-> want[c]])
            /\ Goto(c, "wait")
            /\ UNCHANGED <<calls, res>>
       ELSE /\ calls' = calls \ {<<tag[c], c>>}
            /\ Return(c, 0, FALSE)
            /\ UNCHANGED up
  /\ mu' = NoOne
  /\ UNCHANGED <<nextTag, closed, tag, want, made, reader, closing, open,
                 alive, down, srvVars>>

\* transport.WriteCall; an error is not looked at.
Write(c) ==
  /\ pc[c] = "write"
  /\ IF Connected
       THEN /\ Len(up) < Cap
            /\ up' = Append(up, [tag |-> tag[c], data |-> want[c]])
       ELSE UNCHANGED up
  /\ mu' = NoOne
  /\ Goto(c, "wait")
  /\ UNCHANGED <<nextTag, closed, calls, tag, want, res, made, reader,
                 closing, open, alive, down, srvVars>>

-----------------------------------------------------------------------------
(* DemuxClnt.reader *)

SetReader(st, m, todo) == reader' = [st |-> st, msg |-> m, todo |-> todo]

Read ==
  /\ reader.st = "read"
  /\ down # <<>>
  /\ down' = Tail(down)
  /\ SetReader("reply", Head(down), {})
  /\ UNCHANGED <<nextTag, closed, calls, mu, pc, tag, want, res, made,
                 closing, open, alive, up, srvVars>>

\* After a failure some of what had arrived may still be read.
ReadFails ==
  /\ reader.st = "read"
  /\ ~Connected
  /\ closed' = TRUE
  /\ SetReader("closing", NoMsg, {})
  /\ UNCHANGED <<nextTag, calls, mu, pc, tag, want, res, made, closing,
                 connVars, srvVars>>

Outstanding ==
  /\ reader.st = "closing"
  /\ SetReader("failing", NoMsg, {p[1] : p \in calls})
  /\ UNCHANGED <<nextTag, closed, calls, mu, pc, tag, want, res, made,
                 closing, connVars, srvVars>>

\* DemuxClnt.reply: the channel has no buffer, the reader waits until the
\* caller is there to receive.  Without an entry it is log.Fatalf.
Reply(t, d, ok) ==
  \/ \E c \in Callers :
       /\ <<t, c>> \in calls
       /\ pc[c] = "wait"
       /\ calls' = calls \ {<<t, c>>}
       /\ Return(c, d, ok)
  \/ /\ \A c \in Callers : <<t, c>> \notin calls
     /\ UNCHANGED <<calls, pc, res>>

Known(t) == \E c \in Callers : <<t, c>> \in calls

ReplyOne ==
  /\ reader.st = "reply"
  /\ Reply(reader.msg.tag, reader.msg.data, TRUE)
  /\ SetReader(IF Known(reader.msg.tag) THEN "read" ELSE "fatal", NoMsg, {})
  /\ UNCHANGED <<nextTag, closed, mu, tag, want, made, closing, connVars,
                 srvVars>>

FailOne(t) ==
  /\ reader.st = "failing"
  /\ t \in reader.todo
  /\ Reply(t, 0, FALSE)
  /\ SetReader(IF Known(t) THEN "failing" ELSE "fatal", NoMsg,
               reader.todo \ {t})
  /\ UNCHANGED <<nextTag, closed, mu, tag, want, made, closing, connVars,
                 srvVars>>

ReaderEnds ==
  /\ reader.st = "failing"
  /\ reader.todo = {}
  /\ SetReader("end", NoMsg, {})
  /\ UNCHANGED <<nextTag, closed, calls, mu, pc, tag, want, res, made,
                 closing, connVars, srvVars>>

-----------------------------------------------------------------------------
(* DemuxClnt.Close *)

Close ==
  /\ closing = "no"
  /\ closing' = IF closed THEN "closed" ELSE "called"
  /\ UNCHANGED <<nextTag, closed, calls, mu, pc, tag, want, res, made,
                 reader, connVars, srvVars>>

CloseTrans ==
  /\ closing = "called"
  /\ closing' = "cut"
  /\ open' = FALSE
  /\ UNCHANGED <<nextTag, closed, calls, mu, pc, tag, want, res, made,
                 reader, alive, up, down, srvVars>>

CloseMap ==
  /\ closing = "cut"
  /\ closing' = "closed"
  /\ closed' = TRUE
  /\ UNCHANGED <<nextTag, calls, mu, pc, tag, want, res, made, reader,
                 connVars, srvVars>>

-----------------------------------------------------------------------------
(* DemuxSrv *)

SrvRead ==
  /\ alive
  /\ ~srvClosed
  /\ up # <<>>
  /\ up' = Tail(up)
  /\ serving' = serving \cup {Head(up)}
  /\ UNCHANGED <<clntVars, open, alive, down, srvClosed, replying, served>>

\* io.EOF
SrvEOF ==
  /\ alive
  /\ ~srvClosed
  /\ ~open
  /\ up = <<>>
  /\ srvClosed' = TRUE
  /\ UNCHANGED <<clntVars, connVars, serving, replying, served>>

\* RPCSrv.ServeRequest: the handler runs.
ServeRequest(m) ==
  /\ m \in serving
  /\ serving' = serving \ {m}
  /\ replying' = replying \cup {m}
  /\ served' = served \cup {m.data}
  /\ UNCHANGED <<clntVars, connVars, srvClosed>>

SrvWrite(m) ==
  /\ m \in replying
  /\ IF open
       THEN Len(down) < Cap /\ down' = Append(down, m)
       ELSE UNCHANGED down
  /\ replying' = replying \ {m}
  /\ UNCHANGED <<clntVars, open, alive, up, srvClosed, serving, served>>

\* The process of the server is killed.
Kill ==
  /\ alive
  /\ alive' = FALSE
  /\ up' = <<>>
  /\ serving' = {}
  /\ replying' = {}
  /\ UNCHANGED <<clntVars, open, down, srvClosed, served>>

-----------------------------------------------------------------------------
CallerStep(c) == TakeTag(c) \/ Put(c) \/ Lock(c) \/ Write(c)

ReaderStep ==
  \/ Read
  \/ ReadFails
  \/ Outstanding
  \/ ReplyOne
  \/ \E t \in reader.todo : FailOne(t)
  \/ ReaderEnds

CloseStep == CloseTrans \/ CloseMap

SrvStep(m) == ServeRequest(m) \/ SrvWrite(m)

Next ==
  \/ \E c \in Callers : CallerStep(c)
  \/ ReaderStep
  \/ Close
  \/ CloseStep
  \/ SrvRead
  \/ SrvEOF
  \/ \E m \in serving \cup replying : SrvStep(m)
  \/ Kill

Spec == Init /\ [][Next]_vars

(***************************************************************************)
(* Fairness: goroutines that can run do, some of them at a time.  A call   *)
(* may be made or not, Close be called or not, the server be killed or     *)
(* not.  As there are only MaxCalls calls nobody can be overtaken for      *)
(* ever, and fairness between the callers, which Go guarantees as well, is *)
(* not needed.                                                             *)
(***************************************************************************)
Fairness ==
  /\ WF_vars(\E c \in Callers : Put(c) \/ Lock(c) \/ Write(c))
  /\ WF_vars(ReaderStep)
  /\ WF_vars(CloseStep)
  /\ WF_vars(SrvRead)
  /\ WF_vars(\E m \in serving \cup replying : SrvStep(m))

FairSpec == Spec /\ Fairness

-----------------------------------------------------------------------------
(* Properties. *)

\* The reader always finds the call a reply belongs to: log.Fatalf("reply %v
\* no matching req %v") in DemuxClnt.reply is never reached, whatever is
\* closed, killed or late.
NoFatal == reader.st # "fatal"

\* A call that succeeds gets the answer to its own request, which the server
\* has carried out ("matches responses with requests using the call's tag").
OwnReply ==
  \A c \in Callers :
    pc[c] = "idle" /\ res[c].ok => res[c].data = want[c] /\ want[c] \in served

\* Every call returns, also when the connection fails or is closed at any
\* moment: nobody is left in the call map, everybody is idle again and again.
SendReceiveReturns ==
  \A c \in Callers : []<>(pc[c] = "idle")

=============================================================================
