---------------------------- MODULE DemuxProofs ----------------------------
(***************************************************************************)
(* Proofs about Demux, for any number of callers and calls and any size of *)
(* the socket's buffers: the reader never meets a reply without a call,    *)
(* every answer goes to the caller that asked for it, and when the reader  *)
(* has ended nobody is left in the call map.                               *)
(*                                                                         *)
(* The argument follows a request on its way: through the socket to the    *)
(* server, through its goroutine, and back to the reader.  At every moment *)
(* it is in one place only, and its caller sits in SendReceive with an     *)
(* entry in the call map, as long as the reader still takes replies.       *)
(***************************************************************************)
EXTENDS Demux, TLAPS

-----------------------------------------------------------------------------
(* The inductive invariant. *)

Elems(s) == {s[i] : i \in 1..Len(s)}
Distinct(s) == \A i, j \in 1..Len(s) : s[i] = s[j] => i = j

\* The places of a request or a reply: the two directions of the socket, the
\* sets serving and replying of the server, and the hands of the reader.
InUp == Elems(up)
InDown == Elems(down)
Held == IF reader.st = "reply" THEN {reader.msg} ELSE {}
Flight == InUp \cup serving \cup replying \cup InDown \cup Held

\* The callers in SendReceive: before the request is written, and with an
\* entry in the call map.
Unsent == {"tagged", "queued", "write"}
Listed == {"queued", "write", "wait"}

\* A tag is the number of its call, and nobody shares one.
TagInv ==
  /\ nextTag = made + 1
  /\ \A c \in Callers : tag[c] = want[c] /\ tag[c] <= made
  /\ \A c \in Callers : pc[c] # "idle" => tag[c] > 0
  /\ \A c, d \in Callers : tag[c] = tag[d] /\ tag[c] > 0 => c = d

\* The call map lists exactly the callers between put and their reply.
CallsInv ==
  \A t \in Tags, c \in Callers :
    <<t, c>> \in calls <=> tag[c] = t /\ pc[c] \in Listed

\* A message carries the number of its call, and no caller that still has to
\* write has the same tag.  While the reader takes replies, the caller waits.
FlightInv ==
  /\ \A m \in Flight :
       /\ m.tag = m.data
       /\ m.tag <= made
       /\ \A c \in Callers : pc[c] \in Unsent => tag[c] # m.tag
       /\ reader.st \in {"read", "reply"} =>
            \E c \in Callers : pc[c] = "wait" /\ tag[c] = m.tag
  /\ \A m \in replying \cup InDown \cup Held : m.data \in served

\* A message is in one place, once.
OnceInv ==
  /\ Distinct(up) /\ Distinct(down)
  /\ InUp \cap serving = {} /\ InUp \cap replying = {}
  /\ InUp \cap InDown = {} /\ InUp \cap Held = {}
  /\ serving \cap replying = {} /\ serving \cap InDown = {}
  /\ serving \cap Held = {}
  /\ replying \cap InDown = {} /\ replying \cap Held = {}
  /\ InDown \cap Held = {}

\* When the reader gives up, the map is closed, and those it still has to
\* tell are exactly those in the map.
ReaderInv ==
  /\ reader.st \in {"closing", "failing", "end"} => closed
  /\ reader.st = "failing" => reader.todo = {p[1] : p \in calls}
  /\ reader.st = "end" => calls = {}

IInv ==
  /\ TypeOK
  /\ TagInv
  /\ CallsInv
  /\ FlightInv
  /\ OnceInv
  /\ ReaderInv
  /\ NoFatal
  /\ OwnReply

-----------------------------------------------------------------------------
(* Lemmas about the socket: a queue of different messages. *)

\* Taking the first message off a queue.
LEMMA TakeFirst ==
  ASSUME NEW S, NEW s \in Seq(S), s # <<>>, Distinct(s)
  PROVE  /\ Head(s) \in S /\ Tail(s) \in Seq(S)
         /\ Head(s) \in Elems(s)
         /\ Elems(Tail(s)) = Elems(s) \ {Head(s)}
         /\ Distinct(Tail(s))
<1>1. Len(s) \in Nat /\ Len(s) > 0 /\ Len(Tail(s)) = Len(s) - 1
  OBVIOUS
<1>2. \A i \in 1..Len(Tail(s)) : Tail(s)[i] = s[i + 1]
  OBVIOUS
<1>3. Head(s) = s[1] /\ Head(s) \in S /\ Tail(s) \in Seq(S)
  OBVIOUS
<1>4. Head(s) \in Elems(s)
  BY <1>1, <1>3 DEF Elems
<1>5. ASSUME NEW m \in Elems(Tail(s))
      PROVE  m \in Elems(s) \ {Head(s)}
  <2>1. PICK i \in 1..Len(Tail(s)) : m = Tail(s)[i]
    BY DEF Elems
  <2>2. i + 1 \in 1..Len(s) /\ m = s[i + 1] /\ i + 1 # 1 /\ 1 \in 1..Len(s)
    BY <1>1, <1>2, <2>1
  <2> QED
    BY <1>3, <2>2 DEF Elems, Distinct
<1>6. ASSUME NEW m \in Elems(s), m # Head(s)
      PROVE  m \in Elems(Tail(s))
  <2>1. PICK i \in 1..Len(s) : m = s[i]
    BY DEF Elems
  <2>2. i # 1
    BY <1>3, <1>6, <2>1
  <2>3. i - 1 \in 1..Len(Tail(s)) /\ (i - 1) + 1 = i
    BY <1>1, <2>1, <2>2
  <2>4. Tail(s)[i - 1] = m
    BY <1>2, <2>1, <2>3
  <2> QED
    BY <2>3, <2>4 DEF Elems
<1>7. Distinct(Tail(s))
  <2> SUFFICES ASSUME NEW i \in 1..Len(Tail(s)), NEW j \in 1..Len(Tail(s)),
                      Tail(s)[i] = Tail(s)[j]
               PROVE  i = j
    BY DEF Distinct
  <2>1. i + 1 \in 1..Len(s) /\ j + 1 \in 1..Len(s)
    BY <1>1
  <2>2. s[i + 1] = s[j + 1]
    BY <1>2
  <2>3. i + 1 = j + 1
    BY <2>1, <2>2 DEF Distinct
  <2> QED
    BY <2>3, <1>1
<1> QED
  BY <1>3, <1>4, <1>5, <1>6, <1>7

\* Writing a message that is not in the queue.
LEMMA AddLast ==
  ASSUME NEW S, NEW s \in Seq(S), NEW m \in S, Distinct(s), m \notin Elems(s)
  PROVE  /\ Append(s, m) \in Seq(S)
         /\ Elems(Append(s, m)) = Elems(s) \cup {m}
         /\ Distinct(Append(s, m))
<1> DEFINE a == Append(s, m)
<1>1. a \in Seq(S) /\ Len(s) \in Nat /\ Len(a) = Len(s) + 1
  OBVIOUS
<1>2. \A i \in 1..Len(s) : a[i] = s[i]
  OBVIOUS
<1>3. a[Len(s) + 1] = m
  OBVIOUS
<1>4. \A i \in 1..Len(a) : i \in 1..Len(s) \/ i = Len(s) + 1
  BY <1>1
<1>5. 1..Len(s) \subseteq 1..Len(a) /\ Len(s) + 1 \in 1..Len(a)
  BY <1>1
<1> HIDE DEF a
<1>6. Elems(a) = Elems(s) \cup {m}
  BY <1>2, <1>3, <1>4, <1>5 DEF Elems
<1>7. Distinct(a)
  BY <1>2, <1>3, <1>4 DEF Distinct, Elems
<1> QED
  BY <1>1, <1>6, <1>7 DEF a

-----------------------------------------------------------------------------
(* The initial state. *)

\* The connection has just been set up and nothing is under way.
LEMMA InitInv == Init => IInv
<1> SUFFICES ASSUME Init PROVE IInv
  OBVIOUS
<1> USE DemuxAssumption DEF Init
<1>1. NoMsg \in Msgs
  BY DEF NoMsg, Msgs, Tags
<1>2. TypeOK
  <2>1. reader \in [st : {"read", "reply", "closing", "failing", "end", "fatal"},
                    msg : Msgs, todo : SUBSET Tags]
    BY <1>1
  <2>2. up \in Seq(Msgs) /\ down \in Seq(Msgs)
    OBVIOUS
  <2>3. nextTag \in Tags /\ tag \in [Callers -> Tags]
    BY DEF Tags
  <2>4. want \in [Callers -> 0..MaxCalls] /\ made \in 0..MaxCalls
        /\ res \in [Callers -> Results]
    BY DEF Results
  <2>5. \A c \in Callers : pc[c] = "write" <=> mu = c
    OBVIOUS
  <2> QED
    BY <2>1, <2>2, <2>3, <2>4, <2>5 DEF TypeOK
<1>3. TagInv /\ CallsInv
  BY DEF TagInv, CallsInv, Listed
<1>4. InUp = {} /\ InDown = {} /\ Held = {} /\ Flight = {}
  BY DEF InUp, InDown, Held, Flight, Elems
<1>5. FlightInv
  BY <1>4 DEF FlightInv
<1>6. OnceInv
  BY <1>4 DEF OnceInv, Distinct
<1>7. ReaderInv /\ NoFatal /\ OwnReply
  BY DEF ReaderInv, NoFatal, OwnReply
<1> QED
  BY <1>2, <1>3, <1>5, <1>6, <1>7 DEF IInv

-----------------------------------------------------------------------------
(* What the steps of several kinds have in common. *)

\* The messages stay where they are unless their variables change.
LEMMA PlacesSame ==
  /\ UNCHANGED up => UNCHANGED InUp /\ (Distinct(up) => Distinct(up'))
  /\ UNCHANGED down => UNCHANGED InDown /\ (Distinct(down) => Distinct(down'))
  /\ UNCHANGED reader => UNCHANGED Held
BY DEF InUp, InDown, Held

\* A step that moves no message: the other callers stay as they are, and one
\* that is in SendReceive goes on, with a new tag if it has just begun.
LEMMA FlightKept ==
  ASSUME TypeOK, FlightInv, OnceInv, made' \in Nat, made' >= made,
         UNCHANGED <<up, down, reader, serving, replying, served>>,
         \A c \in Callers :
           /\ pc'[c] \in Unsent =>
                \/ pc[c] \in Unsent /\ tag'[c] = tag[c]
                \/ tag'[c] > made /\ tag'[c] \in Nat
           /\ pc[c] = "wait" => pc'[c] = "wait" /\ tag'[c] = tag[c]
  PROVE  FlightInv' /\ OnceInv'
<1>1. UNCHANGED <<InUp, InDown, Held, Flight>>
  BY PlacesSame DEF Flight
<1>2. Flight \subseteq Msgs
  BY DEF TypeOK, Flight, InUp, InDown, Held, Elems
<1>3. OnceInv'
  BY <1>1 DEF OnceInv
<1>4. ASSUME NEW m \in Flight
      PROVE  /\ m.tag = m.data
             /\ m.tag <= made'
             /\ \A c \in Callers : pc'[c] \in Unsent => tag'[c] # m.tag
             /\ reader.st \in {"read", "reply"} =>
                  \E c \in Callers : pc'[c] = "wait" /\ tag'[c] = m.tag
  <2>1. m.tag \in Nat /\ made \in Nat /\ m.tag <= made /\ m.tag = m.data
    BY <1>2, DemuxAssumption DEF Msgs, Tags, TypeOK, FlightInv
  <2>2. \A c \in Callers : pc'[c] \in Unsent => tag'[c] # m.tag
    BY <2>1 DEF FlightInv
  <2>3. ASSUME reader.st \in {"read", "reply"}
        PROVE  \E c \in Callers : pc'[c] = "wait" /\ tag'[c] = m.tag
    BY <2>3 DEF FlightInv
  <2> QED
    BY <2>1, <2>2, <2>3
<1>5. FlightInv'
  BY <1>1, <1>4 DEF FlightInv
<1> QED
  BY <1>3, <1>5

\* A message is well-typed wherever it is.
LEMMA FlightType == TypeOK => Flight \subseteq Msgs
BY DEF TypeOK, Flight, InUp, InDown, Held, Elems

-----------------------------------------------------------------------------
(* The callers. *)

\* A caller draws a tag that nobody has had.
LEMMA TakeTagInv ==
  ASSUME IInv, NEW c \in Callers, TakeTag(c)
  PROVE  IInv'
<1> USE DemuxAssumption DEF IInv, TakeTag, Goto
<1>1. made \in 0..MaxCalls /\ made' = made + 1 /\ nextTag = made + 1
      /\ nextTag' = made + 2 /\ made < MaxCalls
  BY DEF TypeOK, TagInv
<1>2. made' \in 0..MaxCalls /\ nextTag' \in Tags /\ nextTag \in Tags
  BY <1>1 DEF Tags
<1>3. /\ tag' \in [Callers -> Tags] /\ want' \in [Callers -> 0..MaxCalls]
      /\ tag'[c] = made + 1 /\ want'[c] = made + 1 /\ pc'[c] = "tagged"
      /\ \A d \in Callers \ {c} : UNCHANGED <<tag[d], want[d], pc[d]>>
  BY <1>1, <1>2 DEF TypeOK
<1>4. TypeOK'
  <2>1. \A d \in Callers : pc'[d] = "write" <=> mu' = d
    BY <1>3 DEF TypeOK
  <2>2. pc' \in [Callers -> {"idle", "tagged", "queued", "write", "wait"}]
    BY DEF TypeOK
  <2> QED
    BY <1>2, <1>3, <2>1, <2>2 DEF TypeOK, connVars, srvVars
<1>5. TagInv'
  <2>1. \A d \in Callers : tag[d] \in Nat /\ tag[d] <= made
    BY DEF TypeOK, TagInv, Tags
  <2>2. \A d \in Callers : tag'[d] = want'[d] /\ tag'[d] <= made'
    BY <1>1, <1>3, <2>1 DEF TagInv
  <2>3. \A d \in Callers : pc'[d] # "idle" => tag'[d] > 0
    BY <1>1, <1>3 DEF TagInv
  <2>4. \A d, e \in Callers : tag'[d] = tag'[e] /\ tag'[d] > 0 => d = e
    BY <1>1, <1>3, <2>1 DEF TagInv
  <2> QED
    BY <1>1, <2>2, <2>3, <2>4 DEF TagInv
<1>6. CallsInv'
  BY <1>3 DEF CallsInv, Listed
<1>7. FlightInv' /\ OnceInv'
  BY <1>1, <1>3, FlightKept DEF connVars, srvVars, Unsent
<1>8. ReaderInv' /\ NoFatal'
  BY DEF ReaderInv, NoFatal
<1>9. OwnReply'
  BY <1>3 DEF OwnReply, srvVars
<1> QED
  BY <1>4, <1>5, <1>6, <1>7, <1>8, <1>9

\* A caller enters the call map, or returns because it is closed.
LEMMA PutInv ==
  ASSUME IInv, NEW c \in Callers, Put(c)
  PROVE  IInv'
<1> USE DemuxAssumption DEF IInv, Put, Goto, Return
<1>1. \A d \in Callers \ {c} : UNCHANGED <<pc[d], res[d]>>
  BY DEF TypeOK
<1>2. /\ pc'[c] \in {"idle", "queued"}
      /\ pc' \in [Callers -> {"idle", "tagged", "queued", "write", "wait"}]
  BY DEF TypeOK
<1>3. FlightInv' /\ OnceInv'
  <2>1. made' \in Nat /\ made' >= made
    BY DEF TypeOK
  <2>2. \A d \in Callers :
          /\ pc'[d] \in Unsent => pc[d] \in Unsent /\ tag'[d] = tag[d]
          /\ pc[d] = "wait" => pc'[d] = "wait" /\ tag'[d] = tag[d]
    BY <1>1, <1>2 DEF Unsent
  <2> QED
    BY <2>1, <2>2, FlightKept DEF connVars, srvVars
<1>4. TagInv'
  BY <1>1, <1>2 DEF TagInv
<1>5. NoFatal'
  BY DEF NoFatal
<1>6. CASE closed
  <2> DEFINE err == [data |-> 0, ok |-> FALSE]
  <2>0. err \in Results
    BY DEF Results
  <2>1. pc'[c] = "idle" /\ res' = [res EXCEPT ![c] = err] /\ calls' = calls
    BY <1>6 DEF TypeOK
  <2>6. ~err.ok
    OBVIOUS
  <2> HIDE DEF err
  <2>7. res' \in [Callers -> Results] /\ res'[c] = err
    BY <2>0, <2>1 DEF TypeOK
  <2>2. TypeOK'
    <3>1. \A d \in Callers : pc'[d] = "write" <=> mu' = d
      BY <1>1, <2>1 DEF TypeOK
    <3> QED
      BY <1>2, <2>1, <2>7, <3>1 DEF TypeOK, connVars, srvVars
  <2>3. CallsInv'
    BY <1>1, <2>1 DEF CallsInv, Listed
  <2>4. ReaderInv'
    BY <2>1 DEF ReaderInv
  <2>5. OwnReply'
    BY <1>1, <2>6, <2>7 DEF OwnReply, srvVars
  <2> QED
    BY <1>3, <1>4, <1>5, <2>2, <2>3, <2>4, <2>5
<1>7. CASE ~closed
  <2>1. pc'[c] = "queued" /\ res' = res /\ calls' = With(tag[c], c)
    BY <1>7 DEF TypeOK
  <2>2. tag[c] \in Tags /\ calls' \subseteq Tags \X Callers
    BY <2>1 DEF TypeOK, With
  <2>3. TypeOK'
    <3>1. \A d \in Callers : pc'[d] = "write" <=> mu' = d
      BY <1>1, <2>1 DEF TypeOK
    <3> QED
      BY <1>2, <2>1, <2>2, <3>1 DEF TypeOK, connVars, srvVars
  <2>4. CallsInv'
    <3> SUFFICES ASSUME NEW t \in Tags, NEW d \in Callers
                 PROVE  <<t, d>> \in calls' <=> tag[d] = t /\ pc'[d] \in Listed
      BY DEF CallsInv
    <3>1. CASE d = c
      BY <2>1, <2>2, <3>1 DEF CallsInv, With, Listed
    <3>2. CASE d # c
      <4>1. tag[c] > 0 /\ (pc[d] \in Listed => tag[d] # tag[c])
        BY <3>2 DEF TagInv
      <4>2. <<t, d>> \in calls' <=> <<t, d>> \in calls /\ t # tag[c]
        BY <2>1, <3>2 DEF With
      <4> QED
        BY <1>1, <3>2, <4>1, <4>2 DEF CallsInv
    <3> QED
      BY <3>1, <3>2
  <2>5. ReaderInv'
    BY <1>7 DEF ReaderInv
  <2>6. OwnReply'
    BY <1>1, <2>1 DEF OwnReply, srvVars
  <2> QED
    BY <1>3, <1>4, <1>5, <2>3, <2>4, <2>5, <2>6
<1> QED
  BY <1>6, <1>7

\* A caller takes dmx.mu.
LEMMA LockInv ==
  ASSUME IInv, NEW c \in Callers, Lock(c)
  PROVE  IInv'
<1> USE DemuxAssumption DEF IInv, Lock, Goto
<1>1. pc'[c] = "write" /\ \A d \in Callers \ {c} : UNCHANGED pc[d]
  BY DEF TypeOK
<1>2. TypeOK'
  <2>1. \A d \in Callers : pc'[d] = "write" <=> mu' = d
    BY <1>1 DEF TypeOK
  <2>2. pc' \in [Callers -> {"idle", "tagged", "queued", "write", "wait"}]
    BY DEF TypeOK
  <2> QED
    BY <2>1, <2>2 DEF TypeOK, connVars, srvVars
<1>3. TagInv' /\ CallsInv'
  BY <1>1 DEF TagInv, CallsInv, Listed
<1>4. FlightInv' /\ OnceInv'
  <2>1. made' \in Nat /\ made' >= made
    BY DEF TypeOK
  <2>2. \A d \in Callers :
          /\ pc'[d] \in Unsent => pc[d] \in Unsent /\ tag'[d] = tag[d]
          /\ pc[d] = "wait" => pc'[d] = "wait" /\ tag'[d] = tag[d]
    BY <1>1 DEF Unsent
  <2> QED
    BY <2>1, <2>2, FlightKept DEF connVars, srvVars
<1>5. ReaderInv' /\ NoFatal'
  BY DEF ReaderInv, NoFatal
<1>6. OwnReply'
  BY <1>1 DEF OwnReply, srvVars
<1> QED
  BY <1>2, <1>3, <1>4, <1>5, <1>6

\* A caller writes its request, or finds the connection broken; it waits in
\* either case.
LEMMA WriteInv ==
  ASSUME IInv, NEW c \in Callers, Write(c)
  PROVE  IInv'
<1> USE DemuxAssumption DEF IInv, Write, Goto
<1> DEFINE req == [tag |-> tag[c], data |-> want[c]]
<1>1. pc'[c] = "wait" /\ \A d \in Callers \ {c} : UNCHANGED pc[d]
  BY DEF TypeOK
<1>2. req \in Msgs /\ req.tag = tag[c] /\ req.data = tag[c]
      /\ tag[c] <= made
  BY DEF TypeOK, Msgs, TagInv
<1>3. req \notin Flight
  BY <1>2 DEF FlightInv, Unsent
<1> HIDE DEF req
<1>4. UNCHANGED <<InDown, Held, serving, replying>> /\ Distinct(down)'
  BY PlacesSame DEF srvVars, OnceInv
<1>5. /\ up' \in Seq(Msgs)
      /\ InUp' = InUp \/ InUp' = InUp \cup {req}
      /\ Distinct(up)'
  <2>1. CASE up' = up
    BY <2>1, PlacesSame DEF TypeOK, OnceInv
  <2>2. CASE up' = Append(up, req)
    <3>1. up \in Seq(Msgs) /\ Distinct(up) /\ req \notin Elems(up)
      BY <1>3 DEF TypeOK, OnceInv, Flight, InUp
    <3>2. /\ Append(up, req) \in Seq(Msgs)
          /\ Elems(Append(up, req)) = Elems(up) \cup {req}
          /\ Distinct(Append(up, req))
      BY <1>2, <3>1, AddLast
    <3> QED
      BY <2>2, <3>2 DEF InUp
  <2> QED
    BY <2>1, <2>2 DEF req
<1>6. TypeOK'
  <2>1. \A d \in Callers : pc'[d] = "write" <=> mu' = d
    BY <1>1 DEF TypeOK
  <2>2. pc' \in [Callers -> {"idle", "tagged", "queued", "write", "wait"}]
    BY DEF TypeOK
  <2> QED
    BY <1>5, <2>1, <2>2 DEF TypeOK, srvVars
<1>7. TagInv' /\ CallsInv'
  BY <1>1 DEF TagInv, CallsInv, Listed
<1>8. OnceInv'
  BY <1>3, <1>4, <1>5 DEF OnceInv, Flight
<1>9. FlightInv'
  <2>1. Flight' \subseteq Flight \cup {req}
    BY <1>4, <1>5 DEF Flight
  <2>2. \A d \in Callers :
          /\ pc'[d] \in Unsent => pc[d] \in Unsent /\ d # c
          /\ pc[d] = "wait" => pc'[d] = "wait"
    BY <1>1 DEF Unsent
  <2>3. \A d \in Callers : d # c /\ tag[d] = tag[c] => FALSE
    BY DEF TagInv
  <2>4. ASSUME NEW m \in Flight'
        PROVE  /\ m.tag = m.data
               /\ m.tag <= made
               /\ \A d \in Callers : pc'[d] \in Unsent => tag[d] # m.tag
               /\ reader.st \in {"read", "reply"} =>
                    \E d \in Callers : pc'[d] = "wait" /\ tag[d] = m.tag
    <3>1. CASE m = req
      BY <1>1, <1>2, <2>2, <2>3, <3>1
    <3>2. CASE m \in Flight
      BY <2>2, <3>2 DEF FlightInv
    <3> QED
      BY <2>1, <3>1, <3>2
  <2>5. \A m \in (replying \cup InDown \cup Held)' : m.data \in served'
    BY <1>4 DEF FlightInv, srvVars
  <2> QED
    BY <2>4, <2>5 DEF FlightInv
<1>10. ReaderInv' /\ NoFatal'
  BY DEF ReaderInv, NoFatal
<1>11. OwnReply'
  BY <1>1 DEF OwnReply, srvVars
<1> QED
  BY <1>6, <1>7, <1>8, <1>9, <1>10, <1>11

-----------------------------------------------------------------------------
(* The reader. *)

\* The reader takes a reply from the socket.
LEMMA ReadInv ==
  ASSUME IInv, Read
  PROVE  IInv'
<1> USE DemuxAssumption DEF IInv, Read, SetReader
<1>1. down \in Seq(Msgs) /\ down # <<>> /\ Distinct(down)
  BY DEF TypeOK, OnceInv
<1>2. /\ Head(down) \in Msgs /\ down' \in Seq(Msgs)
      /\ Head(down) \in InDown
      /\ InDown' = InDown \ {Head(down)}
      /\ Distinct(down)'
  BY <1>1, TakeFirst DEF InDown
<1>3. UNCHANGED <<InUp, serving, replying>> /\ Distinct(up)'
  BY PlacesSame DEF srvVars, OnceInv
<1>4. Held = {} /\ Held' = {Head(down)} /\ reader'.st = "reply"
  BY DEF Held
<1>5. TypeOK'
  <2>1. reader' \in [st : {"read", "reply", "closing", "failing", "end", "fatal"},
                     msg : Msgs, todo : SUBSET Tags]
    BY <1>2
  <2> QED
    BY <1>2, <2>1 DEF TypeOK, srvVars
<1>6. TagInv' /\ CallsInv'
  BY DEF TagInv, CallsInv
<1>7. OnceInv'
  BY <1>2, <1>3, <1>4 DEF OnceInv
<1>8. FlightInv'
  <2>1. Flight' = Flight
    BY <1>2, <1>3, <1>4 DEF Flight
  <2>2. (replying \cup InDown \cup Held)' = replying \cup InDown \cup Held
    BY <1>2, <1>3, <1>4
  <2> QED
    BY <2>1, <2>2 DEF FlightInv, srvVars
<1>9. ReaderInv' /\ NoFatal'
  BY <1>4 DEF ReaderInv, NoFatal
<1>10. OwnReply'
  BY DEF OwnReply, srvVars
<1> QED
  BY <1>5, <1>6, <1>7, <1>8, <1>9, <1>10

\* A step of the reader with no reply in its hands, before or after it.
LEMMA ReaderMoves ==
  ASSUME IInv, NEW st \in {"closing", "failing", "end"},
         NEW todo \in SUBSET Tags, reader.st # "reply",
         SetReader(st, NoMsg, todo), closed' \in BOOLEAN,
         UNCHANGED <<nextTag, calls, mu, pc, tag, want, res, made, closing,
                     connVars, srvVars>>
  PROVE  /\ TypeOK' /\ TagInv' /\ CallsInv' /\ FlightInv' /\ OnceInv'
         /\ NoFatal' /\ OwnReply'
<1> USE DemuxAssumption DEF IInv, SetReader
<1>1. NoMsg \in Msgs
  BY DEF NoMsg, Msgs, Tags
<1>2. TypeOK'
  <2>1. reader' \in [st : {"read", "reply", "closing", "failing", "end", "fatal"},
                     msg : Msgs, todo : SUBSET Tags]
    BY <1>1
  <2> QED
    BY <2>1 DEF TypeOK, connVars, srvVars
<1>3. UNCHANGED <<InUp, InDown, serving, replying, served>>
      /\ Distinct(up)' /\ Distinct(down)'
  BY PlacesSame DEF connVars, srvVars, OnceInv
<1>4. Held' = {} /\ Held = {} /\ reader'.st = st
  BY DEF Held
<1>5. Flight' = Flight
  BY <1>3, <1>4 DEF Flight
<1>6. FlightInv'
  BY <1>3, <1>4, <1>5 DEF FlightInv
<1>7. OnceInv'
  BY <1>3, <1>4 DEF OnceInv
<1>8. TagInv' /\ CallsInv' /\ NoFatal' /\ OwnReply'
  BY <1>4 DEF TagInv, CallsInv, NoFatal, OwnReply, srvVars
<1> QED
  BY <1>2, <1>6, <1>7, <1>8

\* The connection fails under the reader: it closes the call map.
LEMMA ReadFailsInv ==
  ASSUME IInv, ReadFails
  PROVE  IInv'
<1>1. /\ TypeOK' /\ TagInv' /\ CallsInv' /\ FlightInv' /\ OnceInv'
      /\ NoFatal' /\ OwnReply'
  <2>1. {} \in SUBSET Tags /\ reader.st # "reply" /\ closed' \in BOOLEAN
    BY DEF ReadFails
  <2> QED
    BY <2>1, ReaderMoves DEF ReadFails
<1>2. ReaderInv'
  BY DEF ReadFails, SetReader, ReaderInv
<1> QED
  BY <1>1, <1>2 DEF IInv

\* The reader collects those who have to be told.
LEMMA OutstandingInv ==
  ASSUME IInv, Outstanding
  PROVE  IInv'
<1>1. /\ TypeOK' /\ TagInv' /\ CallsInv' /\ FlightInv' /\ OnceInv'
      /\ NoFatal' /\ OwnReply'
  <2>1. {p[1] : p \in calls} \in SUBSET Tags
    BY DEF IInv, TypeOK
  <2>2. reader.st # "reply" /\ closed' \in BOOLEAN
    BY DEF Outstanding, IInv, TypeOK
  <2> QED
    BY <2>1, <2>2, ReaderMoves DEF Outstanding
<1>2. ReaderInv'
  BY DEF Outstanding, SetReader, IInv, ReaderInv
<1> QED
  BY <1>1, <1>2 DEF IInv

\* Everybody has been told.
LEMMA ReaderEndsInv ==
  ASSUME IInv, ReaderEnds
  PROVE  IInv'
<1>1. /\ TypeOK' /\ TagInv' /\ CallsInv' /\ FlightInv' /\ OnceInv'
      /\ NoFatal' /\ OwnReply'
  <2>1. {} \in SUBSET Tags /\ reader.st # "reply" /\ closed' \in BOOLEAN
    BY DEF ReaderEnds, IInv, TypeOK
  <2> QED
    BY <2>1, ReaderMoves DEF ReaderEnds
<1>2. ReaderInv'
  BY DEF ReaderEnds, SetReader, IInv, ReaderInv
<1> QED
  BY <1>1, <1>2 DEF IInv

\* What a reply does to the caller and to the call map.
Answer(c, t, d, ok) ==
  /\ <<t, c>> \in calls /\ tag[c] = t /\ want[c] = t
  /\ pc[c] = "wait" /\ pc'[c] = "idle"
  /\ res'[c] = [data |-> d, ok |-> ok]
  /\ \A e \in Callers \ {c} : UNCHANGED <<pc[e], res[e]>>
  /\ calls' = calls \ {<<t, c>>}
  /\ pc' \in [Callers -> {"idle", "tagged", "queued", "write", "wait"}]
  /\ res' \in [Callers -> Results]
  /\ \A e \in Callers : pc'[e] = "write" <=> mu' = e
  /\ calls' \subseteq Tags \X Callers
  /\ TagInv' /\ CallsInv'

\* A caller in the map gets an answer: it leaves the map and SendReceive.
LEMMA Answered ==
  ASSUME IInv, NEW t \in Tags, NEW d \in 0..MaxCalls, NEW ok \in BOOLEAN,
         Reply(t, d, ok), Known(t),
         UNCHANGED <<nextTag, mu, tag, want, made>>
  PROVE  \E c \in Callers : Answer(c, t, d, ok)
<1> USE DEF IInv
<1> DEFINE r == [data |-> d, ok |-> ok]
<1>1. PICK c \in Callers : /\ <<t, c>> \in calls
                          /\ pc[c] = "wait"
                          /\ calls' = calls \ {<<t, c>>}
                          /\ Return(c, d, ok)
  BY DEF Reply, Known
<1>2. tag[c] = t /\ want[c] = t
  BY <1>1 DEF CallsInv, TagInv
<1>3. r \in Results
  BY DEF Results
<1>4. /\ pc'[c] = "idle" /\ res'[c] = r
      /\ \A e \in Callers \ {c} : UNCHANGED <<pc[e], res[e]>>
      /\ pc' \in [Callers -> {"idle", "tagged", "queued", "write", "wait"}]
      /\ res' \in [Callers -> Results]
  <2>1. pc' = [pc EXCEPT ![c] = "idle"] /\ res' = [res EXCEPT ![c] = r]
    BY <1>1 DEF Return, Goto
  <2> HIDE DEF r
  <2> QED
    BY <1>3, <2>1 DEF TypeOK
<1>5. \A e \in Callers : pc'[e] = "write" <=> mu' = e
  BY <1>1, <1>4 DEF TypeOK
<1>6. calls' \subseteq Tags \X Callers
  BY <1>1 DEF TypeOK
<1>7. TagInv'
  BY <1>4 DEF TagInv
<1>8. CallsInv'
  BY <1>1, <1>2, <1>4 DEF CallsInv, Listed
<1> QED
  BY <1>1, <1>2, <1>4, <1>5, <1>6, <1>7, <1>8 DEF Answer

\* The reader gives a reply to the caller it belongs to, which is there.
LEMMA ReplyOneInv ==
  ASSUME IInv, ReplyOne
  PROVE  IInv'
<1> USE DemuxAssumption DEF IInv
<1> DEFINE m == reader.msg
<1>1. m \in Msgs /\ m \in Flight /\ Held = {m} /\ m.tag = m.data
      /\ m.data \in served /\ m.tag \in Tags /\ m.data \in 0..MaxCalls
  BY DEF ReplyOne, Held, Flight, TypeOK, Msgs, FlightInv
<1>2. Known(m.tag)
  <2>1. PICK c \in Callers : pc[c] = "wait" /\ tag[c] = m.tag
    BY <1>1 DEF ReplyOne, FlightInv
  <2> QED
    BY <1>1, <2>1 DEF CallsInv, Listed, Known
<1>3. PICK c \in Callers : Answer(c, m.tag, m.data, TRUE)
  <2>1. Reply(m.tag, m.data, TRUE) /\ UNCHANGED <<nextTag, mu, tag, want, made>>
    BY DEF ReplyOne
  <2>2. TRUE \in BOOLEAN
    OBVIOUS
  <2> HIDE DEF m, IInv
  <2> QED
    BY <1>1, <1>2, <2>1, <2>2, Answered
<1>4. reader' = [st |-> "read", msg |-> NoMsg, todo |-> {}] /\ Held' = {}
  BY <1>2 DEF ReplyOne, SetReader, Held
<1>5. UNCHANGED <<InUp, InDown, serving, replying, served>>
      /\ Distinct(up)' /\ Distinct(down)'
  BY PlacesSame DEF ReplyOne, connVars, srvVars, OnceInv
<1>6. TypeOK'
  <2>1. NoMsg \in Msgs
    BY DEF NoMsg, Msgs, Tags
  <2>2. reader' \in [st : {"read", "reply", "closing", "failing", "end", "fatal"},
                     msg : Msgs, todo : SUBSET Tags]
    BY <1>4, <2>1
  <2> QED
    BY <1>3, <2>2 DEF ReplyOne, TypeOK, connVars, srvVars, Answer
<1>7. OnceInv'
  BY <1>4, <1>5 DEF OnceInv
<1>8. FlightInv'
  <2>1. Flight' = Flight \ {m}
    BY <1>1, <1>4, <1>5 DEF Flight, OnceInv
  <2>2. ASSUME NEW n \in Flight'
        PROVE  /\ n.tag = n.data
               /\ n.tag <= made
               /\ \A e \in Callers : pc'[e] \in Unsent => tag[e] # n.tag
               /\ \E e \in Callers : pc'[e] = "wait" /\ tag[e] = n.tag
    <3>1. n \in Flight /\ n # m /\ n \in Msgs
      BY <2>1, FlightType
    <3>2. n.tag = n.data /\ n.tag <= made
      BY <3>1 DEF FlightInv
    <3>3. n.tag # m.tag
      BY <1>1, <3>1, <3>2 DEF Msgs
    <3>4. \A e \in Callers : pc'[e] \in Unsent => tag[e] # n.tag
      BY <1>3, <3>1 DEF FlightInv, Unsent, Answer
    <3>5. PICK e \in Callers : pc[e] = "wait" /\ tag[e] = n.tag
      BY <3>1 DEF ReplyOne, FlightInv
    <3>6. pc'[e] = "wait"
      BY <1>3, <3>3, <3>5 DEF Answer
    <3> QED
      BY <3>2, <3>4, <3>5, <3>6
  <2>3. \A n \in (replying \cup InDown \cup Held)' : n.data \in served'
    BY <1>4, <1>5 DEF FlightInv
  <2> QED
    BY <2>2, <2>3 DEF FlightInv, ReplyOne
<1>9. ReaderInv' /\ NoFatal'
  BY <1>4 DEF ReaderInv, NoFatal
<1>10. OwnReply'
  BY <1>1, <1>3, <1>5 DEF OwnReply, ReplyOne, Answer
<1> QED
  BY <1>3, <1>6, <1>7, <1>8, <1>9, <1>10 DEF Answer

\* The reader tells one of those that are left that the connection failed.
LEMMA FailOneInv ==
  ASSUME IInv, NEW t, FailOne(t)
  PROVE  IInv'
<1> USE DemuxAssumption DEF IInv
<1>1. t \in Tags /\ Known(t)
  <2>1. reader.todo = {p[1] : p \in calls} /\ t \in reader.todo
    BY DEF FailOne, ReaderInv
  <2>2. PICK p \in calls : p[1] = t
    BY <2>1
  <2>3. PICK u \in Tags, c \in Callers : p = <<u, c>>
    BY DEF TypeOK
  <2> QED
    BY <2>2, <2>3 DEF Known
<1>2. PICK c \in Callers : Answer(c, t, 0, FALSE)
  <2>1. 0 \in 0..MaxCalls /\ FALSE \in BOOLEAN
    OBVIOUS
  <2>2. Reply(t, 0, FALSE) /\ UNCHANGED <<nextTag, mu, tag, want, made>>
    BY DEF FailOne
  <2> HIDE DEF IInv
  <2> QED
    BY <1>1, <2>1, <2>2, Answered
<1>3. /\ reader' = [st |-> "failing", msg |-> NoMsg, todo |-> reader.todo \ {t}]
      /\ Held' = {} /\ Held = {}
  BY <1>1 DEF FailOne, SetReader, Held
<1>4. UNCHANGED <<InUp, InDown, serving, replying, served>>
      /\ Distinct(up)' /\ Distinct(down)'
  BY PlacesSame DEF FailOne, connVars, srvVars, OnceInv
<1>5. TypeOK'
  <2>1. NoMsg \in Msgs /\ reader.todo \ {t} \in SUBSET Tags
    BY DEF NoMsg, Msgs, Tags, TypeOK
  <2>2. reader' \in [st : {"read", "reply", "closing", "failing", "end", "fatal"},
                     msg : Msgs, todo : SUBSET Tags]
    BY <1>3, <2>1
  <2> QED
    BY <1>2, <2>2 DEF FailOne, TypeOK, connVars, srvVars, Answer
<1>6. OnceInv'
  BY <1>3, <1>4 DEF OnceInv
<1>7. FlightInv'
  <2>1. Flight' = Flight
    BY <1>3, <1>4 DEF Flight
  <2>2. \A e \in Callers : pc'[e] \in Unsent => pc[e] \in Unsent
    BY <1>2 DEF Unsent, Answer
  <2> QED
    BY <1>3, <1>4, <2>1, <2>2 DEF FlightInv, FailOne
<1>8. ReaderInv'
  <2>1. reader.todo = {p[1] : p \in calls} /\ closed /\ closed' = closed
    BY DEF ReaderInv, FailOne
  <2>2. \A p \in calls : p[1] = t => p = <<t, c>>
    <3> SUFFICES ASSUME NEW p \in calls, p[1] = t PROVE p = <<t, c>>
      OBVIOUS
    <3>1. PICK u \in Tags, e \in Callers : p = <<u, e>>
      BY DEF TypeOK
    <3>2. u = t /\ tag[e] = t
      BY <3>1 DEF CallsInv
    <3>3. tag[c] > 0
      BY <1>2 DEF TagInv, Answer
    <3> QED
      BY <1>2, <3>1, <3>2, <3>3 DEF TagInv, Answer
  <2>3. reader.todo \ {t} = {p[1] : p \in calls'}
    BY <1>2, <2>1, <2>2 DEF Answer
  <2> QED
    BY <1>3, <2>1, <2>3 DEF ReaderInv
<1>9. NoFatal'
  BY <1>3 DEF NoFatal
<1>10. OwnReply'
  BY <1>2, <1>4 DEF OwnReply, FailOne, Answer
<1> QED
  BY <1>2, <1>5, <1>6, <1>7, <1>8, <1>9, <1>10 DEF Answer

-----------------------------------------------------------------------------
(* Close, and the server. *)

\* Close calls, cuts the connection and closes the call map.
LEMMA CloseInv ==
  ASSUME IInv, Close \/ CloseStep
  PROVE  IInv'
<1> USE DEF IInv, Close, CloseStep, CloseTrans, CloseMap
<1>1. UNCHANGED <<nextTag, calls, mu, pc, tag, want, res, made, reader, alive,
                  up, down, srvVars>>
      /\ closed' \in BOOLEAN /\ (closed => closed') /\ open' \in BOOLEAN
      /\ closing' \in {"no", "called", "cut", "closed"}
  BY DEF connVars, TypeOK
<1>2. TypeOK'
  BY <1>1 DEF TypeOK, srvVars
<1>3. FlightInv' /\ OnceInv'
  BY <1>1, FlightKept DEF srvVars, TypeOK
<1>4. TagInv' /\ CallsInv' /\ ReaderInv' /\ NoFatal' /\ OwnReply'
  BY <1>1 DEF TagInv, CallsInv, ReaderInv, NoFatal, OwnReply, srvVars
<1> QED
  BY <1>2, <1>3, <1>4

\* A step of the server leaves callers and reader alone: what is left to show
\* is that no message is made or doubled and that what is answered is served.
LEMMA ServerKeeps ==
  ASSUME IInv, UNCHANGED clntVars, TypeOK', OnceInv', Flight' \subseteq Flight,
         \A m \in (replying \cup InDown \cup Held)' : m.data \in served',
         served \subseteq served'
  PROVE  IInv'
<1> USE DEF IInv, clntVars
<1>1. FlightInv'
  BY DEF FlightInv
<1>2. TagInv' /\ CallsInv' /\ ReaderInv' /\ NoFatal' /\ OwnReply'
  BY DEF TagInv, CallsInv, ReaderInv, NoFatal, OwnReply
<1> QED
  BY <1>1, <1>2

\* The server starts a goroutine for a request.
LEMMA SrvReadInv ==
  ASSUME IInv, SrvRead
  PROVE  IInv'
<1> USE DEF SrvRead
<1>1. up \in Seq(Msgs) /\ up # <<>> /\ Distinct(up)
  BY DEF IInv, TypeOK, OnceInv
<1>2. /\ Head(up) \in Msgs /\ up' \in Seq(Msgs)
      /\ Head(up) \in InUp
      /\ InUp' = InUp \ {Head(up)}
      /\ Distinct(up)'
  BY <1>1, TakeFirst DEF InUp
<1>3. UNCHANGED <<InDown, Held, replying, served>> /\ Distinct(down)'
  BY PlacesSame DEF IInv, OnceInv, clntVars
<1>4. TypeOK'
  BY <1>2 DEF IInv, TypeOK, clntVars
<1>5. OnceInv'
  BY <1>2, <1>3 DEF IInv, OnceInv
<1>6. Flight' \subseteq Flight
  BY <1>2, <1>3 DEF Flight
<1>7. \A m \in (replying \cup InDown \cup Held)' : m.data \in served'
  BY <1>3 DEF IInv, FlightInv
<1> QED
  BY <1>3, <1>4, <1>5, <1>6, <1>7, ServerKeeps

\* The server's reader sees the end of the connection.
LEMMA SrvEOFInv ==
  ASSUME IInv, SrvEOF
  PROVE  IInv'
<1> USE DEF SrvEOF
<1>1. UNCHANGED <<InUp, InDown, Held, serving, replying, served>>
      /\ Distinct(up)' /\ Distinct(down)'
  BY PlacesSame DEF IInv, OnceInv, clntVars, connVars
<1>2. TypeOK'
  BY DEF IInv, TypeOK, clntVars, connVars
<1>3. OnceInv' /\ Flight' \subseteq Flight
  BY <1>1 DEF IInv, OnceInv, Flight
<1>4. \A m \in (replying \cup InDown \cup Held)' : m.data \in served'
  BY <1>1 DEF IInv, FlightInv
<1> QED
  BY <1>1, <1>2, <1>3, <1>4, ServerKeeps

\* A request is served.
LEMMA ServeRequestInv ==
  ASSUME IInv, NEW m, ServeRequest(m)
  PROVE  IInv'
<1> USE DEF ServeRequest
<1>1. UNCHANGED <<InUp, InDown, Held>> /\ Distinct(up)' /\ Distinct(down)'
  BY PlacesSame DEF IInv, OnceInv, clntVars, connVars
<1>2. m \in Msgs /\ m.data \in 0..MaxCalls
  BY DEF IInv, TypeOK, Msgs
<1>3. TypeOK'
  BY <1>2 DEF IInv, TypeOK, clntVars, connVars
<1>4. OnceInv' /\ Flight' \subseteq Flight
  BY <1>1 DEF IInv, OnceInv, Flight
<1>5. \A n \in (replying \cup InDown \cup Held)' : n.data \in served'
  BY <1>1 DEF IInv, FlightInv
<1> QED
  BY <1>3, <1>4, <1>5, ServerKeeps

\* An answer is written, or dropped because the connection is closed.
LEMMA SrvWriteInv ==
  ASSUME IInv, NEW m, SrvWrite(m)
  PROVE  IInv'
<1> USE DEF SrvWrite
<1>1. UNCHANGED <<InUp, Held>> /\ Distinct(up)'
  BY PlacesSame DEF IInv, OnceInv, clntVars
<1>2. m \in Msgs /\ m \in replying /\ m \notin InDown
  BY DEF IInv, TypeOK, OnceInv
<1>3. /\ down' \in Seq(Msgs)
      /\ InDown' = InDown \/ InDown' = InDown \cup {m}
      /\ Distinct(down)'
  <2>1. CASE down' = down
    BY <2>1, PlacesSame DEF IInv, TypeOK, OnceInv
  <2>2. CASE down' = Append(down, m)
    <3>1. down \in Seq(Msgs) /\ Distinct(down) /\ m \notin Elems(down)
      BY <1>2 DEF IInv, TypeOK, OnceInv, InDown
    <3>2. /\ Append(down, m) \in Seq(Msgs)
          /\ Elems(Append(down, m)) = Elems(down) \cup {m}
          /\ Distinct(Append(down, m))
      BY <1>2, <3>1, AddLast
    <3> QED
      BY <2>2, <3>2 DEF InDown
  <2> QED
    BY <2>1, <2>2
<1>4. TypeOK'
  BY <1>3 DEF IInv, TypeOK, clntVars
<1>5. OnceInv' /\ Flight' \subseteq Flight
  BY <1>1, <1>2, <1>3 DEF IInv, OnceInv, Flight
<1>6. \A n \in (replying \cup InDown \cup Held)' : n.data \in served'
  BY <1>1, <1>2, <1>3 DEF IInv, FlightInv
<1> QED
  BY <1>4, <1>5, <1>6, ServerKeeps

\* The server is killed, with all it has read.
LEMMA KillInv ==
  ASSUME IInv, Kill
  PROVE  IInv'
<1> USE DEF Kill
<1>1. UNCHANGED <<InDown, Held, served>> /\ Distinct(down)'
  BY PlacesSame DEF IInv, OnceInv, clntVars
<1>2. InUp' = {} /\ Distinct(up)' /\ up' \in Seq(Msgs)
  BY DEF InUp, Elems, Distinct
<1>3. TypeOK'
  BY <1>2 DEF IInv, TypeOK, clntVars
<1>4. OnceInv' /\ Flight' \subseteq Flight
  BY <1>1, <1>2 DEF IInv, OnceInv, Flight
<1>5. \A n \in (replying \cup InDown \cup Held)' : n.data \in served'
  BY <1>1 DEF IInv, FlightInv
<1> QED
  BY <1>1, <1>3, <1>4, <1>5, ServerKeeps

-----------------------------------------------------------------------------
(* The theorems. *)

\* Every step of callers, reader, Close and server keeps the invariant.
LEMMA InvStep == IInv /\ [Next]_vars => IInv'
<1> SUFFICES ASSUME IInv, [Next]_vars PROVE IInv'
  OBVIOUS
<1>1. ASSUME NEW c \in Callers, CallerStep(c)
      PROVE  IInv'
  BY <1>1, TakeTagInv, PutInv, LockInv, WriteInv DEF CallerStep
<1>2. CASE ReaderStep
  BY <1>2, ReadInv, ReadFailsInv, OutstandingInv, ReplyOneInv, FailOneInv,
     ReaderEndsInv
  DEF ReaderStep
<1>3. CASE Close \/ CloseStep
  BY <1>3, CloseInv
<1>4. CASE SrvRead \/ SrvEOF \/ Kill
  BY <1>4, SrvReadInv, SrvEOFInv, KillInv
<1>5. ASSUME NEW m, SrvStep(m)
      PROVE  IInv'
  BY <1>5, ServeRequestInv, SrvWriteInv DEF SrvStep
<1>6. CASE UNCHANGED vars
  <2>1. UNCHANGED <<clntVars, connVars, srvVars>>
    BY <1>6 DEF vars
  <2>2. UNCHANGED <<InUp, InDown, Held, serving, replying, served>>
        /\ Distinct(up)' /\ Distinct(down)'
    BY <2>1, PlacesSame DEF IInv, OnceInv, clntVars, connVars, srvVars
  <2>3. TypeOK'
    BY <2>1 DEF IInv, TypeOK, clntVars, connVars, srvVars
  <2>4. OnceInv' /\ Flight' \subseteq Flight
    BY <2>2 DEF IInv, OnceInv, Flight
  <2>5. \A n \in (replying \cup InDown \cup Held)' : n.data \in served'
    BY <2>2 DEF IInv, FlightInv
  <2> QED
    BY <2>1, <2>2, <2>3, <2>4, <2>5, ServerKeeps
<1> QED
  BY <1>1, <1>2, <1>3, <1>4, <1>5, <1>6 DEF Next

\* The invariant holds in every behaviour.
LEMMA Invariance == Spec => []IInv
<1> QED
  BY InitInv, InvStep, PTL DEF Spec

\* The state of callers, reader, socket and server stays well-typed, and
\* dmx.mu is held by the one caller that writes.
THEOREM TypeCorrect == Spec => []TypeOK
<1>1. IInv => TypeOK
  BY DEF IInv
<1> QED
  BY <1>1, Invariance, PTL

\* For any number of callers and calls, and whatever is closed, killed or
\* late, the reader finds the call that a reply belongs to: DemuxClnt.reply
\* does not reach its log.Fatalf.
THEOREM ReplyHasCall == Spec => []NoFatal
<1>1. IInv => NoFatal
  BY DEF IInv
<1> QED
  BY <1>1, Invariance, PTL

\* For any number of callers and calls, a call that succeeds has got the
\* answer to its own request, and the server has carried that out.
THEOREM AnswersAreOwn == Spec => []OwnReply
<1>1. IInv => OwnReply
  BY DEF IInv
<1> QED
  BY <1>1, Invariance, PTL

\* When the reader has ended nobody is in the call map and no caller waits
\* or is going to wait for a reply: callMap.close, and outstanding after it,
\* miss nobody.  It is the safety half of SendReceiveReturns.
THEOREM NobodyIsLeft ==
  Spec => [](reader.st = "end" =>
               /\ calls = {}
               /\ \A c \in Callers : pc[c] \in {"idle", "tagged"})
<1> DEFINE Left == reader.st = "end" =>
                     /\ calls = {}
                     /\ \A c \in Callers : pc[c] \in {"idle", "tagged"}
<1>1. IInv => Left
  <2> SUFFICES ASSUME IInv, reader.st = "end"
               PROVE  /\ calls = {}
                      /\ \A c \in Callers : pc[c] \in {"idle", "tagged"}
    OBVIOUS
  <2>1. calls = {}
    BY DEF IInv, ReaderInv
  <2>2. \A c \in Callers : tag[c] \in Tags /\ pc[c] \notin Listed
    BY <2>1 DEF IInv, TypeOK, CallsInv
  <2> QED
    BY <2>1, <2>2 DEF IInv, TypeOK, Listed
<1> QED
  BY <1>1, Invariance, PTL

=============================================================================
