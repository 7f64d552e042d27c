------------------------------ MODULE Network ------------------------------
(***************************************************************************)
(* The simulated network of lab1/src/labrpc/labrpc.go with several         *)
(* servers that are added, deleted and replaced while calls are under way. *)
(*                                                                         *)
(* A client end is named <<owner, n, target>>: the end that the n-th       *)
(* incarnation of `owner` uses to call the server named `target`.  It is   *)
(* connected once, to its target, and is enabled or not.  The network      *)
(* knows the server of a name by its incarnation (a *Server in the code),  *)
(* 0 standing for nil.                                                     *)
(*                                                                         *)
(* One call is one run of processReq:                                      *)
(*                                                                         *)
(*   sent        the request waits in the network                          *)
(*   running     the handler was started at incarnation `inst`             *)
(*   executed    the handler has run, its reply is not back yet            *)
(*   answered    the reply is back and not yet checked                     *)
(*   delivering  the server was alive at the check, the reply is on its    *)
(*               way to the caller (perhaps much later: LongReordering)    *)
(*                                                                         *)
(* A caller makes one call at a time.  Running the handler is left to the  *)
(* modules that extend this one.                                           *)
(***************************************************************************)
EXTENDS Naturals

CONSTANTS
  Servers,      \* server names
  Clients,      \* clients of a test
  MaxInst,      \* bound: incarnations of a server
  MaxCalls,     \* bound: calls in all
  Unreliable,   \* Network.reliable = false
  NoEnd

ASSUME NetworkAssumption ==
  /\ MaxInst \in Nat
  /\ MaxCalls \in Nat
  /\ Unreliable \in BOOLEAN
  /\ Servers \cap Clients = {}

Callers == Servers \cup Clients

Ends == Callers \X (0..MaxInst) \X Servers

VARIABLES
  enabled,   \* the ends that are enabled
  servers,   \* servers[i]: the incarnation of i on the network, or 0
  req,       \* req[x]: the call of caller x
  late,      \* handlers processReq has stopped waiting for
  calls,     \* number of calls made; a call is named by its number
  acked      \* history: the calls that returned true, with their servers

netVars == <<enabled, servers, req, late, calls, acked>>

States == {"idle", "sent", "running", "executed", "answered", "delivering"}

Requests ==
  [st : States, end : Ends \cup {NoEnd}, inst : 0..MaxInst, id : 0..MaxCalls,
   ok : BOOLEAN]

NoRequest == [st |-> "idle", end |-> NoEnd, inst |-> 0, id |-> 0, ok |-> FALSE]

Handlers == [server : Servers, inst : 0..MaxInst, id : 0..MaxCalls]

NetTypeOK ==
  /\ enabled \subseteq Ends
  /\ servers \in [Servers -> 0..MaxInst]
  /\ req \in [Callers -> Requests]
  /\ \A x \in Callers :
       /\ req[x].st # "idle" => req[x].end \in Ends
       /\ req[x].st \notin {"idle", "sent"} => req[x].inst # 0
  /\ late \subseteq Handlers
  /\ calls \in 0..MaxCalls
  /\ acked \subseteq [server : Servers, id : 0..MaxCalls]

MakeNetwork ==
  /\ enabled = {}
  /\ servers = [i \in Servers |-> 0]
  /\ req = [x \in Callers |-> NoRequest]
  /\ late = {}
  /\ calls = 0
  /\ acked = {}

-----------------------------------------------------------------------------
(* One call. *)

Target(x) == req[x].end[3]

\* Call or Forward: the request is handed to the network.
Send(x, e) ==
  /\ req[x].st = "idle"
  /\ calls < MaxCalls
  /\ calls' = calls + 1
  /\ req' = [req EXCEPT ![x] = [st |-> "sent", end |-> e, inst |-> 0,
                                id |-> calls + 1, ok |-> FALSE]]
  /\ UNCHANGED <<servers, late, acked>>

SetReq(x, s, n, ok) ==
  req' = [req EXCEPT ![x] = [st |-> s, end |-> req[x].end, inst |-> n,
                             id |-> req[x].id, ok |-> ok]]

\* Call returns ok.
Finish(x, ok) ==
  /\ req' = [req EXCEPT ![x] = NoRequest]
  /\ acked' = IF ok THEN acked \cup {[server |-> Target(x), id |-> req[x].id]}
                    ELSE acked

\* Mutant of Routable: a server that was deleted is called.
RoutableByEnd(x) == req[x].end \in enabled

\* readEndnameInfo finds the end enabled and its server there.
Routable(x) == req[x].end \in enabled /\ servers[Target(x)] # 0

\* The end is disabled, or the server was deleted or replaced.
IsServerDead(x) ==
  req[x].end \notin enabled \/ servers[Target(x)] # req[x].inst

StartHandler(x) ==
  /\ req[x].st = "sent"
  /\ Routable(x)
  /\ SetReq(x, "running", servers[Target(x)], FALSE)
  /\ UNCHANGED <<enabled, servers, late, calls, acked>>

\* The request cannot be delivered, or is dropped.
LoseRequest(x) ==
  /\ req[x].st = "sent"
  /\ ~Routable(x) \/ Unreliable
  /\ Finish(x, FALSE)
  /\ UNCHANGED <<enabled, servers, late, calls>>

Left(x) == [server |-> Target(x), inst |-> req[x].inst, id |-> req[x].id]

\* Mutant of GiveUp: the end is not looked at while waiting.
GiveUpIfReplaced(x) ==
  /\ req[x].st \in {"running", "executed"}
  /\ servers[Target(x)] # req[x].inst
  /\ late' = IF req[x].st = "running" THEN late \cup {Left(x)} ELSE late
  /\ Finish(x, FALSE)
  /\ UNCHANGED <<enabled, servers, calls>>

\* processReq finds the server dead before the reply is back.
GiveUp(x) ==
  /\ req[x].st \in {"running", "executed"}
  /\ IsServerDead(x)
  /\ late' = IF req[x].st = "running" THEN late \cup {Left(x)} ELSE late
  /\ Finish(x, FALSE)
  /\ UNCHANGED <<enabled, servers, calls>>

\* Mutant of Accept: the reply is not checked.
AcceptUnchecked(x) ==
  /\ req[x].st = "answered"
  /\ SetReq(x, "delivering", req[x].inst, req[x].ok)
  /\ UNCHANGED <<enabled, servers, late, calls, acked>>

\* The reply is back and the server is not dead.
Accept(x) ==
  /\ req[x].st = "answered"
  /\ ~IsServerDead(x)
  /\ SetReq(x, "delivering", req[x].inst, req[x].ok)
  /\ UNCHANGED <<enabled, servers, late, calls, acked>>

\* The server is dead, or the reply is dropped.
LoseReply(x) ==
  /\ req[x].st = "answered"
  /\ IsServerDead(x) \/ Unreliable
  /\ Finish(x, FALSE)
  /\ UNCHANGED <<enabled, servers, late, calls>>

Deliver(x) ==
  /\ req[x].st = "delivering"
  /\ Finish(x, req[x].ok)
  /\ UNCHANGED <<enabled, servers, late, calls>>

=============================================================================
