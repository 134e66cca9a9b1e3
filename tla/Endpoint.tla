------------------------------ MODULE Endpoint ------------------------------
(***************************************************************************)
(* The endpoints (endpoint/): a table of routers that callers change while *)
(* requests come in, and what a request goes through: DoProcess, the From  *)
(* and To processes, and the rule chain or component that the router leads *)
(* to, waited for or not.                                                  *)
(*                                                                         *)
(* The kinds differ in their tables.  rest and websocket keep a removed    *)
(* router and disable it, as the HTTP router (external) cannot forget it;  *)
(* net deletes it; schedule numbers its entries.  A router of rest may be  *)
(* added for several methods, and is disabled for all of them at once.     *)
(* The table of mqtt, whose messages depend on what the client could       *)
(* subscribe and unsubscribe, is in MqttClient; here its messages come for *)
(* any router.                                                             *)
(*                                                                         *)
(* What the engine does with a message is in RuleContext; here it is the   *)
(* number of times that it ends, none if a node keeps silent.  With one    *)
(* end it completes after it, unless a node panics; with several it may    *)
(* complete before the last of them.                                       *)
(***************************************************************************)
EXTENDS Naturals, FiniteSets

CONSTANTS
  Kinds,         \* the kinds of endpoint that are considered
  Routers,       \* router objects
  From,          \* From[r]: the path, expression or entry of router r
  Methods,       \* HTTP methods, as callers write them
  Added,         \* Added[x]: the pairs of method and router that callers add to kind x
  ToUpper,       \* ToUpper[m]: strings.ToUpper (external)
  To,            \* To[r]: the type of executor before the colon, another text, or None
  Handlers,      \* goroutines that serve a request, a connection or a job
  MaxEnds,       \* bound: ends of one execution
  MaxLoose,      \* bound: ends to come that nobody waits for
  None

ASSUME EndpointAssumption ==
  /\ None \notin Routers /\ MaxEnds \in Nat /\ MaxLoose \in Nat
  /\ "GET" \in Methods /\ ToUpper \in [Methods -> Methods] /\ Added \in [Kinds -> SUBSET (Methods \X Routers)]

Keys == Methods \X {From[r] : r \in Routers}

VARIABLES
  kind, server,
  table,         \* RouterStorage, routers of net, entries of cron
  disabled,      \* routers with the flag disable
  calls,         \* the last call that found a key: "on" or "off", or none yet, "new"
  h,             \* the handlers
  loose          \* ends to come of executions that no handler waits for

vars == <<kind, server, table, disabled, calls, h, loose>>
routing == <<table, disabled, calls>>

Free == [pc |-> "free", cur |-> None, todo |-> {}, silent |-> FALSE, ends |-> 0, ran |-> 0, completed |-> FALSE]

Init ==
  /\ kind \in Kinds /\ server = "new"
  /\ table = [k \in Keys |-> None] /\ disabled = {}
  /\ calls = [k \in Keys |-> "new"]
  /\ h = [q \in Handlers |-> Free]
  /\ loose = 0
-----------------------------------------------------------------------------
(* The tables.                                                             *)

http == kind \in {"rest", "websocket"}

\* From.To: a text that begins with no known type of executor is the id of a chain.
Executor(r) ==
  CASE To[r] = None -> None
    [] To[r] = "component" -> "component"
    [] OTHER -> "chain"

\* routerKey: rest turns the method of an added router to upper case; websocket has GET,
\* and the others no method.
KeyOf(m, r) == <<IF kind = "rest" THEN ToUpper[m] ELSE "GET", From[r]>>

\* Mutant: an old router stays disabled.
AddKeepsDisabled(k, r) ==
  /\ table' = [table EXCEPT ![k] = IF @ = None THEN r ELSE @]
  /\ UNCHANGED disabled

\* addRouter: a stored router is enabled again, and the new one is dropped; a new one is
\* stored as it is, disabled if it was removed for another method.
AddHttp(k, r) ==
  /\ table' = [table EXCEPT ![k] = IF @ = None THEN r ELSE @]
  /\ disabled' = disabled \ {table[k]}

\* addRouter of websocket is the same.
AddWs(k, r) == AddHttp(k, r)

\* net AddRouter: a duplicate is an error.
AddNet(k, r) ==
  /\ table' = [table EXCEPT ![k] = IF @ = None THEN r ELSE @]
  /\ UNCHANGED disabled

\* schedule AddRouter: cron gives a new entry.
AddCron(k, r) ==
  /\ calls[k] = "new"
  /\ table' = [table EXCEPT ![k] = r]
  /\ UNCHANGED disabled

\* One of the methods that AddRouter of rest is called with; the others take none.
AddRouter(m, r) ==
  /\ kind = "rest" \/ m = "GET"
  /\ LET k == KeyOf(m, r)
     IN /\ \/ kind = "rest" /\ AddHttp(k, r)
           \/ kind = "websocket" /\ AddWs(k, r)
           \/ kind = "net" /\ AddNet(k, r)
           \/ kind = "schedule" /\ AddCron(k, r)
        /\ calls' = [calls EXCEPT ![k] = "on"]
  /\ UNCHANGED <<kind, server, h, loose>>

\* RemoveRouter of rest and websocket disables a router that is found.
Disable(k) ==
  /\ disabled' = disabled \cup ({table[k]} \ {None})
  /\ UNCHANGED table

\* RemoveRouter of net deletes it.
Delete(k) ==
  /\ table' = [table EXCEPT ![k] = None]
  /\ UNCHANGED disabled

\* So does cron, for schedule.
DeleteCron(k) == Delete(k)

\* RemoveRouter, for one method, which rest uses as it is given; without an error when
\* there is nothing to remove.
RemoveRouter(k) ==
  /\ \/ http /\ Disable(k)
     \/ kind = "net" /\ Delete(k)
     \/ kind = "schedule" /\ DeleteCron(k)
  /\ calls' = [calls EXCEPT ![k] = IF table[k] = None THEN @ ELSE "off"]
  /\ UNCHANGED <<kind, server, h, loose>>
-----------------------------------------------------------------------------
(* Start, Close and the arrival of requests.                               *)

Start ==
  /\ server = "new" \/ (kind = "schedule" /\ server = "off")
  /\ server' = "on"
  /\ UNCHANGED <<kind, routing, h, loose>>

\* Close: rest and websocket shut the HTTP server down.
Close ==
  /\ server = "on"
  /\ server' = IF http THEN "closing" ELSE "off"
  /\ UNCHANGED <<kind, routing, h, loose>>

Busy(q) == h[q].pc \in {"process", "wait"}

\* Mutant: connections that have been upgraded are waited for.
CloseWaitsForAll ==
  /\ server = "closing"
  /\ \A q \in Handlers : h[q].pc = "free"
  /\ server' = "off"
  /\ UNCHANGED <<kind, routing, h, loose>>

\* Close: Shutdown waits for the requests; websocket connections are not its own.
CloseReturns ==
  /\ server = "closing"
  /\ kind = "rest" => \A q \in Handlers : ~Busy(q)
  /\ server' = "off"
  /\ UNCHANGED <<kind, routing, h, loose>>

Goto(q, pc) == h' = [h EXCEPT ![q].pc = pc]

Serve(q, r) == h' = [h EXCEPT ![q].pc = "process", ![q].cur = r]

env == <<kind, server, routing, loose>>

\* rest handler: the disabled router is not found.
RestRequest(q, k) ==
  /\ kind = "rest" /\ server = "on" /\ h[q].pc = "free"
  /\ table[k] # None /\ table[k] \notin disabled
  /\ Serve(q, table[k])
  /\ UNCHANGED env

\* websocket handler: Upgrade; the connection keeps its router.
WsConnect(q, k) ==
  /\ kind = "websocket" /\ server = "on" /\ h[q].pc = "free"
  /\ table[k] # None
  /\ h' = [h EXCEPT ![q].pc = "open", ![q].cur = table[k]]
  /\ UNCHANGED env

\* Mutant: the router is looked at when the connection is made.
WsMessageUnchecked(q) ==
  /\ kind = "websocket" /\ h[q].pc = "open"
  /\ Goto(q, "process")
  /\ UNCHANGED env

\* websocket handler: a message; a disabled router ends the connection.
WsMessage(q) ==
  /\ kind = "websocket" /\ h[q].pc = "open"
  /\ IF h[q].cur \in disabled THEN h' = [h EXCEPT ![q] = Free] ELSE Goto(q, "process")
  /\ UNCHANGED env

\* net: a connection is accepted.
NetConnect(q) ==
  /\ kind = "net" /\ server = "on" /\ h[q].pc = "free"
  /\ Goto(q, "open")
  /\ UNCHANGED env

\* net handler: a line that matches the expressions of some keys.
NetMessage(q, matching) ==
  /\ kind = "net" /\ h[q].pc = "open"
  /\ h' = [h EXCEPT ![q].pc = "range", ![q].todo = matching]
  /\ UNCHANGED env

\* net handler: the next router that matches, from the map as it is now.
NetNext(q) ==
  /\ h[q].pc = "range"
  /\ LET left == {k \in h[q].todo : table[k] # None}
     IN \/ \E k \in left :
             h' = [h EXCEPT ![q].pc = "process", ![q].cur = table[k], ![q].todo = @ \ {k}]
        \/ left = {} /\ h' = [h EXCEPT ![q] = [Free EXCEPT !.pc = "open"]]
  /\ UNCHANGED env

\* schedule: cron runs an entry.
Fire(q, k) ==
  /\ kind = "schedule" /\ server = "on" /\ h[q].pc = "free"
  /\ table[k] # None
  /\ Serve(q, table[k])
  /\ UNCHANGED env

\* mqtt: paho calls the closure of a router that has been subscribed, for one message at
\* a time; after RemoveRouter and Close too, as MqttClient shows.
MqttMessage(q, r) ==
  /\ kind = "mqtt" /\ server # "new"
  /\ \A p \in Handlers : h[p].pc = "free"
  /\ Serve(q, r)
  /\ UNCHANGED env

\* A connection is closed by its peer.
Disconnect(q) ==
  /\ h[q].pc = "open"
  /\ h' = [h EXCEPT ![q] = Free]
  /\ UNCHANGED env
-----------------------------------------------------------------------------
(* DoProcess.                                                              *)

\* The handler after DoProcess: the connection goes on, or is over.
After(q) ==
  CASE kind = "websocket" -> [Free EXCEPT !.pc = "open", !.cur = h[q].cur]
    [] kind = "net" -> [Free EXCEPT !.pc = "range", !.todo = h[q].todo]
    [] OTHER -> Free

Return(q) == h' = [h EXCEPT ![q] = After(q)]

\* An interceptor or a From process says no, or there is no To; a panic is recovered by
\* the handler, and ends a connection.
Refused(q) ==
  /\ h[q].pc = "process"
  /\ h' \in {[h EXCEPT ![q] = After(q)], [h EXCEPT ![q] = Free]}
  /\ UNCHANGED env

\* ChainExecutor: no such chain; the To processes run with an error.
NotFound(q) ==
  /\ h[q].pc = "process" /\ Executor(h[q].cur) = "chain"
  /\ Return(q)
  /\ UNCHANGED env

\* Execute without wait: OnMsg, and the handler goes on.  It is the handler itself that
\* runs a component, and its panic.
ExecuteAsync(q, n) ==
  /\ h[q].pc = "process" /\ Executor(h[q].cur) # None
  /\ loose + n <= MaxLoose
  /\ Return(q) \/ (Executor(h[q].cur) = "component" /\ h' = [h EXCEPT ![q] = Free])
  /\ loose' = loose + n
  /\ UNCHANGED <<kind, server, routing>>

\* Execute with wait: OnMsgAndWait, or the channel of ComponentExecutor.
ExecuteWait(q, n) ==
  /\ h[q].pc = "process" /\ Executor(h[q].cur) # None
  /\ h' = [h EXCEPT ![q].pc = "wait", ![q].silent = (n = 0), ![q].ends = n]
  /\ UNCHANGED env

\* The end function: it sets Out and runs the To processes.
End(q) ==
  /\ h[q].pc = "wait" /\ h[q].ends > 0
  /\ h' = [h EXCEPT ![q].ends = @ - 1, ![q].ran = @ + 1]
  /\ UNCHANGED env

\* Mutant: off by one in the count of what is still to end.
DoneWhenAll(q) ==
  /\ h[q].pc = "wait" /\ h[q].ran > 1
  /\ h' = [h EXCEPT ![q].ran = @ - 1, ![q].completed = TRUE]
  /\ UNCHANGED env

\* DoOnEnd: childDone after the end function completes the execution.
ChildDone(q) ==
  /\ h[q].pc = "wait" /\ h[q].ran > 0
  /\ \E c \in {TRUE, h[q].completed \/ (h[q].ran = 1 /\ h[q].ends = 0)} :
       h' = [h EXCEPT ![q].ran = @ - 1, ![q].completed = c]
  /\ UNCHANGED env

\* tellNext recovers a panic of a node of the chain: childDone, which may complete the
\* execution before its ends, or without any.
ChainPanics(q) ==
  /\ h[q].pc = "wait" /\ Executor(h[q].cur) = "chain"
  /\ h' = [h EXCEPT ![q].completed = TRUE]
  /\ UNCHANGED env

\* Nobody waits any more for the ends to come.
Leave(q) ==
  /\ loose + h[q].ends + h[q].ran <= MaxLoose
  /\ loose' = loose + h[q].ends + h[q].ran
  /\ UNCHANGED <<kind, server, routing>>

\* A component panics in the goroutine of the handler, which recovers and is over.
ComponentPanics(q) ==
  /\ h[q].pc = "wait" /\ Executor(h[q].cur) = "component"
  /\ h' = [h EXCEPT ![q] = Free]
  /\ Leave(q)

\* Execute returns; further ends find nobody waiting.
WaitReturns(q) ==
  /\ h[q].pc = "wait" /\ h[q].completed
  /\ Return(q)
  /\ Leave(q)

\* An end that nobody waits for runs the To processes on its own.
EndLoose ==
  /\ loose > 0 /\ loose' = loose - 1
  /\ UNCHANGED <<kind, server, routing, h>>

Handle(q) ==
  \/ Refused(q) \/ NotFound(q) \/ NetNext(q) \/ End(q) \/ ChildDone(q) \/ WaitReturns(q)
  \/ \E n \in 0..MaxEnds : ExecuteAsync(q, n) \/ ExecuteWait(q, n)

Arrive(q) ==
  \/ \E k \in Keys : RestRequest(q, k) \/ WsConnect(q, k) \/ Fire(q, k)
  \/ \E r \in Routers : MqttMessage(q, r)
  \/ WsMessage(q) \/ NetConnect(q) \/ Disconnect(q)
  \/ \E matching \in SUBSET {k \in Keys : k[1] = "GET"} : NetMessage(q, matching)

Next ==
  \/ \E x \in Added[kind] : AddRouter(x[1], x[2])
  \/ \E k \in Keys : RemoveRouter(k)
  \/ Start \/ Close \/ CloseReturns \/ EndLoose
  \/ \E q \in Handlers : Arrive(q) \/ Handle(q) \/ ChainPanics(q) \/ ComponentPanics(q)

\* Goroutines run; Shutdown polls until the requests are served.
Spec ==
  /\ Init /\ [][Next]_vars
  /\ WF_vars(CloseReturns) /\ WF_vars(EndLoose)
  /\ \A q \in Handlers : WF_vars(Handle(q))
-----------------------------------------------------------------------------
TypeOK ==
  /\ kind \in Kinds /\ server \in {"new", "on", "closing", "off"}
  /\ table \in [Keys -> Routers \cup {None}] /\ disabled \subseteq Routers
  /\ calls \in [Keys -> {"new", "on", "off"}]
  /\ loose \in 0..MaxLoose
  /\ h \in [Handlers -> [pc : {"free", "open", "range", "process", "wait"}, cur : Routers \cup {None},
                         todo : SUBSET Keys, silent : BOOLEAN, ends : 0..MaxEnds, ran : 0..MaxEnds,
                         completed : BOOLEAN]]
  /\ kind = "mqtt" => Cardinality({q \in Handlers : Busy(q)}) <= 1

(***************************************************************************)
(* The table does what the calls ask (AddRouter, RemoveRouter): a key      *)
(* whose last call was AddRouter has a router for its path, also after it  *)
(* was removed and added again.  That router serves, unless it is an       *)
(* object that has been added for several methods and removed for another  *)
(* one, as they share the flag disable.                                    *)
(***************************************************************************)
AddedIsServed ==
  \A k \in Keys : calls[k] = "on" =>
    /\ table[k] # None /\ From[table[k]] = k[2]
    /\ table[k] \in disabled => \E j \in Keys : table[j] = table[k] /\ calls[j] = "off"

(***************************************************************************)
(* A removed router takes no further message (RemoveRouter and handlers of *)
(* rest, websocket, net and schedule), not even on a websocket connection  *)
(* that was made before: some key that the router is stored under was      *)
(* added last.                                                             *)
(***************************************************************************)
ServesAdded ==
  [][\A q \in Handlers : kind # "mqtt" /\ h[q].pc # "process" /\ h'[q].pc = "process" =>
       \E k \in Keys : table[k] = h'[q].cur /\ calls[k] = "on"]_vars

Silent(q) == h[q].pc = "wait" /\ h[q].silent

(***************************************************************************)
(* Every request is finished (DoProcess), unless a chain that never ends   *)
(* is waited for.                                                          *)
(***************************************************************************)
RequestEnds == \A q \in Handlers : Busy(q) ~> ~Busy(q) \/ Silent(q)

(***************************************************************************)
(* Close returns (Shutdown with context.Background() waits for the         *)
(* requests), unless one of them waits for a chain that never ends.        *)
(***************************************************************************)
CloseEnds == server = "closing" ~> server = "off" \/ \E q \in Handlers : Silent(q)
=============================================================================
