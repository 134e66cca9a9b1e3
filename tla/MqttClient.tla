----------------------------- MODULE MqttClient -----------------------------
(***************************************************************************)
(* The MQTT endpoint (endpoint/mqtt/mqtt.go) on its client                 *)
(* (components/mqtt/client.go): routers are added and removed by several   *)
(* goroutines, before, while and after the endpoint starts, while the      *)
(* connection to the broker is lost and made again.  After each            *)
(* connection a goroutine of onConnected subscribes what it finds in       *)
(* msgHandlerMap, which it reads without the lock.                         *)
(*                                                                         *)
(* The broker and the paho client are external: a subscription asked for   *)
(* without a connection fails; a broker forgets the subscriptions of a     *)
(* client that is cut off if the session is a clean one.                   *)
(***************************************************************************)
EXTENDS Naturals, FiniteSets

CONSTANTS
  Routers,       \* the routers that callers add
  Topic,         \* Topic[r]: the topic that router r is from
  Workers,       \* goroutines that call AddRouter, RemoveRouter or Close, once each
  Main,          \* the one of them that calls Start
  MaxLosses,     \* bound: how often the connection is lost
  None

\* nil is no router and no goroutine; one of the goroutines starts the endpoint.
ASSUME MqttAssumption ==
  None \notin Routers \cup Workers /\ Main \in Workers /\ MaxLosses \in Nat

Topics == {Topic[r] : r \in Routers}

RouterOf(t) == CHOOSE r \in Routers : Topic[r] = t

Slots == Routers \cup {None}

VARIABLES
  storage,       \* RouterStorage
  client,        \* m.client is set
  handlers,      \* msgHandlerMap
  lock,          \* who holds the mutex of the client
  connected, losses,
  subs,          \* what the broker will deliver
  route,         \* the callback that paho calls for a topic
  pc, arg, todo, \* each worker: where it is, its router, what Start has left to do
  resub,         \* each goroutine of onConnected: what it has subscribed, and is about to
  called, removed, closed

state == <<storage, client, handlers, lock>>
broker == <<connected, losses, subs, route>>
work == <<pc, arg, todo>>
history == <<called, removed, closed>>
vars == <<state, broker, work, resub, history>>

NotRunning == [run |-> FALSE, seen |-> {}, cur |-> None]

\* The routers of no topic, or of every topic, have been added before.
Init ==
  /\ storage \in {[t \in Topics |-> None], [t \in Topics |-> RouterOf(t)]}
  /\ client = FALSE
  /\ handlers = [t \in Topics |-> None]
  /\ lock = None
  /\ connected = FALSE /\ losses = 0
  /\ subs = {} /\ route = [t \in Topics |-> None]
  /\ pc = [w \in Workers |-> "idle"]
  /\ arg = [w \in Workers |-> None]
  /\ todo = [w \in Workers |-> {}]
  /\ resub = [g \in 0..MaxLosses |-> NotRunning]
  /\ called = {} /\ removed = {} /\ closed = FALSE

Call(w) == pc[w] = "idle" /\ w \notin called /\ called' = called \cup {w}

\* A worker goes on to label l with router r; an idle one has none.
Step(w, l, r) ==
  /\ pc' = [pc EXCEPT ![w] = l]
  /\ arg' = [arg EXCEPT ![w] = IF l = "idle" THEN None ELSE r]
-----------------------------------------------------------------------------
(* The endpoint.                                                           *)

\* AddRouter: saveRouter.
AddRouter(w, r) ==
  /\ Call(w)
  /\ storage' = [storage EXCEPT ![Topic[r]] = r]
  /\ Step(w, "added", r)
  /\ UNCHANGED <<client, handlers, lock, broker, todo, resub, removed, closed>>

\* Mutant: the router is left to Start.
AddedLater(w) ==
  /\ pc[w] = "added" /\ Step(w, "idle", None)
  /\ UNCHANGED <<state, broker, todo, resub, history>>

\* AddRouter: the client exists already, or Start will find the router.
Added(w) ==
  /\ pc[w] = "added"
  /\ Step(w, IF client THEN "lock" ELSE "idle", arg[w])
  /\ UNCHANGED <<state, broker, todo, resub, history>>

\* RemoveRouter: deleteRouter.  Before Start there is no client to call.
RemoveRouter(w, t) ==
  /\ Call(w) /\ client
  /\ storage' = [storage EXCEPT ![t] = None]
  /\ removed' = removed \cup {t}
  /\ Step(w, "unsub", RouterOf(t))
  /\ UNCHANGED <<client, handlers, lock, broker, todo, resub, closed>>

\* Start: NewClient, until the first connection; onConnected runs beside it.  A
\* context that runs out leaves everything as it was.
Start(w) ==
  /\ pc[w] = "idle" /\ ~connected /\ losses = 0
  /\ connected' = TRUE
  /\ resub' = [resub EXCEPT ![losses].run = TRUE]
  /\ Step(w, "made", None)
  /\ UNCHANGED <<state, losses, subs, route, todo, history>>

\* Start: m.client is set; then it ranges over the routers.
Started(w) ==
  /\ pc[w] = "made"
  /\ client' = TRUE
  /\ todo' = [todo EXCEPT ![w] = Topics]
  /\ Step(w, "range", None)
  /\ UNCHANGED <<storage, handlers, lock, broker, resub, history>>

\* Start: the next router, or the end.
Range(w) ==
  /\ pc[w] = "range"
  /\ \/ \E t \in todo[w] :
          /\ todo' = [todo EXCEPT ![w] = @ \ {t}]
          /\ Step(w, IF storage[t] = None THEN "range" ELSE "lock", storage[t])
     \/ todo[w] = {} /\ Step(w, "idle", None) /\ UNCHANGED todo
  /\ UNCHANGED <<state, broker, resub, history>>

\* Close: Unsubscribe for every handler; the handlers and the connection stay.
Close(w) ==
  /\ Call(w) /\ client
  /\ closed' = TRUE
  /\ LET gone == {t \in Topics : connected /\ handlers[t] # None}
     IN /\ subs' = subs \ gone
        /\ route' = [t \in Topics |-> IF t \in gone THEN None ELSE route[t]]
  /\ UNCHANGED <<state, connected, losses, work, resub, removed>>
-----------------------------------------------------------------------------
(* The client.                                                             *)

\* Subscribe, with the callback of router r.
Subscribed(r) ==
  /\ connected
  /\ subs' = subs \cup {Topic[r]}
  /\ route' = [route EXCEPT ![Topic[r]] = r]

\* RegisterHandler: the lock, and the handler.
RegisterHandler(w) ==
  /\ pc[w] = "lock" /\ lock = None
  /\ lock' = w
  /\ handlers' = [handlers EXCEPT ![Topic[arg[w]]] = arg[w]]
  /\ Step(w, "sub", arg[w])
  /\ UNCHANGED <<storage, client, broker, todo, resub, history>>

\* Mutant: no deferred unlock.
SubscribeLocked(w) ==
  /\ pc[w] = "sub"
  /\ Subscribed(arg[w])
  /\ Step(w, IF todo[w] # {} THEN "range" ELSE "idle", None)
  /\ UNCHANGED <<state, connected, losses, todo, resub, history>>

\* RegisterHandler: subscribeHandler tries until it succeeds, then the unlock.
Subscribe(w) ==
  /\ pc[w] = "sub"
  /\ Subscribed(arg[w])
  /\ lock' = None
  /\ Step(w, IF todo[w] # {} THEN "range" ELSE "idle", None)
  /\ UNCHANGED <<storage, client, handlers, connected, losses, todo, resub, history>>

\* UnregisterHandler: Unsubscribe; an error ends it.
Unsubscribe(w) ==
  /\ pc[w] = "unsub"
  /\ LET t == Topic[arg[w]]
     IN IF connected
        THEN subs' = subs \ {t} /\ route' = [route EXCEPT ![t] = None] /\ Step(w, "delete", arg[w])
        ELSE Step(w, "idle", None) /\ UNCHANGED <<subs, route>>
  /\ UNCHANGED <<state, connected, losses, todo, resub, history>>

\* UnregisterHandler: the lock, and the handler of the topic, whichever it is.
Delete(w) ==
  /\ pc[w] = "delete" /\ lock = None
  /\ handlers' = [handlers EXCEPT ![Topic[arg[w]]] = None]
  /\ Step(w, "idle", None)
  /\ UNCHANGED <<storage, client, lock, broker, todo, resub, history>>

\* onConnected, subscribe: the next handler of the map, or the end.
ResubNext(g) ==
  /\ resub[g].run /\ resub[g].cur = None
  /\ LET left == {t \in Topics \ resub[g].seen : handlers[t] # None}
     IN \/ \E t \in left :
             resub' = [resub EXCEPT ![g].seen = @ \cup {t}, ![g].cur = handlers[t]]
        \/ left = {} /\ resub' = [resub EXCEPT ![g] = NotRunning]
  /\ UNCHANGED <<state, broker, work, history>>

\* onConnected, subscribe: subscribeHandler tries until it succeeds.
Resubscribe(g) ==
  /\ resub[g].cur # None
  /\ Subscribed(resub[g].cur)
  /\ resub' = [resub EXCEPT ![g].cur = None]
  /\ UNCHANGED <<state, connected, losses, work, history>>

\* External: the connection is lost.
Lose ==
  /\ connected /\ losses < MaxLosses
  /\ connected' = FALSE /\ losses' = losses + 1
  /\ subs' \in {{}, subs}
  /\ UNCHANGED <<state, route, work, resub, history>>

\* Mutant: nothing is done on a new connection.
ReconnectSilently ==
  /\ ~connected /\ losses > 0
  /\ connected' = TRUE
  /\ UNCHANGED <<state, losses, subs, route, work, resub, history>>

\* paho connects again and starts onConnected.
Reconnect ==
  /\ ~connected /\ losses > 0
  /\ connected' = TRUE
  /\ resub' = [resub EXCEPT ![losses].run = TRUE]
  /\ UNCHANGED <<state, losses, subs, route, work, history>>

Work(w) ==
  \/ Added(w) \/ Started(w) \/ Range(w) \/ RegisterHandler(w) \/ Subscribe(w)
  \/ Unsubscribe(w) \/ Delete(w)

Next ==
  \/ \E w \in Workers : \/ Work(w) \/ Close(w)
                        \/ \E r \in Routers : AddRouter(w, r)
                        \/ \E t \in Topics : RemoveRouter(w, t)
  \/ \E g \in 0..MaxLosses : ResubNext(g) \/ Resubscribe(g)
  \/ Start(Main) \/ Lose \/ Reconnect

\* Goroutines run, a mutex is handed to each that waits, and the connection comes
\* back.
Spec ==
  /\ Init /\ [][Next]_vars
  /\ \A w \in Workers : SF_vars(Work(w))
  /\ \A g \in 0..MaxLosses : WF_vars(ResubNext(g)) /\ SF_vars(Resubscribe(g))
  /\ WF_vars(Reconnect)
-----------------------------------------------------------------------------
TypeOK ==
  /\ storage \in [Topics -> Slots] /\ handlers \in [Topics -> Slots] /\ route \in [Topics -> Slots]
  /\ client \in BOOLEAN /\ connected \in BOOLEAN /\ closed \in BOOLEAN
  /\ lock \in Workers \cup {None} /\ \A w \in Workers : lock = w <=> pc[w] = "sub"
  /\ losses \in 0..MaxLosses
  /\ subs \subseteq Topics /\ removed \subseteq Topics /\ called \subseteq Workers
  /\ pc \in [Workers -> {"idle", "added", "made", "range", "lock", "sub", "unsub", "delete"}]
  /\ arg \in [Workers -> Slots] /\ todo \in [Workers -> SUBSET Topics]
  /\ resub \in [0..MaxLosses -> [run : BOOLEAN, seen : SUBSET Topics, cur : Slots]]

Quiet == (\A w \in Workers : pc[w] = "idle") /\ \A g \in 0..MaxLosses : ~resub[g].run

(***************************************************************************)
(* No subscription is lost over a reconnection (RegisterHandler,           *)
(* onConnected): when nothing is under way and the connection is up, every *)
(* handler of the client is subscribed at the broker and called by paho,   *)
(* whatever the order of registrations, removals, losses and connections.  *)
(***************************************************************************)
HandlersSubscribed ==
  Quiet /\ connected /\ ~closed =>
    \A t \in Topics : handlers[t] # None => t \in subs /\ route[t] # None

(***************************************************************************)
(* A router added while the endpoint starts is not missed (AddRouter       *)
(* stores, then looks for the client; Start sets the client, then ranges   *)
(* over the stored routers): once both are done it is registered, unless   *)
(* its topic has been removed.                                             *)
(***************************************************************************)
AddedIsRegistered ==
  client /\ Quiet =>
    \A t \in Topics \ removed : storage[t] # None => handlers[t] # None

(***************************************************************************)
(* RegisterHandler returns (client.go:130): it holds the mutex while it    *)
(* tries to subscribe, and comes through when the broker is reached again. *)
(***************************************************************************)
RegisterReturns == \A w \in Workers : pc[w] = "lock" ~> pc[w] \in {"idle", "range"}
=============================================================================
