-------------------------- MODULE MqttClientProofs --------------------------
(***************************************************************************)
(* Proofs about MqttClient: no subscription is lost over a reconnection,   *)
(* and no router that is added while the endpoint starts is missed, for    *)
(* any routers, topics and goroutines, and any number of losses.           *)
(*                                                                         *)
(* Both properties speak of the moments when nothing is under way.  The    *)
(* inductive invariant says, for every other moment, who still owes the    *)
(* subscription or the registration of a topic.                            *)
(***************************************************************************)
EXTENDS MqttClient, TLAPS

\* A worker inside a call has a router; the topic of a call to UnregisterHandler
\* has been removed.
ArgInv ==
  \A w \in Workers :
    /\ pc[w] \in {"added", "lock", "sub", "unsub", "delete"} => arg[w] \in Routers
    /\ pc[w] \in {"unsub", "delete"} => Topic[arg[w]] \in removed

\* A router is stored, and handled, under its own topic.
TopicInv ==
  \A t \in Topics :
    /\ storage[t] # None => Topic[storage[t]] = t
    /\ handlers[t] # None => Topic[handlers[t]] = t

\* The goroutine of a connection that has not been made yet has done nothing.
FreshInv ==
  \A g \in 0..MaxLosses :
    g > losses \/ (g = losses /\ ~connected) => resub[g] = NotRunning

\* Topic t is delivered and called; a worker will subscribe it or drop its
\* handler; the goroutine of this connection has yet to come to it.
Delivered(t) == t \in subs /\ route[t] # None
OwedByWorker(t) == \E w \in Workers : pc[w] \in {"sub", "delete"} /\ Topic[arg[w]] = t
OwedByResub(t) ==
  /\ resub[losses].run
  /\ t \notin resub[losses].seen \/ (resub[losses].cur # None /\ Topic[resub[losses].cur] = t)

SubscribedInv ==
  connected /\ ~closed =>
    \A t \in Topics : handlers[t] # None => Delivered(t) \/ OwedByWorker(t) \/ OwedByResub(t)

\* AddRouter will register topic t; Start will come to it.
OwedByAdd(t) == \E w \in Workers : pc[w] \in {"added", "lock"} /\ Topic[arg[w]] = t
OwedByStart(t) == \E w \in Workers : pc[w] \in {"range", "lock", "sub"} /\ t \in todo[w]

RegisteredInv ==
  client => \A t \in Topics \ removed :
    storage[t] # None => handlers[t] # None \/ OwedByAdd(t) \/ OwedByStart(t)

MqttInv ==
  TypeOK /\ ArgInv /\ TopicInv /\ FreshInv /\ SubscribedInv /\ RegisteredInv
-----------------------------------------------------------------------------
ResubRec == [run : BOOLEAN, seen : SUBSET Topics, cur : Slots]

\* A goroutine of onConnected moves on; the others stay where they are.
LEMMA ResubMoved ==
  ASSUME resub \in [0..MaxLosses -> ResubRec], NEW g \in 0..MaxLosses,
         NEW rec \in ResubRec, resub' = [resub EXCEPT ![g] = rec]
  PROVE  /\ resub' \in [0..MaxLosses -> ResubRec]
         /\ resub'[g] = rec
         /\ \A k \in 0..MaxLosses : k # g => resub'[k] = resub[k]
OBVIOUS

\* A new connection starts its goroutine.
LEMMA ResubRuns ==
  ASSUME TypeOK, resub' = [resub EXCEPT ![losses].run = TRUE]
  PROVE  /\ resub' \in [0..MaxLosses -> ResubRec]
         /\ resub'[losses].run /\ resub'[losses].seen = resub[losses].seen
         /\ \A k \in 0..MaxLosses : k # losses => resub'[k] = resub[k]
<1> DEFINE rec == [resub[losses] EXCEPT !.run = TRUE]
<1>1. resub \in [0..MaxLosses -> ResubRec] /\ losses \in 0..MaxLosses
  BY DEF TypeOK, ResubRec
<1>2. resub[losses] \in ResubRec
  BY <1>1
<1>3. rec \in ResubRec /\ rec.run /\ rec.seen = resub[losses].seen
  BY <1>2, Zenon DEF ResubRec
<1>4. resub' = [resub EXCEPT ![losses] = rec]
  OBVIOUS
<1> HIDE DEF rec
<1> QED
  BY <1>1, <1>3, <1>4, ResubMoved, Zenon

\* A goroutine takes the handler of a topic.
LEMMA ResubTakes ==
  ASSUME TypeOK, NEW g \in 0..MaxLosses, NEW t \in Topics,
         resub' = [resub EXCEPT ![g].seen = @ \cup {t}, ![g].cur = handlers[t]]
  PROVE  /\ resub' \in [0..MaxLosses -> ResubRec]
         /\ resub'[g].run = resub[g].run
         /\ resub'[g].seen = resub[g].seen \cup {t}
         /\ resub'[g].cur = handlers[t]
         /\ \A k \in 0..MaxLosses : k # g => resub'[k] = resub[k]
<1> DEFINE rec == [resub[g] EXCEPT !.seen = @ \cup {t}, !.cur = handlers[t]]
<1>1. resub \in [0..MaxLosses -> ResubRec] /\ handlers[t] \in Slots
  BY DEF TypeOK, ResubRec
<1>2. resub[g] \in ResubRec
  BY <1>1
<1>3. /\ rec \in ResubRec /\ rec.run = resub[g].run
      /\ rec.seen = resub[g].seen \cup {t} /\ rec.cur = handlers[t]
  BY <1>1, <1>2, Zenon DEF ResubRec
<1>4. resub' = [resub EXCEPT ![g] = rec]
  BY <1>1, <1>2, Zenon DEF ResubRec
<1> HIDE DEF rec
<1> QED
  BY <1>1, <1>3, <1>4, ResubMoved, Zenon

\* A goroutine has subscribed what it had taken.
LEMMA ResubDone ==
  ASSUME TypeOK, NEW g \in 0..MaxLosses, resub' = [resub EXCEPT ![g].cur = None]
  PROVE  /\ resub' \in [0..MaxLosses -> ResubRec]
         /\ resub'[g].run = resub[g].run /\ resub'[g].seen = resub[g].seen
         /\ \A k \in 0..MaxLosses : k # g => resub'[k] = resub[k]
<1> DEFINE rec == [resub[g] EXCEPT !.cur = None]
<1>1. resub \in [0..MaxLosses -> ResubRec]
  BY DEF TypeOK, ResubRec
<1>2. resub[g] \in ResubRec
  BY <1>1
<1>3. rec \in ResubRec /\ rec.run = resub[g].run /\ rec.seen = resub[g].seen
  BY <1>2 DEF ResubRec, Slots
<1>4. resub' = [resub EXCEPT ![g] = rec]
  OBVIOUS
<1> HIDE DEF rec
<1> QED
  BY <1>1, <1>3, <1>4, ResubMoved

\* A goroutine ends.
LEMMA ResubEnds ==
  ASSUME TypeOK, NEW g \in 0..MaxLosses, resub' = [resub EXCEPT ![g] = NotRunning]
  PROVE  /\ resub' \in [0..MaxLosses -> ResubRec]
         /\ \A k \in 0..MaxLosses : k # g => resub'[k] = resub[k]
<1>1. resub \in [0..MaxLosses -> ResubRec]
  BY DEF TypeOK, ResubRec
<1>2. NotRunning \in ResubRec
  BY DEF NotRunning, ResubRec, Slots
<1> QED
  BY <1>1, <1>2, ResubMoved

\* A goroutine goes through the handlers on its own.
LEMMA ResubOthers ==
  ASSUME TypeOK, NEW g \in 0..MaxLosses, ResubNext(g)
  PROVE  \A k \in 0..MaxLosses : k # g => resub'[k] = resub[k]
<1>1. CASE resub' = [resub EXCEPT ![g] = NotRunning]
  BY <1>1, ResubEnds
<1>2. ASSUME NEW t \in Topics,
             resub' = [resub EXCEPT ![g].seen = @ \cup {t}, ![g].cur = handlers[t]]
      PROVE  \A k \in 0..MaxLosses : k # g => resub'[k] = resub[k]
  BY <1>2, ResubTakes, Zenon
<1> QED
  BY <1>1, <1>2, Zenon DEF ResubNext

\* The topics of the routers.
LEMMA TopicFacts ==
  /\ \A r \in Routers : Topic[r] \in Topics
  /\ \A t \in Topics : RouterOf(t) \in Routers /\ Topic[RouterOf(t)] = t
BY DEF Topics, RouterOf

\* Every step keeps the types, and the mutex with the worker that subscribes.
LEMMA TypeStep == ASSUME MqttInv, [Next]_vars PROVE TypeOK'
<1> USE MqttAssumption, TopicFacts DEF MqttInv, TypeOK, ArgInv, Slots
<1>1. ASSUME NEW w \in Workers, NEW r \in Routers, AddRouter(w, r) PROVE TypeOK'
  BY <1>1, Zenon DEF AddRouter, Call, Step, state, broker, work, history
<1>2. ASSUME NEW w \in Workers, NEW t \in Topics, RemoveRouter(w, t) PROVE TypeOK'
  BY <1>2 DEF RemoveRouter, Call, Step, state, broker, work, history
<1>3. ASSUME Start(Main) PROVE TypeOK'
  <2>1. resub' \in [0..MaxLosses -> ResubRec]
    BY <1>3, ResubRuns DEF Start
  <2> QED
    BY <1>3, <2>1, Zenon DEF ResubRec, Start, Step, state, broker, work, history
<1>4. ASSUME NEW w \in Workers, Close(w) PROVE TypeOK'
  BY <1>4 DEF Close, Call, state, broker, work, history
<1>5. ASSUME NEW w \in Workers, Added(w) PROVE TypeOK'
  BY <1>5 DEF Added, Step, state, broker, work, history
<1>6. ASSUME NEW w \in Workers, Started(w) PROVE TypeOK'
  BY <1>6 DEF Started, Step, state, broker, work, history
<1>7. ASSUME NEW w \in Workers, Range(w) PROVE TypeOK'
  <2>1. todo' \in [Workers -> SUBSET Topics]
    BY <1>7, SMTT(30) DEF Range
  <2>2. /\ pc' \in [Workers -> {"idle", "added", "made", "range", "lock", "sub", "unsub", "delete"}]
        /\ arg' \in [Workers -> Slots]
    BY <1>7, SMTT(30) DEF Range, Step
  <2>3. \A u \in Workers : pc'[u] = "sub" <=> pc[u] = "sub"
    BY <1>7 DEF Range, Step
  <2> QED
    BY <1>7, <2>1, <2>2, <2>3 DEF Range, state, broker, history
<1>8. ASSUME NEW w \in Workers, RegisterHandler(w) PROVE TypeOK'
  BY <1>8 DEF RegisterHandler, Step, state, broker, work, history
<1>9. ASSUME NEW w \in Workers, Subscribe(w) PROVE TypeOK'
  BY <1>9 DEF Subscribe, Subscribed, Step, state, broker, work, history
<1>10. ASSUME NEW w \in Workers, Unsubscribe(w) PROVE TypeOK'
  <2>1. subs' \subseteq Topics /\ route' \in [Topics -> Slots]
    BY <1>10, SMTT(30) DEF Unsubscribe
  <2>2. /\ pc' \in [Workers -> {"idle", "added", "made", "range", "lock", "sub", "unsub", "delete"}]
        /\ arg' \in [Workers -> Slots]
    BY <1>10, SMTT(30) DEF Unsubscribe, Step
  <2>3. \A u \in Workers : pc'[u] = "sub" <=> pc[u] = "sub"
    BY <1>10 DEF Unsubscribe, Step
  <2> QED
    BY <1>10, <2>1, <2>2, <2>3 DEF Unsubscribe, state, broker, history
<1>11. ASSUME NEW w \in Workers, Delete(w) PROVE TypeOK'
  BY <1>11 DEF Delete, Step, state, broker, work, history
<1>12. ASSUME NEW g \in 0..MaxLosses, ResubNext(g) PROVE TypeOK'
  <2>1. resub' \in [0..MaxLosses -> ResubRec]
    BY <1>12, ResubTakes, ResubEnds, Zenon DEF ResubNext
  <2> QED
    BY <1>12, <2>1 DEF ResubRec, ResubNext, state, broker, work, history
<1>13. ASSUME NEW g \in 0..MaxLosses, Resubscribe(g) PROVE TypeOK'
  <2>1. resub' \in [0..MaxLosses -> ResubRec]
    BY <1>13, ResubDone, Zenon DEF Resubscribe
  <2>2. resub[g].cur \in Routers
    BY <1>13 DEF Resubscribe
  <2>3. subs' \subseteq Topics /\ route' \in [Topics -> Slots]
    BY <1>13, <2>2 DEF Resubscribe, Subscribed
  <2> QED
    BY <1>13, <2>1, <2>3 DEF ResubRec, Resubscribe, Subscribed, state, work, history
<1>14. ASSUME Lose PROVE TypeOK'
  <2>1. subs' \subseteq Topics
    BY <1>14 DEF Lose
  <2>2. connected' \in BOOLEAN
    BY <1>14, Zenon DEF Lose
  <2>3. losses \in 0..MaxLosses /\ losses < MaxLosses /\ losses' = losses + 1
    BY <1>14 DEF Lose
  <2>4. losses' \in 0..MaxLosses
    BY <2>3
  <2> QED
    BY <1>14, <2>1, <2>2, <2>4 DEF Lose, state, work, history
<1>15. ASSUME Reconnect PROVE TypeOK'
  <2>1. resub' \in [0..MaxLosses -> ResubRec]
    BY <1>15, ResubRuns DEF Reconnect
  <2>2. UNCHANGED <<storage, client, handlers, lock, losses, subs, route, pc, arg, todo,
                    called, removed, closed>>
    BY <1>15 DEF Reconnect, state, work, history
  <2>3. connected' = TRUE
    BY <1>15 DEF Reconnect
  <2> QED
    BY <2>1, <2>2, <2>3 DEF ResubRec
<1>16. ASSUME UNCHANGED vars PROVE TypeOK'
  BY <1>16 DEF vars, state, broker, work, history
<1> QED
  BY <1>1, <1>2, <1>3, <1>4, <1>5, <1>6, <1>7, <1>8, <1>9, <1>10, <1>11, <1>12, <1>13, <1>14, <1>15, <1>16, Zenon DEF Next, Work

\* Every step keeps the router of a call.
LEMMA ArgStep == ASSUME MqttInv, [Next]_vars PROVE ArgInv'
<1> USE MqttAssumption, TopicFacts DEF MqttInv, TypeOK, ArgInv, TopicInv, Slots
<1>1. ASSUME NEW w \in Workers, NEW r \in Routers, AddRouter(w, r) PROVE ArgInv'
  BY <1>1 DEF AddRouter, Call, Step, state, broker, work, history
<1>2. ASSUME NEW w \in Workers, NEW t \in Topics, RemoveRouter(w, t) PROVE ArgInv'
  BY <1>2 DEF RemoveRouter, Call, Step, state, broker, work, history
<1>3. ASSUME Start(Main) PROVE ArgInv'
  BY <1>3 DEF Start, Step, state, broker, work, history
<1>4. ASSUME NEW w \in Workers, Close(w) PROVE ArgInv'
  BY <1>4 DEF Close, Call, state, broker, work, history
<1>5. ASSUME NEW w \in Workers, Added(w) PROVE ArgInv'
  BY <1>5 DEF Added, Step, state, broker, work, history
<1>6. ASSUME NEW w \in Workers, Started(w) PROVE ArgInv'
  BY <1>6 DEF Started, Step, state, broker, work, history
<1>7. ASSUME NEW w \in Workers, Range(w) PROVE ArgInv'
  BY <1>7 DEF Range, Step, state, broker, work, history
<1>8. ASSUME NEW w \in Workers, RegisterHandler(w) PROVE ArgInv'
  BY <1>8 DEF RegisterHandler, Step, state, broker, work, history
<1>9. ASSUME NEW w \in Workers, Subscribe(w) PROVE ArgInv'
  BY <1>9 DEF Subscribe, Subscribed, Step, state, broker, work, history
<1>10. ASSUME NEW w \in Workers, Unsubscribe(w) PROVE ArgInv'
  BY <1>10 DEF Unsubscribe, Step, state, broker, work, history
<1>11. ASSUME NEW w \in Workers, Delete(w) PROVE ArgInv'
  BY <1>11 DEF Delete, Step, state, broker, work, history
<1>12. ASSUME NEW g \in 0..MaxLosses, ResubNext(g) PROVE ArgInv'
  BY <1>12 DEF ResubNext, NotRunning, state, broker, work, history
<1>13. ASSUME NEW g \in 0..MaxLosses, Resubscribe(g) PROVE ArgInv'
  BY <1>13 DEF Resubscribe, Subscribed, state, broker, work, history
<1>14. ASSUME Lose PROVE ArgInv'
  BY <1>14 DEF Lose, state, broker, work, history
<1>15. ASSUME Reconnect PROVE ArgInv'
  BY <1>15 DEF Reconnect, state, broker, work, history
<1>16. ASSUME UNCHANGED vars PROVE ArgInv'
  BY <1>16 DEF vars, state, broker, work, history
<1> QED
  BY <1>1, <1>2, <1>3, <1>4, <1>5, <1>6, <1>7, <1>8, <1>9, <1>10, <1>11, <1>12, <1>13, <1>14, <1>15, <1>16, Zenon DEF Next, Work

\* Every step keeps routers under their topics.
LEMMA TopicStep == ASSUME MqttInv, [Next]_vars PROVE TopicInv'
<1> USE MqttAssumption, TopicFacts DEF MqttInv, TypeOK, ArgInv, TopicInv, Slots
<1>1. ASSUME NEW w \in Workers, NEW r \in Routers, AddRouter(w, r) PROVE TopicInv'
  BY <1>1 DEF AddRouter, Call, Step, state, broker, work, history
<1>2. ASSUME NEW w \in Workers, NEW t \in Topics, RemoveRouter(w, t) PROVE TopicInv'
  BY <1>2 DEF RemoveRouter, Call, Step, state, broker, work, history
<1>3. ASSUME Start(Main) PROVE TopicInv'
  BY <1>3 DEF Start, Step, state, broker, work, history
<1>4. ASSUME NEW w \in Workers, Close(w) PROVE TopicInv'
  BY <1>4 DEF Close, Call, state, broker, work, history
<1>5. ASSUME NEW w \in Workers, Added(w) PROVE TopicInv'
  BY <1>5 DEF Added, Step, state, broker, work, history
<1>6. ASSUME NEW w \in Workers, Started(w) PROVE TopicInv'
  BY <1>6 DEF Started, Step, state, broker, work, history
<1>7. ASSUME NEW w \in Workers, Range(w) PROVE TopicInv'
  BY <1>7 DEF Range, Step, state, broker, work, history
<1>8. ASSUME NEW w \in Workers, RegisterHandler(w) PROVE TopicInv'
  BY <1>8 DEF RegisterHandler, Step, state, broker, work, history
<1>9. ASSUME NEW w \in Workers, Subscribe(w) PROVE TopicInv'
  BY <1>9 DEF Subscribe, Subscribed, Step, state, broker, work, history
<1>10. ASSUME NEW w \in Workers, Unsubscribe(w) PROVE TopicInv'
  BY <1>10 DEF Unsubscribe, Step, state, broker, work, history
<1>11. ASSUME NEW w \in Workers, Delete(w) PROVE TopicInv'
  BY <1>11 DEF Delete, Step, state, broker, work, history
<1>12. ASSUME NEW g \in 0..MaxLosses, ResubNext(g) PROVE TopicInv'
  BY <1>12 DEF ResubNext, NotRunning, state, broker, work, history
<1>13. ASSUME NEW g \in 0..MaxLosses, Resubscribe(g) PROVE TopicInv'
  BY <1>13 DEF Resubscribe, Subscribed, state, broker, work, history
<1>14. ASSUME Lose PROVE TopicInv'
  BY <1>14 DEF Lose, state, broker, work, history
<1>15. ASSUME Reconnect PROVE TopicInv'
  BY <1>15 DEF Reconnect, state, broker, work, history
<1>16. ASSUME UNCHANGED vars PROVE TopicInv'
  BY <1>16 DEF vars, state, broker, work, history
<1> QED
  BY <1>1, <1>2, <1>3, <1>4, <1>5, <1>6, <1>7, <1>8, <1>9, <1>10, <1>11, <1>12, <1>13, <1>14, <1>15, <1>16, Zenon DEF Next, Work

\* No step runs the goroutine of a connection to come.
LEMMA FreshStep == ASSUME MqttInv, [Next]_vars PROVE FreshInv'
<1> USE MqttAssumption, TopicFacts DEF MqttInv, TypeOK, FreshInv, NotRunning
<1>1. ASSUME NEW w \in Workers, NEW r \in Routers, AddRouter(w, r) PROVE FreshInv'
  BY <1>1, Zenon DEF AddRouter, Call, Step, state, broker, work, history
<1>2. ASSUME NEW w \in Workers, NEW t \in Topics, RemoveRouter(w, t) PROVE FreshInv'
  BY <1>2 DEF RemoveRouter, Call, Step, state, broker, work, history
<1>3. ASSUME Start(Main) PROVE FreshInv'
  <2>1. \A k \in 0..MaxLosses : k # losses => resub'[k] = resub[k]
    BY <1>3, ResubRuns DEF Start
  <2>2. losses' = losses /\ connected' = TRUE
    BY <1>3 DEF Start
  <2>3. ASSUME NEW k \in 0..MaxLosses, k > losses PROVE resub'[k] = NotRunning
    <3>1. k # losses
      BY <2>3
    <3>2. resub[k] = NotRunning
      BY <2>3
    <3> QED
      BY <2>1, <3>1, <3>2, Zenon
  <2> QED
    BY <2>2, <2>3, Zenon
<1>4. ASSUME NEW w \in Workers, Close(w) PROVE FreshInv'
  BY <1>4 DEF Close, Call, state, broker, work, history
<1>5. ASSUME NEW w \in Workers, Added(w) PROVE FreshInv'
  BY <1>5 DEF Added, Step, state, broker, work, history
<1>6. ASSUME NEW w \in Workers, Started(w) PROVE FreshInv'
  BY <1>6 DEF Started, Step, state, broker, work, history
<1>7. ASSUME NEW w \in Workers, Range(w) PROVE FreshInv'
  BY <1>7 DEF Range, Step, state, broker, work, history
<1>8. ASSUME NEW w \in Workers, RegisterHandler(w) PROVE FreshInv'
  BY <1>8 DEF RegisterHandler, Step, state, broker, work, history
<1>9. ASSUME NEW w \in Workers, Subscribe(w) PROVE FreshInv'
  BY <1>9 DEF Subscribe, Subscribed, Step, state, broker, work, history
<1>10. ASSUME NEW w \in Workers, Unsubscribe(w) PROVE FreshInv'
  BY <1>10 DEF Unsubscribe, Step, state, broker, work, history
<1>11. ASSUME NEW w \in Workers, Delete(w) PROVE FreshInv'
  BY <1>11 DEF Delete, Step, state, broker, work, history
<1>12. ASSUME NEW g \in 0..MaxLosses, ResubNext(g) PROVE FreshInv'
  <2>1. \A k \in 0..MaxLosses : k # g => resub'[k] = resub[k]
    BY <1>12, ResubOthers
  <2>2. resub[g] # NotRunning
    BY <1>12 DEF ResubNext
  <2>3. losses' = losses /\ connected' = connected
    BY <1>12 DEF ResubNext, broker
  <2> QED
    BY <2>1, <2>2, <2>3, Zenon
<1>13. ASSUME NEW g \in 0..MaxLosses, Resubscribe(g) PROVE FreshInv'
  <2>1. \A k \in 0..MaxLosses : k # g => resub'[k] = resub[k]
    BY <1>13, ResubDone DEF Resubscribe
  <2>2. resub[g] # NotRunning
    BY <1>13 DEF Resubscribe
  <2>3. losses' = losses /\ connected' = connected
    BY <1>13 DEF Resubscribe, broker
  <2> QED
    BY <2>1, <2>2, <2>3, Zenon
<1>14. ASSUME Lose PROVE FreshInv'
  BY <1>14 DEF Lose, state, broker, work, history
<1>15. ASSUME Reconnect PROVE FreshInv'
  <2>1. \A k \in 0..MaxLosses : k # losses => resub'[k] = resub[k]
    BY <1>15, ResubRuns DEF Reconnect
  <2>2. losses' = losses /\ connected' = TRUE
    BY <1>15 DEF Reconnect
  <2>3. ASSUME NEW k \in 0..MaxLosses, k > losses PROVE resub'[k] = NotRunning
    <3>1. k # losses
      BY <2>3
    <3>2. resub[k] = NotRunning
      BY <2>3
    <3> QED
      BY <2>1, <3>1, <3>2, Zenon
  <2> QED
    BY <2>2, <2>3, Zenon
<1>16. ASSUME UNCHANGED vars PROVE FreshInv'
  BY <1>16, Zenon DEF vars, state, broker, work, history
<1> QED
  BY <1>1, <1>2, <1>3, <1>4, <1>5, <1>6, <1>7, <1>8, <1>9, <1>10, <1>11, <1>12, <1>13, <1>14, <1>15, <1>16, Zenon DEF Next, Work

\* What worker w does not owe, the others still owe when it has moved.
LEMMA OwesOn ==
  ASSUME NEW w \in Workers, NEW t \in Topics, OwedByWorker(t),
         \A u \in Workers : u # w => pc'[u] = pc[u] /\ arg'[u] = arg[u],
         pc[w] \in {"sub", "delete"} => Topic[arg[w]] # t
  PROVE  OwedByWorker(t)'
<1>1. PICK u \in Workers : pc[u] \in {"sub", "delete"} /\ Topic[arg[u]] = t
  BY DEF OwedByWorker
<1>2. u # w
  BY <1>1
<1> QED
  BY <1>1, <1>2 DEF OwedByWorker

\* A step that leaves the broker, the handlers and the workers that owe a
\* subscription alone.
LEMMA KeepsSubscription ==
  ASSUME SubscribedInv,
         UNCHANGED <<handlers, connected, losses, subs, route, resub, closed>>,
         \A u \in Workers : pc[u] \in {"sub", "delete"} => pc'[u] = pc[u] /\ arg'[u] = arg[u]
  PROVE  SubscribedInv'
<1>1. ASSUME NEW t \in Topics, OwedByWorker(t) PROVE OwedByWorker(t)'
  BY <1>1 DEF OwedByWorker
<1>2. ASSUME NEW t \in Topics
      PROVE  (Delivered(t)' <=> Delivered(t)) /\ (OwedByResub(t)' <=> OwedByResub(t))
  BY DEF Delivered, OwedByResub
<1> QED
  BY <1>1, <1>2 DEF SubscribedInv

\* The goroutine of a new connection owes every subscription.
LEMMA ConnectionOwes ==
  ASSUME MqttInv, ~connected, losses' = losses, resub' = [resub EXCEPT ![losses].run = TRUE]
  PROVE  SubscribedInv'
<1>1. TypeOK /\ losses \in 0..MaxLosses
  BY DEF MqttInv, TypeOK
<1>2. resub[losses].seen = {}
  BY <1>1 DEF MqttInv, FreshInv, NotRunning
<1>3. resub'[losses].run /\ resub'[losses].seen = {}
  BY <1>1, <1>2, ResubRuns
<1> QED
  BY <1>3 DEF SubscribedInv, OwedByResub

\* Every step that takes a subscription away leaves somebody who owes it.
LEMMA SubscribedStep == ASSUME MqttInv, [Next]_vars PROVE SubscribedInv'
<1> USE MqttAssumption, TopicFacts
<1>0. TypeOK /\ ArgInv /\ TopicInv /\ FreshInv /\ SubscribedInv
  BY DEF MqttInv
<1>1. ASSUME NEW w \in Workers, NEW r \in Routers, AddRouter(w, r) PROVE SubscribedInv'
  <2>1. UNCHANGED <<handlers, connected, losses, subs, route, resub, closed>>
    BY <1>1 DEF AddRouter, Call, Step, broker
  <2>2. \A u \in Workers : pc[u] \in {"sub", "delete"} => pc'[u] = pc[u] /\ arg'[u] = arg[u]
    BY <1>0, <1>1 DEF AddRouter, Call, Step, broker, TypeOK
  <2> QED
    BY <1>0, <2>1, <2>2, KeepsSubscription
<1>2. ASSUME NEW w \in Workers, NEW t \in Topics, RemoveRouter(w, t) PROVE SubscribedInv'
  <2>1. UNCHANGED <<handlers, connected, losses, subs, route, resub, closed>>
    BY <1>2 DEF RemoveRouter, Call, Step, broker
  <2>2. \A u \in Workers : pc[u] \in {"sub", "delete"} => pc'[u] = pc[u] /\ arg'[u] = arg[u]
    BY <1>0, <1>2 DEF RemoveRouter, Call, Step, broker, TypeOK
  <2> QED
    BY <1>0, <2>1, <2>2, KeepsSubscription
<1>3. ASSUME Start(Main) PROVE SubscribedInv'
  BY <1>3, ConnectionOwes DEF Start
<1>4. ASSUME NEW w \in Workers, Close(w) PROVE SubscribedInv'
  BY <1>4 DEF Close, SubscribedInv
<1>5. ASSUME NEW w \in Workers, Added(w) PROVE SubscribedInv'
  <2>1. UNCHANGED <<handlers, connected, losses, subs, route, resub, closed>>
    BY <1>5 DEF Added, Step, state, broker, history
  <2>2. \A u \in Workers : pc[u] \in {"sub", "delete"} => pc'[u] = pc[u] /\ arg'[u] = arg[u]
    BY <1>0, <1>5 DEF Added, Step, state, broker, history, TypeOK
  <2> QED
    BY <1>0, <2>1, <2>2, KeepsSubscription
<1>6. ASSUME NEW w \in Workers, Started(w) PROVE SubscribedInv'
  <2>1. UNCHANGED <<handlers, connected, losses, subs, route, resub, closed>>
    BY <1>6 DEF Started, Step, broker, history
  <2>2. \A u \in Workers : pc[u] \in {"sub", "delete"} => pc'[u] = pc[u] /\ arg'[u] = arg[u]
    BY <1>0, <1>6 DEF Started, Step, broker, history, TypeOK
  <2> QED
    BY <1>0, <2>1, <2>2, KeepsSubscription
<1>7. ASSUME NEW w \in Workers, Range(w) PROVE SubscribedInv'
  <2>1. UNCHANGED <<handlers, connected, losses, subs, route, resub, closed>>
    BY <1>7 DEF Range, Step, state, broker, history
  <2>2. \A u \in Workers : pc[u] \in {"sub", "delete"} => pc'[u] = pc[u] /\ arg'[u] = arg[u]
    BY <1>0, <1>7 DEF Range, Step, state, broker, history, TypeOK
  <2> QED
    BY <1>0, <2>1, <2>2, KeepsSubscription
<1>8. ASSUME NEW w \in Workers, RegisterHandler(w) PROVE SubscribedInv'
  <2>1. /\ pc[w] = "lock" /\ pc'[w] = "sub" /\ arg'[w] = arg[w]
        /\ \A u \in Workers : u # w => pc'[u] = pc[u] /\ arg'[u] = arg[u]
    BY <1>0, <1>8 DEF RegisterHandler, Step, TypeOK, ArgInv
  <2>2. \A t \in Topics : t # Topic[arg[w]] => handlers'[t] = handlers[t]
    BY <1>0, <1>8 DEF RegisterHandler, TypeOK
  <2>3. UNCHANGED <<connected, losses, subs, route, resub, closed>>
    BY <1>8 DEF RegisterHandler, broker, history
  <2>4. ASSUME connected, ~closed, NEW t \in Topics, handlers'[t] # None
        PROVE  (Delivered(t) \/ OwedByWorker(t) \/ OwedByResub(t))'
    <3>1. CASE t = Topic[arg[w]]
      BY <2>1, <3>1 DEF OwedByWorker
    <3>2. CASE t # Topic[arg[w]]
      <4>1. (Delivered(t) \/ OwedByWorker(t) \/ OwedByResub(t))
        BY <1>0, <2>2, <2>4, <3>2 DEF SubscribedInv
      <4>2. OwedByWorker(t) => OwedByWorker(t)'
        BY <2>1, OwesOn
      <4> QED
        BY <2>3, <4>1, <4>2 DEF Delivered, OwedByResub
    <3> QED
      BY <3>1, <3>2
  <2> QED
    BY <2>3, <2>4 DEF SubscribedInv
<1>9. ASSUME NEW w \in Workers, Subscribe(w) PROVE SubscribedInv'
  <2>1. /\ pc[w] = "sub" /\ arg[w] \in Routers
        /\ \A u \in Workers : u # w => pc'[u] = pc[u] /\ arg'[u] = arg[u]
    BY <1>0, <1>9 DEF Subscribe, Step, TypeOK, ArgInv
  <2>2. /\ Topic[arg[w]] \in subs' /\ route'[Topic[arg[w]]] = arg[w]
        /\ \A t \in Topics : t # Topic[arg[w]] => (t \in subs' <=> t \in subs) /\ route'[t] = route[t]
    BY <1>0, <1>9, <2>1 DEF Subscribe, Subscribed, TypeOK
  <2>3. UNCHANGED <<handlers, connected, losses, resub, closed>>
    BY <1>9 DEF Subscribe, history
  <2>4. ASSUME connected, ~closed, NEW t \in Topics, handlers[t] # None
        PROVE  (Delivered(t) \/ OwedByWorker(t) \/ OwedByResub(t))'
    <3>1. CASE t = Topic[arg[w]]
      BY <2>1, <2>2, <3>1 DEF Delivered
    <3>2. CASE t # Topic[arg[w]]
      <4>1. (Delivered(t) \/ OwedByWorker(t) \/ OwedByResub(t))
        BY <1>0, <2>4 DEF SubscribedInv
      <4>2. OwedByWorker(t) => OwedByWorker(t)'
        BY <2>1, <3>2, OwesOn
      <4> QED
        BY <2>2, <2>3, <3>2, <4>1, <4>2 DEF Delivered, OwedByResub
    <3> QED
      BY <3>1, <3>2
  <2> QED
    BY <2>3, <2>4 DEF SubscribedInv
<1>10. ASSUME NEW w \in Workers, Unsubscribe(w) PROVE SubscribedInv'
  <2>1. UNCHANGED <<handlers, connected, losses, resub, closed>> /\ pc[w] = "unsub"
    BY <1>10, Zenon DEF Unsubscribe, state, history
  <2>2. ASSUME connected, ~closed, NEW t \in Topics, handlers[t] # None
        PROVE  (Delivered(t) \/ OwedByWorker(t) \/ OwedByResub(t))'
    <3>1. /\ pc'[w] = "delete" /\ arg'[w] = arg[w]
          /\ \A u \in Workers : u # w => pc'[u] = pc[u] /\ arg'[u] = arg[u]
      BY <1>0, <1>10, <2>2 DEF Unsubscribe, Step, TypeOK
    <3>2. t # Topic[arg[w]] => (t \in subs' <=> t \in subs) /\ route'[t] = route[t]
      BY <1>0, <1>10, <2>2 DEF Unsubscribe, TypeOK
    <3>3. CASE t = Topic[arg[w]]
      BY <3>1, <3>3 DEF OwedByWorker
    <3>4. CASE t # Topic[arg[w]]
      <4>1. (Delivered(t) \/ OwedByWorker(t) \/ OwedByResub(t))
        BY <1>0, <2>2 DEF SubscribedInv
      <4>2. OwedByWorker(t) => OwedByWorker(t)'
        BY <2>1, <3>1, OwesOn
      <4> QED
        BY <2>1, <3>2, <3>4, <4>1, <4>2 DEF Delivered, OwedByResub
    <3> QED
      BY <3>3, <3>4
  <2> QED
    BY <2>1, <2>2 DEF SubscribedInv
<1>11. ASSUME NEW w \in Workers, Delete(w) PROVE SubscribedInv'
  <2>1. /\ arg[w] \in Routers
        /\ \A u \in Workers : u # w => pc'[u] = pc[u] /\ arg'[u] = arg[u]
    BY <1>0, <1>11 DEF Delete, Step, TypeOK, ArgInv
  <2>2. /\ handlers'[Topic[arg[w]]] = None
        /\ \A t \in Topics : t # Topic[arg[w]] => handlers'[t] = handlers[t]
    BY <1>0, <1>11, <2>1 DEF Delete, TypeOK
  <2>3. UNCHANGED <<connected, losses, subs, route, resub, closed>>
    BY <1>11 DEF Delete, broker, history
  <2>4. ASSUME connected, ~closed, NEW t \in Topics, handlers'[t] # None
        PROVE  (Delivered(t) \/ OwedByWorker(t) \/ OwedByResub(t))'
    <3>1. t # Topic[arg[w]] /\ handlers[t] # None
      BY <2>2, <2>4
    <3>2. (Delivered(t) \/ OwedByWorker(t) \/ OwedByResub(t))
      BY <1>0, <2>4, <3>1 DEF SubscribedInv
    <3>3. OwedByWorker(t) => OwedByWorker(t)'
      BY <2>1, <3>1, OwesOn
    <3> QED
      BY <2>3, <3>2, <3>3 DEF Delivered, OwedByResub
  <2> QED
    BY <2>3, <2>4 DEF SubscribedInv
<1>12. ASSUME NEW g \in 0..MaxLosses, ResubNext(g) PROVE SubscribedInv'
  <2>1. UNCHANGED <<handlers, connected, losses, subs, route, closed, pc, arg>>
    BY <1>12 DEF ResubNext, state, broker, work, history
  <2>2. resub[g].run /\ resub[g].cur = None
    BY <1>12 DEF ResubNext
  <2>3. losses \in 0..MaxLosses
    BY <1>0 DEF TypeOK
  <2>4. ASSUME connected, ~closed, NEW t \in Topics, handlers[t] # None
        PROVE  (Delivered(t) \/ OwedByWorker(t) \/ OwedByResub(t))'
    <3>1. (Delivered(t) \/ OwedByWorker(t) \/ OwedByResub(t))
      BY <1>0, <2>4 DEF SubscribedInv
    <3>2. ASSUME Delivered(t) \/ OwedByWorker(t) PROVE (Delivered(t) \/ OwedByWorker(t) \/ OwedByResub(t))'
      BY <2>1, <3>2 DEF Delivered, OwedByWorker
    <3>3. ASSUME OwedByResub(t), g # losses PROVE OwedByResub(t)'
      <4>1. resub'[losses] = resub[losses]
        BY <1>0, <1>12, <2>3, <3>3, ResubOthers
      <4> QED
        BY <2>1, <3>3, <4>1 DEF OwedByResub
    <3>4. ASSUME OwedByResub(t), g = losses PROVE OwedByResub(t)'
      <4>1. t \notin resub[g].seen
        BY <2>2, <3>4 DEF OwedByResub
      <4>2. PICK x \in Topics :
              resub' = [resub EXCEPT ![g].seen = @ \cup {x}, ![g].cur = handlers[x]]
        BY <1>12, <2>4, <4>1, Zenon DEF ResubNext
      <4>3. /\ resub'[g].run = resub[g].run
            /\ resub'[g].seen = resub[g].seen \cup {x}
            /\ resub'[g].cur = handlers[x]
        BY <1>0, <4>2, ResubTakes, Zenon
      <4>4. CASE t = x
        <5>1. Topic[handlers[t]] = t
          BY <1>0, <2>4 DEF TopicInv
        <5> QED
          BY <2>1, <2>2, <2>4, <3>4, <4>3, <4>4, <5>1 DEF OwedByResub
      <4>5. CASE t # x
        BY <2>1, <2>2, <3>4, <4>1, <4>3, <4>5 DEF OwedByResub
      <4> QED
        BY <4>4, <4>5
    <3> QED
      BY <3>1, <3>2, <3>3, <3>4
  <2> QED
    BY <2>1, <2>4 DEF SubscribedInv
<1>13. ASSUME NEW g \in 0..MaxLosses, Resubscribe(g) PROVE SubscribedInv'
  <2>1. UNCHANGED <<handlers, connected, losses, closed, pc, arg>>
    BY <1>13 DEF Resubscribe, state, work, history
  <2>2. resub[g].cur \in Routers /\ losses \in 0..MaxLosses
    BY <1>0, <1>13 DEF Resubscribe, TypeOK, Slots
  <2>3. /\ Topic[resub[g].cur] \in subs' /\ route'[Topic[resub[g].cur]] = resub[g].cur
        /\ \A t \in Topics : t # Topic[resub[g].cur] => (t \in subs' <=> t \in subs) /\ route'[t] = route[t]
    BY <1>0, <1>13, <2>2 DEF Resubscribe, Subscribed, TypeOK
  <2>4. /\ resub'[g].run = resub[g].run /\ resub'[g].seen = resub[g].seen
        /\ \A k \in 0..MaxLosses : k # g => resub'[k] = resub[k]
    BY <1>0, <1>13, ResubDone DEF Resubscribe
  <2>5. ASSUME connected, ~closed, NEW t \in Topics, handlers[t] # None
        PROVE  (Delivered(t) \/ OwedByWorker(t) \/ OwedByResub(t))'
    <3>1. CASE t = Topic[resub[g].cur]
      BY <2>2, <2>3, <3>1 DEF Delivered
    <3>2. CASE t # Topic[resub[g].cur]
      <4>1. (Delivered(t) \/ OwedByWorker(t) \/ OwedByResub(t))
        BY <1>0, <2>5 DEF SubscribedInv
      <4>2. ASSUME OwedByResub(t) PROVE OwedByResub(t)'
        <5>1. CASE g = losses
          BY <2>1, <2>4, <3>2, <4>2, <5>1 DEF OwedByResub
        <5>2. CASE g # losses
          BY <2>1, <2>2, <2>4, <4>2, <5>2 DEF OwedByResub
        <5> QED
          BY <5>1, <5>2
      <4> QED
        BY <2>1, <2>3, <3>2, <4>1, <4>2 DEF Delivered, OwedByWorker
    <3> QED
      BY <3>1, <3>2
  <2> QED
    BY <2>1, <2>5 DEF SubscribedInv
<1>14. ASSUME Lose PROVE SubscribedInv'
  BY <1>14 DEF Lose, SubscribedInv
<1>15. ASSUME Reconnect PROVE SubscribedInv'
  BY <1>15, ConnectionOwes DEF Reconnect
<1>16. ASSUME UNCHANGED vars PROVE SubscribedInv'
  <2>1. UNCHANGED <<handlers, connected, losses, subs, route, resub, closed>>
    BY <1>16 DEF vars, state, broker, work, history
  <2>2. \A u \in Workers : pc[u] \in {"sub", "delete"} => pc'[u] = pc[u] /\ arg'[u] = arg[u]
    BY <1>0, <1>16 DEF vars, state, broker, work, history
  <2> QED
    BY <1>0, <2>1, <2>2, KeepsSubscription
<1> QED
  BY <1>1, <1>2, <1>3, <1>4, <1>5, <1>6, <1>7, <1>8, <1>9, <1>10, <1>11, <1>12, <1>13, <1>14, <1>15, <1>16 DEF Next, Work

\* When worker w has moved the others still owe what they did, and so it is
\* enough to look at what w owed.
LEMMA KeepsOwing ==
  ASSUME NEW w \in Workers, NEW x \in Topics, OwedByAdd(x) \/ OwedByStart(x),
         \A u \in Workers : u # w => pc'[u] = pc[u] /\ arg'[u] = arg[u] /\ todo'[u] = todo[u],
         pc[w] \in {"added", "lock"} /\ Topic[arg[w]] = x => (OwedByAdd(x) \/ OwedByStart(x))',
         pc[w] \in {"range", "lock", "sub"} /\ x \in todo[w] => (OwedByAdd(x) \/ OwedByStart(x))'
  PROVE  (OwedByAdd(x) \/ OwedByStart(x))'
<1>1. ASSUME NEW u \in Workers, pc[u] \in {"added", "lock"}, Topic[arg[u]] = x PROVE (OwedByAdd(x) \/ OwedByStart(x))'
  <2>1. CASE u = w
    BY <1>1, <2>1
  <2>2. CASE u # w
    BY <1>1, <2>2 DEF OwedByAdd
  <2> QED
    BY <2>1, <2>2
<1>2. ASSUME NEW u \in Workers, pc[u] \in {"range", "lock", "sub"}, x \in todo[u] PROVE (OwedByAdd(x) \/ OwedByStart(x))'
  <2>1. CASE u = w
    BY <1>2, <2>1
  <2>2. CASE u # w
    BY <1>2, <2>2 DEF OwedByStart
  <2> QED
    BY <2>1, <2>2
<1>3. CASE OwedByAdd(x)
  BY <1>1, <1>3 DEF OwedByAdd
<1>4. CASE OwedByStart(x)
  BY <1>2, <1>4, Zenon DEF OwedByStart
<1> QED
  BY <1>3, <1>4

\* A step of nobody who stores or registers routers.
LEMMA KeepsRegistration ==
  ASSUME RegisteredInv, UNCHANGED <<storage, client, handlers, removed, pc, arg, todo>>
  PROVE  RegisteredInv'
BY DEF RegisteredInv, OwedByAdd, OwedByStart

\* Every step that stores a router leaves somebody who owes its registration.
LEMMA RegisteredStep == ASSUME MqttInv, [Next]_vars PROVE RegisteredInv'
<1> USE MqttAssumption, TopicFacts
<1>0. TypeOK /\ ArgInv /\ TopicInv /\ RegisteredInv
  BY DEF MqttInv
<1>1. ASSUME NEW w \in Workers, NEW r \in Routers, AddRouter(w, r) PROVE RegisteredInv'
  <2>1. /\ pc[w] = "idle" /\ pc'[w] = "added" /\ arg'[w] = r
        /\ \A u \in Workers : u # w => pc'[u] = pc[u] /\ arg'[u] = arg[u] /\ todo'[u] = todo[u]
    BY <1>0, <1>1 DEF AddRouter, Call, Step, TypeOK
  <2>2. \A x \in Topics : x # Topic[r] => storage'[x] = storage[x]
    BY <1>0, <1>1 DEF AddRouter, TypeOK
  <2>3. UNCHANGED <<client, handlers, removed>>
    BY <1>1, Zenon DEF AddRouter
  <2>4. ASSUME client, NEW x \in Topics \ removed, storage'[x] # None
        PROVE  handlers[x] # None \/ (OwedByAdd(x) \/ OwedByStart(x))'
    <3>1. CASE x = Topic[r]
      BY <2>1, <3>1 DEF OwedByAdd
    <3>2. CASE x # Topic[r]
      <4>1. handlers[x] # None \/ OwedByAdd(x) \/ OwedByStart(x)
        BY <1>0, <2>2, <2>4, <3>2 DEF RegisteredInv
      <4> QED
        BY <2>1, <4>1, KeepsOwing, Zenon
    <3> QED
      BY <3>1, <3>2
  <2> QED
    BY <2>3, <2>4 DEF RegisteredInv
<1>2. ASSUME NEW w \in Workers, NEW t \in Topics, RemoveRouter(w, t) PROVE RegisteredInv'
  <2>1. /\ pc[w] \in {"idle", "unsub", "delete"} /\ client' = client
        /\ \A u \in Workers : u # w => pc'[u] = pc[u] /\ arg'[u] = arg[u] /\ todo'[u] = todo[u]
    BY <1>0, <1>2 DEF RemoveRouter, Call, Step, TypeOK
  <2>2. \A x \in Topics \ removed' : storage'[x] # None =>
          x \notin removed /\ storage[x] # None /\ handlers'[x] = handlers[x]
    BY <1>0, <1>2 DEF RemoveRouter, Call, Step, TypeOK, ArgInv
  <2>3. ASSUME client, NEW x \in Topics \ removed', storage'[x] # None
        PROVE  handlers'[x] # None \/ (OwedByAdd(x) \/ OwedByStart(x))'
    <3>1. handlers[x] # None \/ OwedByAdd(x) \/ OwedByStart(x)
      BY <1>0, <2>2, <2>3 DEF RegisteredInv
    <3> QED
      BY <2>1, <2>2, <2>3, <3>1, KeepsOwing, Zenon
  <2> QED
    BY <2>1, <2>3 DEF RegisteredInv
<1>3. ASSUME NEW w \in Workers, Start(w) PROVE RegisteredInv'
  <2>1. /\ pc[w] \in {"idle", "unsub", "delete"} /\ client' = client
        /\ \A u \in Workers : u # w => pc'[u] = pc[u] /\ arg'[u] = arg[u] /\ todo'[u] = todo[u]
    BY <1>0, <1>3 DEF Start, Step, state, history, TypeOK
  <2>2. \A x \in Topics \ removed' : storage'[x] # None =>
          x \notin removed /\ storage[x] # None /\ handlers'[x] = handlers[x]
    BY <1>0, <1>3 DEF Start, Step, state, history, TypeOK, ArgInv
  <2>3. ASSUME client, NEW x \in Topics \ removed', storage'[x] # None
        PROVE  handlers'[x] # None \/ (OwedByAdd(x) \/ OwedByStart(x))'
    <3>1. handlers[x] # None \/ OwedByAdd(x) \/ OwedByStart(x)
      BY <1>0, <2>2, <2>3 DEF RegisteredInv
    <3> QED
      BY <2>1, <2>2, <2>3, <3>1, KeepsOwing, Zenon
  <2> QED
    BY <2>1, <2>3 DEF RegisteredInv
<1>4. ASSUME NEW w \in Workers, Close(w) PROVE RegisteredInv'
  BY <1>0, <1>4, KeepsRegistration, Zenon DEF Close, state, work
<1>5. ASSUME NEW w \in Workers, Added(w) PROVE RegisteredInv'
  <2>1. /\ client => pc'[w] = "lock" /\ arg'[w] = arg[w]
        /\ \A u \in Workers : u # w => pc'[u] = pc[u] /\ arg'[u] = arg[u] /\ todo'[u] = todo[u]
    BY <1>0, <1>5 DEF Added, Step, TypeOK
  <2>2. UNCHANGED <<storage, client, handlers, removed>> /\ pc[w] = "added"
    BY <1>5 DEF Added, state, history
  <2>3. ASSUME client, NEW x \in Topics \ removed, storage[x] # None
        PROVE  handlers[x] # None \/ (OwedByAdd(x) \/ OwedByStart(x))'
    <3>1. handlers[x] # None \/ OwedByAdd(x) \/ OwedByStart(x)
      BY <1>0, <2>3 DEF RegisteredInv
    <3>2. Topic[arg[w]] = x => OwedByAdd(x)'
      BY <2>1, <2>2, <2>3, Zenon DEF OwedByAdd
    <3> QED
      BY <2>1, <2>2, <3>1, <3>2, KeepsOwing, Zenon
  <2> QED
    BY <2>2, <2>3, Zenon DEF RegisteredInv
<1>6. ASSUME NEW w \in Workers, Started(w) PROVE RegisteredInv'
  <2>1. pc'[w] = "range" /\ todo'[w] = Topics
    BY <1>0, <1>6 DEF Started, Step, TypeOK
  <2> QED
    BY <2>1 DEF RegisteredInv, OwedByStart
<1>7. ASSUME NEW w \in Workers, Range(w) PROVE RegisteredInv'
  <2>1. UNCHANGED <<storage, client, handlers, removed>> /\ pc[w] = "range"
    BY <1>7 DEF Range, state, history
  <2>2. \A u \in Workers : u # w => pc'[u] = pc[u] /\ arg'[u] = arg[u] /\ todo'[u] = todo[u]
    BY <1>0, <1>7 DEF Range, Step, TypeOK
  <2>3. ASSUME client, NEW x \in Topics \ removed, storage[x] # None
        PROVE  handlers[x] # None \/ (OwedByAdd(x) \/ OwedByStart(x))'
    <3>1. handlers[x] # None \/ OwedByAdd(x) \/ OwedByStart(x)
      BY <1>0, <2>3 DEF RegisteredInv
    <3>2. ASSUME x \in todo[w] PROVE (OwedByAdd(x) \/ OwedByStart(x))'
      <4>1. PICK t \in todo[w] :
              /\ todo' = [todo EXCEPT ![w] = @ \ {t}]
              /\ Step(w, IF storage[t] = None THEN "range" ELSE "lock", storage[t])
        BY <1>7, <3>2 DEF Range
      <4>2. CASE t = x
        <5>1. pc'[w] = "lock" /\ arg'[w] = storage[x]
          BY <1>0, <2>3, <4>1, <4>2 DEF Step, TypeOK
        <5>2. Topic[storage[x]] = x
          BY <1>0, <2>3 DEF TopicInv
        <5> QED
          BY <5>1, <5>2 DEF OwedByAdd
      <4>3. CASE t # x
        <5>1. pc'[w] \in {"range", "lock"} /\ x \in todo'[w]
          BY <1>0, <3>2, <4>1, <4>3 DEF Step, TypeOK
        <5> QED
          BY <5>1 DEF OwedByStart
      <4> QED
        BY <4>2, <4>3
    <3> QED
      BY <2>1, <2>2, <3>1, <3>2, KeepsOwing, Zenon
  <2> QED
    BY <2>1, <2>3, Zenon DEF RegisteredInv
<1>8. ASSUME NEW w \in Workers, RegisterHandler(w) PROVE RegisteredInv'
  <2>1. /\ pc[w] = "lock" /\ pc'[w] = "sub" /\ arg[w] \in Routers /\ todo' = todo
        /\ \A u \in Workers : u # w => pc'[u] = pc[u] /\ arg'[u] = arg[u] /\ todo'[u] = todo[u]
    BY <1>0, <1>8 DEF RegisterHandler, Step, TypeOK, ArgInv
  <2>2. /\ handlers'[Topic[arg[w]]] = arg[w]
        /\ \A x \in Topics : x # Topic[arg[w]] => handlers'[x] = handlers[x]
    BY <1>0, <1>8, <2>1, Zenon DEF RegisterHandler, TypeOK
  <2>3. UNCHANGED <<storage, client, removed>>
    BY <1>8 DEF RegisterHandler, history
  <2>4. ASSUME client, NEW x \in Topics \ removed, storage[x] # None
        PROVE  handlers'[x] # None \/ (OwedByAdd(x) \/ OwedByStart(x))'
    <3>1. CASE x = Topic[arg[w]]
      BY <2>1, <2>2, <3>1
    <3>2. CASE x # Topic[arg[w]]
      <4>1. handlers[x] # None \/ OwedByAdd(x) \/ OwedByStart(x)
        BY <1>0, <2>4 DEF RegisteredInv
      <4>2. x \in todo[w] => OwedByStart(x)'
        BY <2>1 DEF OwedByStart
      <4> QED
        BY <2>1, <2>2, <3>2, <4>1, <4>2, KeepsOwing, Zenon
    <3> QED
      BY <3>1, <3>2
  <2> QED
    BY <2>3, <2>4 DEF RegisteredInv
<1>9. ASSUME NEW w \in Workers, Subscribe(w) PROVE RegisteredInv'
  <2>1. /\ pc[w] = "sub" /\ todo' = todo /\ (todo[w] # {} => pc'[w] = "range")
        /\ \A u \in Workers : u # w => pc'[u] = pc[u] /\ arg'[u] = arg[u] /\ todo'[u] = todo[u]
    BY <1>0, <1>9, Zenon DEF Subscribe, Step, TypeOK
  <2>2. UNCHANGED <<storage, client, handlers, removed>>
    BY <1>9 DEF Subscribe, history
  <2>3. ASSUME client, NEW x \in Topics \ removed, storage[x] # None
        PROVE  handlers[x] # None \/ (OwedByAdd(x) \/ OwedByStart(x))'
    <3>1. handlers[x] # None \/ OwedByAdd(x) \/ OwedByStart(x)
      BY <1>0, <2>3 DEF RegisteredInv
    <3>2. x \in todo[w] => OwedByStart(x)'
      BY <2>1, Zenon DEF OwedByStart
    <3> QED
      BY <2>1, <3>1, <3>2, KeepsOwing
  <2> QED
    BY <2>2, <2>3 DEF RegisteredInv
<1>10. ASSUME NEW w \in Workers, Unsubscribe(w) PROVE RegisteredInv'
  <2>1. /\ pc[w] \in {"idle", "unsub", "delete"} /\ client' = client
        /\ \A u \in Workers : u # w => pc'[u] = pc[u] /\ arg'[u] = arg[u] /\ todo'[u] = todo[u]
    BY <1>0, <1>10 DEF Unsubscribe, Step, state, history, TypeOK
  <2>2. \A x \in Topics \ removed' : storage'[x] # None =>
          x \notin removed /\ storage[x] # None /\ handlers'[x] = handlers[x]
    BY <1>0, <1>10 DEF Unsubscribe, Step, state, history, TypeOK, ArgInv
  <2>3. ASSUME client, NEW x \in Topics \ removed', storage'[x] # None
        PROVE  handlers'[x] # None \/ (OwedByAdd(x) \/ OwedByStart(x))'
    <3>1. handlers[x] # None \/ OwedByAdd(x) \/ OwedByStart(x)
      BY <1>0, <2>2, <2>3 DEF RegisteredInv
    <3> QED
      BY <2>1, <2>2, <2>3, <3>1, KeepsOwing
  <2> QED
    BY <2>1, <2>3 DEF RegisteredInv
<1>11. ASSUME NEW w \in Workers, Delete(w) PROVE RegisteredInv'
  <2>1. /\ pc[w] \in {"idle", "unsub", "delete"} /\ client' = client
        /\ \A u \in Workers : u # w => pc'[u] = pc[u] /\ arg'[u] = arg[u] /\ todo'[u] = todo[u]
    BY <1>0, <1>11, Zenon DEF Delete, Step, history, TypeOK
  <2>2. \A x \in Topics \ removed' : storage'[x] # None =>
          x \notin removed /\ storage[x] # None /\ handlers'[x] = handlers[x]
    BY <1>0, <1>11 DEF Delete, Step, history, TypeOK, ArgInv
  <2>3. ASSUME client, NEW x \in Topics \ removed', storage'[x] # None
        PROVE  handlers'[x] # None \/ (OwedByAdd(x) \/ OwedByStart(x))'
    <3>1. handlers[x] # None \/ OwedByAdd(x) \/ OwedByStart(x)
      BY <1>0, <2>2, <2>3 DEF RegisteredInv
    <3> QED
      BY <2>1, <2>2, <2>3, <3>1, KeepsOwing
  <2> QED
    BY <2>1, <2>3 DEF RegisteredInv
<1>12. ASSUME NEW g \in 0..MaxLosses, ResubNext(g) PROVE RegisteredInv'
  BY <1>0, <1>12, KeepsRegistration DEF ResubNext, state, work, history
<1>13. ASSUME NEW g \in 0..MaxLosses, Resubscribe(g) PROVE RegisteredInv'
  BY <1>0, <1>13, KeepsRegistration DEF Resubscribe, state, work, history
<1>14. ASSUME Lose PROVE RegisteredInv'
  BY <1>0, <1>14, KeepsRegistration DEF Lose, state, work, history
<1>15. ASSUME Reconnect PROVE RegisteredInv'
  BY <1>0, <1>15, KeepsRegistration DEF Reconnect, state, work, history
<1>16. ASSUME UNCHANGED vars PROVE RegisteredInv'
  BY <1>0, <1>16, KeepsRegistration DEF vars, state, work, history
<1> QED
  BY <1>1, <1>2, <1>3, <1>4, <1>5, <1>6, <1>7, <1>8, <1>9, <1>10, <1>11, <1>12, <1>13, <1>14, <1>15, <1>16 DEF Next, Work

\* The endpoint begins within the invariant: it has no client and no connection.
LEMMA MqttInit == Init => MqttInv
<1> SUFFICES ASSUME Init PROVE MqttInv
  OBVIOUS
<1> USE MqttAssumption, TopicFacts DEF Init
<1>1. storage \in [Topics -> Slots] /\ \A t \in Topics : storage[t] # None => Topic[storage[t]] = t
  BY DEF Slots
<1>2. resub \in [0..MaxLosses -> [run : BOOLEAN, seen : SUBSET Topics, cur : Slots]]
  BY Zenon DEF NotRunning, Slots
<1>3. TypeOK
  <2>1. /\ handlers \in [Topics -> Slots] /\ route \in [Topics -> Slots]
        /\ arg \in [Workers -> Slots] /\ todo \in [Workers -> SUBSET Topics]
    BY DEF Slots
  <2>2. /\ pc \in [Workers -> {"idle", "added", "made", "range", "lock", "sub", "unsub", "delete"}]
        /\ lock \in Workers \cup {None} /\ \A w \in Workers : lock = w <=> pc[w] = "sub"
    OBVIOUS
  <2>3. client \in BOOLEAN /\ connected \in BOOLEAN /\ closed \in BOOLEAN
    BY Zenon
  <2>4. losses \in 0..MaxLosses /\ subs \subseteq Topics /\ removed \subseteq Topics /\ called \subseteq Workers
    OBVIOUS
  <2> QED
    BY <1>1, <1>2, <2>1, <2>2, <2>3, <2>4 DEF TypeOK
<1>4. ArgInv /\ SubscribedInv /\ RegisteredInv
  BY DEF ArgInv, SubscribedInv, RegisteredInv
<1>5. TopicInv
  BY <1>1 DEF TopicInv
<1>6. FreshInv
  BY DEF FreshInv
<1> QED
  BY <1>3, <1>4, <1>5, <1>6 DEF MqttInv

\* The invariant holds throughout.
LEMMA MqttInvariant == Spec => []MqttInv
<1>1. MqttInv /\ [Next]_vars => MqttInv'
  BY TypeStep, ArgStep, TopicStep, FreshStep, SubscribedStep, RegisteredStep DEF MqttInv
<1> QED
  BY <1>1, MqttInit, PTL DEF Spec

(***************************************************************************)
(* No subscription is lost over a reconnection (RegisterHandler,           *)
(* onConnected): when nothing is under way and the connection is up, every *)
(* handler is subscribed and called.  It does not matter that onConnected  *)
(* reads the handlers without the lock: a handler that it misses is        *)
(* subscribed by the call of RegisterHandler that has put it there.        *)
(***************************************************************************)
THEOREM NoSubscriptionLost == Spec => []HandlersSubscribed
<1>1. MqttInv => HandlersSubscribed
  <2> SUFFICES ASSUME MqttInv, Quiet, connected, ~closed, NEW t \in Topics, handlers[t] # None
               PROVE  t \in subs /\ route[t] # None
    BY DEF HandlersSubscribed
  <2>1. Delivered(t) \/ OwedByWorker(t) \/ OwedByResub(t)
    BY DEF MqttInv, SubscribedInv
  <2>2. ~OwedByWorker(t)
    BY DEF Quiet, OwedByWorker
  <2>3. ~OwedByResub(t)
    BY DEF Quiet, OwedByResub, MqttInv, TypeOK
  <2> QED
    BY <2>1, <2>2, <2>3 DEF Delivered
<1> QED
  BY <1>1, MqttInvariant, PTL

(***************************************************************************)
(* A router added while the endpoint starts is not missed (AddRouter,      *)
(* Start): either AddRouter finds the client, or Start finds the router,   *)
(* so that it is registered once both are done, unless its topic has been  *)
(* removed.                                                                *)
(***************************************************************************)
THEOREM NoRouterMissed == Spec => []AddedIsRegistered
<1>1. MqttInv => AddedIsRegistered
  <2> SUFFICES ASSUME MqttInv, client, Quiet, NEW t \in Topics \ removed, storage[t] # None
               PROVE  handlers[t] # None
    BY DEF AddedIsRegistered
  <2>1. handlers[t] # None \/ OwedByAdd(t) \/ OwedByStart(t)
    BY DEF MqttInv, RegisteredInv
  <2>2. ~OwedByAdd(t) /\ ~OwedByStart(t)
    BY DEF Quiet, OwedByAdd, OwedByStart
  <2> QED
    BY <2>1, <2>2
<1> QED
  BY <1>1, MqttInvariant, PTL
=============================================================================
