--------------------------- MODULE EndpointProofs ---------------------------
(***************************************************************************)
(* The tables of the endpoints do what the last call for a key asked, and  *)
(* handlers respect it, while routers are added and removed under running  *)
(* requests: for every kind that has its table in Endpoint, and any number *)
(* of routers, methods, paths and handlers.                                *)
(* The connections of the net endpoint (Net): a client that beats in time  *)
(* is not thrown out, whatever the intervals.  The two modules share no    *)
(* variable, and no theorem relates them.                                  *)
(***************************************************************************)
EXTENDS Endpoint, Integers, Sequences, TLAPS

HandlerRec ==
  [pc : {"free", "open", "range", "process", "wait"}, cur : Routers \cup {None},
   todo : SUBSET Keys, silent : BOOLEAN, ends : Nat, ran : Nat, completed : BOOLEAN]

TableType ==
  /\ kind \in Kinds
  /\ table \in [Keys -> Routers \cup {None}] /\ disabled \subseteq Routers
  /\ calls \in [Keys -> {"new", "on", "off"}]

\* Router r is stored under a key whose last call was c.
StoredBy(r, c) == \E k \in Keys : table[k] = r /\ calls[k] = c

\* What the last calls have left in the table.  A router of rest or websocket is disabled
\* because it was removed for a key that it is stored under, and not disabled because it
\* was added for one.
TableInv ==
  /\ \A k \in Keys : table[k] # None => From[table[k]] = k[2]
  /\ \A k \in Keys :
       /\ calls[k] = "on" => table[k] # None
       /\ ~http => (table[k] # None => calls[k] = "on")
  /\ \A r \in disabled : StoredBy(r, "off")
  /\ \A k \in Keys : table[k] # None /\ table[k] \notin disabled => StoredBy(table[k], "on")

\* A websocket connection has a router that the table has, and goes on having it; only
\* the net endpoint looks for further routers.
Connection(q) ==
  /\ h[q].pc = "range" => kind = "net"
  /\ kind = "websocket" /\ h[q].pc # "free" => \E k \in Keys : h[q].cur = table[k] /\ table[k] # None

HandlerInv ==
  /\ h \in [Handlers -> HandlerRec]
  /\ \A q \in Handlers : Connection(q)

EndpointInv == TableType /\ TableInv /\ HandlerInv

\* Handler q alone moves, and keeps what holds of it.
Moved(q) ==
  /\ UNCHANGED <<kind, routing>>
  /\ h' \in [Handlers -> HandlerRec]
  /\ \A p \in Handlers : p # q => h'[p] = h[p]
  /\ Connection(q)'

\* What a handler's next record has to meet.
Sound(r) ==
  /\ r.pc = "range" => kind = "net"
  /\ kind = "websocket" /\ r.pc # "free" => \E k \in Keys : r.cur = table[k] /\ table[k] # None
-----------------------------------------------------------------------------
\* A handler that gets a sound record has moved.
LEMMA MovedTo ==
  ASSUME HandlerInv, NEW q \in Handlers, NEW r \in HandlerRec, Sound(r),
         h' = [h EXCEPT ![q] = r], UNCHANGED <<kind, routing>>
  PROVE  Moved(q)
<1>1. h' \in [Handlers -> HandlerRec] /\ h'[q] = r
  BY DEF HandlerInv
<1>2. \A p \in Handlers : p # q => h'[p] = h[p]
  BY DEF HandlerInv
<1>3. Connection(q)'
  BY <1>1 DEF Connection, Sound, routing
<1> QED
  BY <1>1, <1>2, <1>3 DEF Moved

\* A free handler is sound.
LEMMA FreeIsSound == Free \in HandlerRec /\ Sound(Free)
  BY DEF Free, HandlerRec, Sound

\* So is a net connection between two lines.
LEMMA OpenIsSound ==
  ASSUME kind = "net"
  PROVE  [Free EXCEPT !.pc = "open"] \in HandlerRec /\ Sound([Free EXCEPT !.pc = "open"])
<1>1. Free \in HandlerRec
  BY FreeIsSound
<1>2. [Free EXCEPT !.pc = "open"] \in HandlerRec
  BY <1>1 DEF HandlerRec
<1>3. Sound([Free EXCEPT !.pc = "open"])
  BY DEF Sound, Free
<1> QED
  BY <1>2, <1>3

\* The router that the table has under a key.
LEMMA RouterOf ==
  ASSUME EndpointInv, NEW k \in Keys, table[k] # None
  PROVE  table[k] \in Routers
BY DEF EndpointInv, TableType

\* A handler that gets a router of the table has a sound record.
LEMMA GivenRouter ==
  ASSUME EndpointInv, NEW g \in HandlerRec, NEW p \in {"open", "process"}, NEW k \in Keys, table[k] # None
  PROVE  [g EXCEPT !.pc = p, !.cur = table[k]] \in HandlerRec /\ Sound([g EXCEPT !.pc = p, !.cur = table[k]])
<1>1. table[k] \in Routers
  BY RouterOf, Zenon
<1> PICK w \in Routers : w = table[k]
  BY <1>1
<1> DEFINE r == [g EXCEPT !.pc = p, !.cur = w]
<1>2. r \in HandlerRec
  BY Zenon DEF HandlerRec
<1>3. r.pc = p /\ r.cur = w
  BY Zenon DEF HandlerRec
<1> HIDE DEF r
<1>4. Sound(r)
  BY <1>3 DEF Sound
<1> QED
  BY <1>2, <1>4 DEF r

\* Serve, for a router of the table.
LEMMA ServeStep ==
  ASSUME EndpointInv, NEW q \in Handlers, NEW k \in Keys, table[k] # None,
         Serve(q, table[k]), UNCHANGED env
  PROVE  Moved(q)
<1> DEFINE r == [h[q] EXCEPT !.pc = "process", !.cur = table[k]]
<1>0. h[q] \in HandlerRec
  BY DEF EndpointInv, HandlerInv
<1>1. r \in HandlerRec /\ Sound(r)
  BY <1>0, GivenRouter, Zenon
<1>2. h' = [h EXCEPT ![q] = r]
  BY Zenon DEF Serve
<1> QED
  BY <1>1, <1>2, MovedTo, Zenon DEF EndpointInv, env

\* The arrival of a request, a connection, a message or a job.
LEMMA ArriveStep ==
  ASSUME EndpointInv, NEW q \in Handlers, Arrive(q)
  PROVE  Moved(q)
<1>0. h[q] \in HandlerRec
  BY DEF EndpointInv, HandlerInv
<1>1. ASSUME NEW k \in Keys, RestRequest(q, k) PROVE Moved(q)
  BY <1>1, ServeStep DEF RestRequest
<1>2. ASSUME NEW k \in Keys, WsConnect(q, k) PROVE Moved(q)
  <2> DEFINE r == [h[q] EXCEPT !.pc = "open", !.cur = table[k]]
  <2>1. r \in HandlerRec /\ Sound(r)
    BY <1>0, <1>2, GivenRouter, Zenon DEF WsConnect
  <2>2. h' = [h EXCEPT ![q] = r]
    BY <1>2, Zenon DEF WsConnect
  <2> QED
    BY <1>2, <2>1, <2>2, MovedTo, Zenon DEF WsConnect, EndpointInv, env
<1>3. ASSUME NEW k \in Keys, Fire(q, k) PROVE Moved(q)
  BY <1>3, ServeStep DEF Fire
<1>4. ASSUME NEW w \in Routers, MqttMessage(q, w) PROVE Moved(q)
  <2> DEFINE r == [h[q] EXCEPT !.pc = "process", !.cur = w]
  <2>1. kind = "mqtt" /\ UNCHANGED env
    BY <1>4 DEF MqttMessage
  <2>2. r \in HandlerRec /\ Sound(r)
    BY <1>0, <2>1, Zenon DEF HandlerRec, Sound
  <2>3. h' = [h EXCEPT ![q] = r]
    BY <1>4, Zenon DEF MqttMessage, Serve
  <2> QED
    BY <2>1, <2>2, <2>3, MovedTo, Zenon DEF EndpointInv, env
<1>5. ASSUME WsMessage(q) PROVE Moved(q)
  <2>1. kind = "websocket" /\ h[q].pc = "open" /\ UNCHANGED env
    BY <1>5 DEF WsMessage
  <2>2. PICK k \in Keys : h[q].cur = table[k] /\ table[k] # None
    BY <2>1 DEF EndpointInv, HandlerInv, Connection
  <2>3. CASE h[q].cur \in disabled
    BY <1>5, <2>1, <2>3, FreeIsSound, MovedTo, Zenon DEF WsMessage, EndpointInv, env
  <2>4. CASE h[q].cur \notin disabled
    <3> DEFINE r == [h[q] EXCEPT !.pc = "process"]
    <3>1. r \in HandlerRec /\ Sound(r)
      BY <1>0, <2>1, <2>2, Zenon DEF HandlerRec, Sound
    <3>2. h' = [h EXCEPT ![q] = r]
      BY <1>5, <2>4, Zenon DEF WsMessage, Goto
    <3> QED
      BY <2>1, <3>1, <3>2, MovedTo, Zenon DEF EndpointInv, env
  <2> QED
    BY <2>3, <2>4
<1>6. ASSUME NetConnect(q) PROVE Moved(q)
  <2> DEFINE r == [h[q] EXCEPT !.pc = "open"]
  <2>1. kind = "net" /\ h[q].pc = "free" /\ UNCHANGED env
    BY <1>6 DEF NetConnect
  <2>2. r \in HandlerRec /\ Sound(r)
    BY <1>0, <2>1, Zenon DEF HandlerRec, Sound
  <2>3. h' = [h EXCEPT ![q] = r]
    BY <1>6, Zenon DEF NetConnect, Goto
  <2> QED
    BY <2>1, <2>2, <2>3, MovedTo, Zenon DEF EndpointInv, env
<1>7. ASSUME NEW matching \in SUBSET {k \in Keys : k[1] = "GET"}, NetMessage(q, matching) PROVE Moved(q)
  <2> DEFINE r == [h[q] EXCEPT !.pc = "range", !.todo = matching]
  <2>1. kind = "net" /\ h[q].pc = "open" /\ matching \in SUBSET Keys
    BY <1>7 DEF NetMessage
  <2>2. r \in HandlerRec
    BY <1>0, <2>1, Zenon DEF HandlerRec
  <2>3. Sound(r)
    BY <2>1, Zenon DEF HandlerRec, Sound
  <2>4. h' = [h EXCEPT ![q] = r]
    BY <1>7, Zenon DEF NetMessage
  <2> QED
    BY <1>7, <2>2, <2>3, <2>4, MovedTo, Zenon DEF NetMessage, EndpointInv, env
<1>8. ASSUME Disconnect(q) PROVE Moved(q)
  BY <1>8, FreeIsSound, MovedTo, Zenon DEF Disconnect, EndpointInv, env
<1> QED
  BY <1>1, <1>2, <1>3, <1>4, <1>5, <1>6, <1>7, <1>8, Zenon DEF Arrive

\* After DoProcess a connection goes on, or the handler is free.
LEMMA ReturnStep ==
  ASSUME EndpointInv, NEW q \in Handlers, h[q].pc \in {"process", "wait"}, Return(q),
         UNCHANGED <<kind, routing>>
  PROVE  Moved(q)
<1>1. After(q) \in HandlerRec /\ Sound(After(q))
  <2>1. CASE kind = "websocket"
    <3>1. PICK k \in Keys : h[q].cur = table[k] /\ table[k] # None
      BY <2>1 DEF EndpointInv, HandlerInv, Connection
    <3>2. After(q) = [pc |-> "open", cur |-> h[q].cur, todo |-> {}, silent |-> FALSE, ends |-> 0, ran |-> 0,
                      completed |-> FALSE]
      BY <2>1, Zenon DEF After, Free
    <3>3. After(q) \in HandlerRec
      BY <3>1, <3>2, RouterOf DEF HandlerRec
    <3>4. Sound(After(q))
      BY <3>1, <3>2 DEF Sound
    <3> QED
      BY <3>3, <3>4
  <2>2. CASE kind = "net"
    <3>1. h[q].todo \in SUBSET Keys
      BY DEF EndpointInv, HandlerInv, HandlerRec
    <3>2. After(q) = [pc |-> "range", cur |-> None, todo |-> h[q].todo, silent |-> FALSE, ends |-> 0, ran |-> 0,
                      completed |-> FALSE]
      BY <2>2, Zenon DEF After, Free
    <3>3. After(q) \in HandlerRec
      BY <3>1, <3>2 DEF HandlerRec
    <3>4. Sound(After(q))
      BY <2>2, <3>2 DEF Sound
    <3> QED
      BY <3>3, <3>4
  <2>3. CASE kind \notin {"websocket", "net"}
    BY <2>3, FreeIsSound DEF After
  <2> QED
    BY <2>1, <2>2, <2>3
<1> QED
  BY <1>1, MovedTo, Zenon DEF Return, EndpointInv

\* The next router that matches a line.
LEMMA NetNextStep ==
  ASSUME EndpointInv, NEW q \in Handlers, NetNext(q)
  PROVE  Moved(q)
<1>1. h[q].pc = "range" /\ UNCHANGED env
  BY Zenon DEF NetNext
<1>2. kind = "net" /\ h[q].todo \subseteq Keys /\ h[q] \in HandlerRec
  BY <1>1 DEF EndpointInv, HandlerInv, Connection, HandlerRec
<1>3. ASSUME NEW k \in h[q].todo, table[k] # None,
             h' = [h EXCEPT ![q].pc = "process", ![q].cur = table[k], ![q].todo = @ \ {k}]
      PROVE  Moved(q)
  <2> DEFINE r == [h[q] EXCEPT !.pc = "process", !.cur = table[k], !.todo = @ \ {k}]
  <2>1. table[k] \in Routers
    BY <1>2, <1>3, RouterOf, Zenon
  <2>2. r \in HandlerRec /\ Sound(r)
    BY <1>1, <1>2, <2>1, Zenon DEF HandlerRec, Sound
  <2>3. h' = [h EXCEPT ![q] = r]
    BY <1>3, Zenon
  <2> QED
    BY <1>1, <2>2, <2>3, MovedTo, Zenon DEF EndpointInv, env
<1>4. ASSUME h' = [h EXCEPT ![q] = [Free EXCEPT !.pc = "open"]]
      PROVE  Moved(q)
  BY <1>1, <1>2, <1>4, OpenIsSound, MovedTo, Zenon DEF EndpointInv, env
<1> QED
  BY <1>3, <1>4, Zenon DEF NetNext

\* A handler that waits, with other counts.
LEMMA WaitStep ==
  ASSUME EndpointInv, NEW q \in Handlers, NEW r \in HandlerRec, r.pc = "wait", r.cur = h[q].cur,
         h[q].pc \in {"process", "wait"}, h' = [h EXCEPT ![q] = r], UNCHANGED env
  PROVE  Moved(q)
<1>1. Sound(r)
  BY DEF EndpointInv, HandlerInv, Connection, Sound
<1> QED
  BY <1>1, MovedTo, Zenon DEF EndpointInv, env

\* What a request goes through.
LEMMA HandleStep ==
  ASSUME EndpointInv, NEW q \in Handlers, Handle(q) \/ ChainPanics(q) \/ ComponentPanics(q)
  PROVE  Moved(q)
<1>0. h[q] \in HandlerRec /\ h[q].ends \in Nat /\ h[q].ran \in Nat
  BY DEF EndpointInv, HandlerInv, HandlerRec
<1>1. ASSUME Refused(q) PROVE Moved(q)
  <2>1. CASE h' = [h EXCEPT ![q] = After(q)]
    BY <1>1, <2>1, ReturnStep, Zenon DEF Refused, Return, env
  <2>2. CASE h' = [h EXCEPT ![q] = Free]
    BY <1>1, <2>2, FreeIsSound, MovedTo, Zenon DEF Refused, env, EndpointInv
  <2> QED
    BY <1>1, <2>1, <2>2 DEF Refused
<1>2. ASSUME NotFound(q) PROVE Moved(q)
  BY <1>2, ReturnStep, Zenon DEF NotFound, env
<1>3. ASSUME NetNext(q) PROVE Moved(q)
  BY <1>3, NetNextStep, Zenon
<1>4. ASSUME End(q) PROVE Moved(q)
  <2> DEFINE r == [h[q] EXCEPT !.ends = @ - 1, !.ran = @ + 1]
  <2>1. h[q].ends - 1 \in Nat /\ h[q].ran + 1 \in Nat
    BY <1>0, <1>4 DEF End
  <2>2. r \in HandlerRec /\ r.pc = h[q].pc /\ r.cur = h[q].cur
    BY <1>0, <2>1, Zenon DEF HandlerRec
  <2>3. h' = [h EXCEPT ![q] = r]
    BY <1>4, Zenon DEF End
  <2> QED
    BY <1>4, <2>2, <2>3, WaitStep, Zenon DEF End
<1>5. ASSUME ChildDone(q) PROVE Moved(q)
  <2>1. PICK c \in {TRUE, h[q].completed \/ (h[q].ran = 1 /\ h[q].ends = 0)} :
          h' = [h EXCEPT ![q].ran = @ - 1, ![q].completed = c]
    BY <1>5, Zenon DEF ChildDone
  <2> DEFINE r == [h[q] EXCEPT !.ran = @ - 1, !.completed = c]
  <2>2. c \in BOOLEAN
    BY <2>1, Zenon
  <2>3. h[q].ran - 1 \in Nat
    BY <1>0, <1>5 DEF ChildDone
  <2>4. r \in HandlerRec /\ r.pc = h[q].pc /\ r.cur = h[q].cur
    BY <1>0, <2>2, <2>3, Zenon DEF HandlerRec
  <2>5. h' = [h EXCEPT ![q] = r]
    BY <2>1, Zenon
  <2> QED
    BY <1>5, <2>4, <2>5, WaitStep, Zenon DEF ChildDone
<1>6. ASSUME WaitReturns(q) PROVE Moved(q)
  BY <1>6, ReturnStep, Zenon DEF WaitReturns, Leave
<1>7. ASSUME NEW n \in 0..MaxEnds, ExecuteAsync(q, n) PROVE Moved(q)
  <2>1. CASE Return(q)
    BY <1>7, <2>1, ReturnStep, Zenon DEF ExecuteAsync
  <2>2. CASE h' = [h EXCEPT ![q] = Free]
    BY <1>7, <2>2, FreeIsSound, MovedTo, Zenon DEF ExecuteAsync, EndpointInv
  <2> QED
    BY <1>7, <2>1, <2>2, Zenon DEF ExecuteAsync
<1>8. ASSUME NEW n \in 0..MaxEnds, ExecuteWait(q, n) PROVE Moved(q)
  <2> DEFINE b == n = 0
             r == [h[q] EXCEPT !.pc = "wait", !.silent = b, !.ends = n]
  <2>1. n \in Nat
    BY EndpointAssumption
  <2>2. b \in BOOLEAN /\ h' = [h EXCEPT ![q] = r]
    BY <1>8, Zenon DEF ExecuteWait
  <2> HIDE DEF b
  <2>3. r \in HandlerRec /\ r.pc = "wait" /\ r.cur = h[q].cur
    BY <1>0, <2>1, <2>2, Zenon DEF HandlerRec
  <2> QED
    BY <1>8, <2>2, <2>3, WaitStep, Zenon DEF ExecuteWait
<1>9. ASSUME ChainPanics(q) PROVE Moved(q)
  <2> DEFINE r == [h[q] EXCEPT !.completed = TRUE]
  <2>1. r \in HandlerRec /\ r.pc = h[q].pc /\ r.cur = h[q].cur
    BY <1>0, Zenon DEF HandlerRec
  <2>2. h' = [h EXCEPT ![q] = r]
    BY <1>9, Zenon DEF ChainPanics
  <2> QED
    BY <1>9, <2>1, <2>2, WaitStep, Zenon DEF ChainPanics
<1>10. ASSUME ComponentPanics(q) PROVE Moved(q)
  BY <1>10, FreeIsSound, MovedTo, Zenon DEF ComponentPanics, Leave, EndpointInv
<1> QED
  BY <1>1, <1>2, <1>3, <1>4, <1>5, <1>6, <1>7, <1>8, <1>9, <1>10, Zenon DEF Handle

\* What AddRouter of rest and websocket leaves.
LEMMA AddHttpStep ==
  ASSUME TableType, TableInv, http, NEW k \in Keys, NEW r \in Routers, From[r] = k[2],
         table' = [table EXCEPT ![k] = IF @ = None THEN r ELSE @], disabled' = disabled \ {table[k]},
         calls' = [calls EXCEPT ![k] = "on"], kind' = kind
  PROVE  /\ TableType' /\ TableInv'
         /\ \A j \in Keys : table[j] # None => table'[j] = table[j]
<1> USE EndpointAssumption DEF TableType
<1>1. http' /\ TableType' /\ r # None
  BY DEF http
<1>2. /\ \A j \in Keys : j # k => table'[j] = table[j] /\ calls'[j] = calls[j]
      /\ calls'[k] = "on" /\ table'[k] = (IF table[k] = None THEN r ELSE table[k])
  OBVIOUS
<1>3. \A j \in Keys : table[j] # None => table'[j] = table[j]
  BY <1>2
<1>4. \A j \in Keys : table'[j] # None => From[table'[j]] = j[2]
  BY <1>1, <1>2 DEF TableInv
<1>5. \A j \in Keys : calls'[j] = "on" => table'[j] # None
  BY <1>1, <1>2 DEF TableInv
<1>6. ASSUME NEW s \in disabled' PROVE StoredBy(s, "off")'
  <2>1. PICK j \in Keys : table[j] = s /\ calls[j] = "off"
    BY <1>6 DEF TableInv, StoredBy
  <2>2. j # k /\ s # None
    BY <1>6, <2>1
  <2> QED
    BY <1>2, <2>1, <2>2 DEF StoredBy
<1>7. ASSUME NEW j \in Keys, table'[j] # None, table'[j] \notin disabled' PROVE StoredBy(table[j], "on")'
  <2>1. CASE table'[j] = table'[k]
    BY <1>2, <2>1 DEF StoredBy
  <2>2. CASE table'[j] # table'[k]
    <3>1. j # k /\ table[j] = table'[j] /\ table[j] # None /\ table[j] \notin disabled
      BY <1>2, <1>3, <1>7, <2>2
    <3>2. PICK i \in Keys : table[i] = table[j] /\ calls[i] = "on"
      BY <3>1 DEF TableInv, StoredBy
    <3>3. table'[i] = table'[j] /\ calls'[i] = "on"
      BY <1>2, <1>3, <3>1, <3>2
    <3> QED
      BY <3>3 DEF StoredBy
  <2> QED
    BY <2>1, <2>2
<1> QED
  BY <1>1, <1>3, <1>4, <1>5, <1>6, <1>7 DEF TableInv

\* What AddRouter and RemoveRouter of net and schedule leave, which disable nothing.
LEMMA PlainStep ==
  ASSUME TableType, TableInv, ~http, NEW k \in Keys, NEW v \in Routers \cup {None}, NEW c \in {"new", "on", "off"},
         v # None => From[v] = k[2], (v # None) <=> (c = "on"),
         table' = [table EXCEPT ![k] = v], disabled' = disabled,
         calls' = [calls EXCEPT ![k] = c], kind' = kind
  PROVE  TableType' /\ TableInv'
<1> USE EndpointAssumption DEF TableType
<1>1. ~http' /\ TableType'
  BY DEF http
<1>2. /\ \A j \in Keys : j # k => table'[j] = table[j] /\ calls'[j] = calls[j]
      /\ calls'[k] = c /\ table'[k] = v
  OBVIOUS
<1>3. disabled = {}
  BY DEF TableInv, StoredBy
<1>4. \A j \in Keys : /\ table'[j] # None => From[table'[j]] = j[2]
                      /\ calls'[j] = "on" <=> table'[j] # None
  BY <1>2 DEF TableInv
<1>5. \A j \in Keys : table'[j] # None => StoredBy(table[j], "on")'
  BY <1>4 DEF StoredBy
<1> QED
  BY <1>1, <1>3, <1>4, <1>5 DEF TableInv

\* AddRouter keeps what holds of the table, and the routers that connections have.
LEMMA AddStep ==
  ASSUME TableType, TableInv, NEW x \in Added[kind], AddRouter(x[1], x[2])
  PROVE  /\ TableType' /\ TableInv'
         /\ kind = "websocket" => \A j \in Keys : table[j] # None => table'[j] = table[j]
<1> DEFINE r == x[2]
           k == KeyOf(x[1], x[2])
<1>1. x[1] \in Methods /\ r \in Routers /\ r # None
  BY EndpointAssumption DEF TableType
<1>2. k \in Keys /\ From[r] = k[2]
  BY <1>1, EndpointAssumption DEF KeyOf, Keys
<1>3. kind' = kind /\ calls' = [calls EXCEPT ![k] = "on"]
  BY DEF AddRouter
<1> HIDE DEF r, k
<1>4. CASE http
  <2>1. table' = [table EXCEPT ![k] = IF @ = None THEN r ELSE @] /\ disabled' = disabled \ {table[k]}
    BY <1>4 DEF AddRouter, AddHttp, AddWs, http, r, k
  <2> QED
    BY <1>1, <1>2, <1>3, <1>4, <2>1, AddHttpStep, Zenon
<1>5. CASE ~http
  <2>1. /\ disabled' = disabled /\ kind # "websocket"
        /\ table' = [table EXCEPT ![k] = r] \/ table' = [table EXCEPT ![k] = IF @ = None THEN r ELSE @]
    BY <1>5 DEF AddRouter, AddNet, AddCron, http, r, k
  <2>2. PICK v \in Routers : From[v] = k[2] /\ table' = [table EXCEPT ![k] = v]
    BY <1>1, <1>2, <2>1 DEF TableType, TableInv
  <2>3. v \in Routers \cup {None} /\ ((v # None) <=> ("on" = "on"))
    BY EndpointAssumption
  <2>4. TableType' /\ TableInv'
    BY <1>2, <1>3, <1>5, <2>1, <2>2, <2>3, PlainStep, Zenon
  <2> QED
    BY <2>1, <2>4
<1> QED
  BY <1>4, <1>5

\* RemoveRouter too.
LEMMA RemoveStep ==
  ASSUME TableType, TableInv, NEW k \in Keys, RemoveRouter(k)
  PROVE  /\ TableType' /\ TableInv'
         /\ kind = "websocket" => table' = table
<1> DEFINE c == IF table[k] = None THEN calls[k] ELSE "off"
<1>1. kind' = kind /\ calls' = [calls EXCEPT ![k] = c]
  BY DEF RemoveRouter
<1>2. c \in {"new", "on", "off"} /\ (table[k] = None => c = calls[k]) /\ (table[k] # None => c = "off")
  BY DEF TableType
<1>3. CASE http
  <2> USE EndpointAssumption DEF TableType
  <2>1. table' = table /\ disabled' = disabled \cup ({table[k]} \ {None}) /\ http'
    BY <1>1, <1>3 DEF RemoveRouter, Disable, http
  <2> HIDE DEF c
  <2>2. TableType'
    BY <1>1, <1>2, <2>1
  <2>3. /\ \A j \in Keys : j # k => calls'[j] = calls[j]
        /\ calls'[k] = c
    BY <1>1
  <2>4. \A j \in Keys : calls'[j] = "on" => table'[j] # None
    BY <1>2, <2>1, <2>3 DEF TableInv
  <2>5. ASSUME NEW s \in disabled' PROVE StoredBy(s, "off")'
    <3>1. CASE s = table[k] /\ s # None
      BY <1>2, <2>1, <2>3, <3>1 DEF StoredBy
    <3>2. CASE s \in disabled
      <4>1. PICK j \in Keys : table[j] = s /\ calls[j] = "off"
        BY <3>2 DEF TableInv, StoredBy
      <4>2. calls'[j] = "off"
        BY <1>2, <2>3, <4>1
      <4> QED
        BY <2>1, <4>1, <4>2 DEF StoredBy
    <3> QED
      BY <2>1, <2>5, <3>1, <3>2
  <2>6. ASSUME NEW j \in Keys, table'[j] # None, table'[j] \notin disabled' PROVE StoredBy(table[j], "on")'
    <3>1. PICK i \in Keys : table[i] = table[j] /\ calls[i] = "on"
      BY <2>1, <2>6 DEF TableInv, StoredBy
    <3>2. i # k
      BY <2>1, <2>6, <3>1
    <3> QED
      BY <2>1, <2>3, <3>1, <3>2 DEF StoredBy
  <2> QED
    BY <2>1, <2>2, <2>4, <2>5, <2>6 DEF TableInv
<1>4. CASE ~http
  <2>1. table' = [table EXCEPT ![k] = None] /\ disabled' = disabled /\ kind # "websocket"
    BY <1>4 DEF RemoveRouter, Delete, DeleteCron, http
  <2>2. c # "on"
    BY <1>2 DEF TableInv
  <2>3. (None # None) <=> (c = "on")
    BY <2>2
  <2> HIDE DEF c
  <2>4. TableType' /\ TableInv'
    BY <1>1, <1>2, <1>4, <2>1, <2>3, PlainStep, Zenon
  <2> QED
    BY <2>1, <2>4
<1> QED
  BY <1>3, <1>4

\* Every step keeps the inductive invariant.
LEMMA EndpointStep ==
  ASSUME EndpointInv, [Next]_vars
  PROVE  EndpointInv'
<1>1. ASSUME NEW q \in Handlers, Moved(q) PROVE EndpointInv'
  <2>1. TableType' /\ TableInv' /\ kind' = kind
    BY <1>1 DEF Moved, EndpointInv, TableType, TableInv, StoredBy, routing, http
  <2>2. ASSUME NEW p \in Handlers PROVE Connection(p)'
    <3>1. CASE p = q
      BY <1>1, <3>1 DEF Moved
    <3>2. CASE p # q
      <4>1. h'[p] = h[p] /\ kind' = kind /\ table' = table
        BY <1>1, <3>2 DEF Moved, routing
      <4>2. Connection(p)
        BY DEF EndpointInv, HandlerInv
      <4> QED
        BY <4>1, <4>2 DEF Connection
    <3> QED
      BY <3>1, <3>2
  <2> QED
    BY <1>1, <2>1, <2>2 DEF EndpointInv, HandlerInv, Moved
<1>2. ASSUME h' = h, kind' = kind, TableType', TableInv',
             kind = "websocket" => \A j \in Keys : table[j] # None => table'[j] = table[j]
      PROVE  EndpointInv'
  <2>1. ASSUME NEW p \in Handlers PROVE Connection(p)'
    <3>1. Connection(p)
      BY DEF EndpointInv, HandlerInv
    <3> QED
      BY <1>2, <3>1 DEF Connection
  <2> QED
    BY <1>2, <2>1 DEF EndpointInv, HandlerInv
<1>3. ASSUME NEW x \in Added[kind], AddRouter(x[1], x[2]) PROVE EndpointInv'
  BY <1>2, <1>3, AddStep, Zenon DEF EndpointInv, AddRouter
<1>4. ASSUME NEW k \in Keys, RemoveRouter(k) PROVE EndpointInv'
  BY <1>2, <1>4, RemoveStep, Zenon DEF EndpointInv, RemoveRouter
<1>5. ASSUME UNCHANGED <<kind, routing, h>> PROVE EndpointInv'
  <2>1. TableType' /\ TableInv'
    BY <1>5 DEF EndpointInv, TableType, TableInv, StoredBy, routing, http
  <2> QED
    BY <1>2, <1>5, <2>1 DEF routing
<1>6. ASSUME NEW q \in Handlers, Arrive(q) \/ Handle(q) \/ ChainPanics(q) \/ ComponentPanics(q)
      PROVE  EndpointInv'
  BY <1>1, <1>6, ArriveStep, HandleStep, Zenon
<1> QED
  BY <1>3, <1>4, <1>5, <1>6
  DEF Next, vars, Start, Close, CloseReturns, EndLoose, routing

\* The inductive invariant holds always.
LEMMA EndpointInvariant == Spec => []EndpointInv
<1>1. Init => EndpointInv
  <2> SUFFICES ASSUME Init PROVE EndpointInv
    OBVIOUS
  <2>1. TableType /\ TableInv
    BY EndpointAssumption DEF Init, TableType, TableInv
  <2>2. ASSUME NEW q \in Handlers PROVE Connection(q)
    BY DEF Init, Free, Connection
  <2>3. h \in [Handlers -> HandlerRec]
    BY FreeIsSound DEF Init
  <2> QED
    BY <2>1, <2>2, <2>3 DEF EndpointInv, HandlerInv
<1> QED
  BY <1>1, EndpointStep, PTL DEF Spec
-----------------------------------------------------------------------------
(***************************************************************************)
(* A key whose last call was AddRouter has a router of its path, which     *)
(* serves unless the same object was removed for another method (AddRouter *)
(* and RemoveRouter of rest, websocket, net and schedule).                 *)
(***************************************************************************)
THEOREM TableFollowsCalls == Spec => []AddedIsServed
<1>1. EndpointInv => AddedIsServed
  BY DEF EndpointInv, TableInv, StoredBy, AddedIsServed
<1> QED
  BY <1>1, EndpointInvariant, PTL

(***************************************************************************)
(* No handler of rest, websocket, net or schedule takes a message for a    *)
(* router that was removed last under every key that it is stored under    *)
(* (RemoveRouter, and the handlers that read the table without its lock or *)
(* keep a router for the life of a connection).                            *)
(***************************************************************************)
THEOREM RemovedTakesNothing == Spec => ServesAdded
<1> DEFINE On(r) == \E k \in Keys : table[k] = r /\ calls[k] = "on"
           A == \A q \in Handlers : kind # "mqtt" /\ h[q].pc # "process" /\ h'[q].pc = "process" => On(h'[q].cur)
<1>1. ASSUME EndpointInv, [Next]_vars PROVE A
  <2> SUFFICES ASSUME NEW q \in Handlers, kind # "mqtt", h[q].pc # "process", h'[q].pc = "process"
               PROVE  On(h'[q].cur)
    OBVIOUS
  <2> USE DEF EndpointInv
  <2>1. h \in [Handlers -> HandlerRec]
    BY <1>1 DEF HandlerInv
  <2>2. ASSUME NEW k \in Keys, table[k] # None, table[k] \notin disabled, h'[q].cur = table[k]
        PROVE  On(h'[q].cur)
    BY <1>1, <2>2 DEF TableInv, StoredBy
  <2>3. ASSUME NEW k \in Keys, table[k] # None, ~http, h'[q].cur = table[k]
        PROVE  On(h'[q].cur)
    BY <1>1, <2>3 DEF TableInv
  <2>4. PICK p \in Handlers : Arrive(p) \/ Handle(p) \/ ChainPanics(p) \/ ComponentPanics(p)
    BY <1>1 DEF Next, vars, AddRouter, RemoveRouter, Start, Close, CloseReturns, EndLoose
  <2>5. p = q
    BY <1>1, <2>4, ArriveStep, HandleStep DEF Moved
  <2> HIDE DEF On
  <2>6. ASSUME NEW k \in Keys, RestRequest(q, k) PROVE On(h'[q].cur)
    BY <2>1, <2>2, <2>6 DEF RestRequest, Serve, HandlerRec
  <2>7. ASSUME NEW k \in Keys, Fire(q, k) PROVE On(h'[q].cur)
    BY <2>1, <2>3, <2>7 DEF Fire, Serve, HandlerRec, http
  <2>8. ASSUME WsMessage(q) PROVE On(h'[q].cur)
    <3>1. h'[q].cur = h[q].cur /\ h[q].cur \notin disabled /\ h[q].pc = "open" /\ kind = "websocket"
      BY <2>1, <2>8 DEF WsMessage, Goto, HandlerRec, Free
    <3>2. PICK k \in Keys : h[q].cur = table[k] /\ table[k] # None
      BY <1>1, <3>1 DEF HandlerInv, Connection
    <3> QED
      BY <2>2, <3>1, <3>2
  <2>9. ASSUME NetNext(q) PROVE On(h'[q].cur)
    <3>1. PICK k \in h[q].todo : table[k] # None /\ h'[q].cur = table[k]
      <4>1. CASE h' = [h EXCEPT ![q] = [Free EXCEPT !.pc = "open"]]
        BY <2>1, <4>1, Zenon DEF Free
      <4>2. PICK k \in h[q].todo :
              /\ table[k] # None
              /\ h' = [h EXCEPT ![q].pc = "process", ![q].cur = table[k], ![q].todo = @ \ {k}]
        BY <2>9, <4>1, Zenon DEF NetNext
      <4>3. h'[q].cur = table[k]
        BY <2>1, <4>2 DEF HandlerRec
      <4> QED
        BY <4>2, <4>3
    <3>2. k \in Keys /\ ~http
      BY <1>1, <2>1, <2>9, Zenon DEF NetNext, HandlerInv, HandlerRec, Connection, http
    <3> QED
      BY <2>3, <3>1, <3>2
  <2>10. ASSUME \E k \in Keys : WsConnect(q, k) PROVE FALSE
    BY <2>1, <2>10 DEF WsConnect, HandlerRec
  <2>11. ASSUME NetConnect(q) \/ Disconnect(q)
                  \/ \E matching \in SUBSET {k \in Keys : k[1] = "GET"} : NetMessage(q, matching)
         PROVE  FALSE
    BY <2>1, <2>11 DEF NetConnect, Goto, Disconnect, NetMessage, HandlerRec, Free
  <2>12. ASSUME h[q].pc = "wait", h' = [h EXCEPT ![q] = After(q)] PROVE FALSE
    BY <2>1, <2>12 DEF After, Free
  <2>13. ASSUME Refused(q) \/ NotFound(q) \/ \E n \in 0..MaxEnds : ExecuteAsync(q, n) \/ ExecuteWait(q, n)
         PROVE  FALSE
    BY <2>13, Zenon DEF Refused, NotFound, ExecuteAsync, ExecuteWait
  <2>14. ASSUME End(q) \/ ChildDone(q) \/ ChainPanics(q) PROVE FALSE
    BY <2>1, <2>14 DEF End, ChildDone, ChainPanics, HandlerRec
  <2>15. ASSUME WaitReturns(q) \/ ComponentPanics(q) PROVE FALSE
    BY <2>1, <2>12, <2>15 DEF WaitReturns, Return, ComponentPanics, Free
  <2>16. ASSUME NEW r \in Routers, MqttMessage(q, r) PROVE FALSE
    BY <2>16 DEF MqttMessage
  <2> QED
    BY <2>4, <2>5, <2>6, <2>7, <2>8, <2>9, <2>10, <2>11, <2>13, <2>14, <2>15, <2>16, Zenon DEF Arrive, Handle
<1> HIDE DEF A
<1>2. [][A]_vars => ServesAdded
  BY PTL DEF ServesAdded, A
<1> QED
  BY <1>1, <1>2, EndpointInvariant, PTL DEF Spec
-----------------------------------------------------------------------------
(* NetLink: the heartbeat of the client arrives before the server's time   *)
(* limit.                                                                  *)
CONSTANTS Heartbeat, ReadTimeout, Processing, MaxConns, MaxLines
VARIABLES conn, disconnected, heartbeat, ping, loop, stop, link, lines, listener, accept, handler,
          readTimer, busy

Net == INSTANCE NetLink

\* Nothing is on its way to the server: the next heartbeat comes before the time limit.
Fed(c) ==
  lines[c] = <<>> =>
    /\ readTimer[c] >= ReadTimeout - Heartbeat
    /\ readTimer[c] >= ReadTimeout - Heartbeat + heartbeat

\* What holds of a connection that is up at both ends.
Healthy(c) ==
  /\ c = conn /\ ~disconnected
  /\ heartbeat >= 0 \/ ping = "write"
  /\ \/ accept = "spawn" /\ handler[c] = "none" /\ readTimer[c] = Net!Off
     \/ handler[c] = "read" /\ readTimer[c] > 0 /\ Fed(c)
     \/ handler[c] = "process" /\ readTimer[c] >= ReadTimeout - busy[c] /\ Fed(c)

\* The connections still to come have no handler.
Unmade == \A c \in Net!Conns : c > conn => handler[c] = "none" /\ readTimer[c] = Net!Off

LinkInv ==
  /\ Net!TypeOK /\ Unmade
  /\ \A c \in Net!Conns : link[c] = "open" => Healthy(c)

\* A write leaves the lines of every connection within their bound.
LEMMA WriteType ==
  ASSUME Net!TimingAssumption, Net!TypeOK, Len(lines[conn]) < MaxLines,
         NEW l \in {"ping", "data"}, Net!Write(l)
  PROVE  /\ link' \in [Net!Conns -> {"none", "open", "half", "reset", "closed"}]
         /\ lines' \in [Net!Conns -> Seq({"ping", "data"})]
         /\ \A c \in Net!Conns : Len(lines'[c]) <= MaxLines
<1>1. CASE link[conn] = "open"
  <2>1. lines' = [lines EXCEPT ![conn] = Append(@, l)] /\ link' = link
    BY <1>1 DEF Net!Write
  <2>2. lines \in [Net!Conns -> Seq({"ping", "data"})] /\ MaxLines \in Nat
    BY Net!TimingAssumption DEF Net!TypeOK
  <2>3. ASSUME NEW c \in Net!Conns
        PROVE  lines'[c] \in Seq({"ping", "data"}) /\ Len(lines'[c]) <= MaxLines
    <3>1. CASE c = conn
      <4>1. lines'[c] = Append(lines[c], l)
        BY <2>1, <2>2, <3>1
      <4>2. lines[c] \in Seq({"ping", "data"}) /\ Len(lines[c]) < MaxLines
        BY <2>2, <3>1
      <4> QED
        BY <4>1, <4>2, <2>2
    <3>2. CASE c # conn
      BY <2>1, <2>2, <3>2 DEF Net!TypeOK
    <3> QED
      BY <3>1, <3>2
  <2>4. lines' \in [Net!Conns -> Seq({"ping", "data"})]
    BY <2>1, <2>2, <2>3, Zenon
  <2> QED
    BY <2>1, <2>3, <2>4 DEF Net!TypeOK
<1>2. CASE link[conn] # "open"
  BY <1>2, Zenon DEF Net!Write, Net!TypeOK
<1> QED
  BY <1>1, <1>2

\* A write on a connection that is up puts a line on its way.
LEMMA WriteFills ==
  ASSUME Net!TypeOK, conn \in Net!Conns, link[conn] = "open", NEW l, Net!Write(l)
  PROVE  lines'[conn] # <<>>
<1>1. lines' = [lines EXCEPT ![conn] = Append(@, l)] /\ lines \in [Net!Conns -> Seq({"ping", "data"})]
  BY DEF Net!Write, Net!TypeOK
<1>2. lines'[conn] = Append(lines[conn], l) /\ lines[conn] \in Seq({"ping", "data"})
  BY <1>1
<1> QED
  BY <1>2

\* Every step is well typed.
LEMMA LinkType ==
  ASSUME Net!TimingAssumption, Net!TypeOK, [Net!Next]_Net!vars
  PROVE  Net!TypeOK'
<1>0. /\ ReadTimeout \in Net!Off..ReadTimeout /\ Heartbeat \in Net!Off..Heartbeat
      /\ Net!Off \in Net!Off..ReadTimeout /\ Net!Off \in Net!Off..Heartbeat
      /\ 0 \in 0..Processing
  BY Net!TimingAssumption DEF Net!Off
<1> USE <1>0 DEF Net!TypeOK, Net!client, Net!network, Net!server
<1>1. ASSUME Net!OnConnect PROVE Net!TypeOK'
  <2>1. conn' \in 0..MaxConns /\ disconnected' \in BOOLEAN /\ heartbeat' \in Net!Off..Heartbeat
    <3>1. \/ conn < MaxConns /\ conn' = conn + 1 /\ disconnected' = FALSE /\ heartbeat' = Heartbeat
          \/ UNCHANGED <<conn, disconnected, heartbeat>>
      BY <1>1, Zenon DEF Net!OnConnect, Net!Connected
    <3>2. conn' \in 0..MaxConns
      <4> HIDE DEF Net!TypeOK
      <4>1. MaxConns \in Nat /\ conn \in 0..MaxConns
        BY Net!TimingAssumption DEF Net!TypeOK
      <4>2. conn' = conn \/ (conn < MaxConns /\ conn' = conn + 1)
        BY <3>1
      <4> QED
        BY <4>1, <4>2
    <3> QED
      BY <3>1, <3>2, Zenon
  <2>2. link' \in [Net!Conns -> {"none", "open", "half", "reset", "closed"}]
    BY <1>1, Zenon DEF Net!OnConnect, Net!Close
  <2> QED
    BY <1>1, <2>1, <2>2 DEF Net!OnConnect
<1>2. ASSUME Net!Sleep PROVE Net!TypeOK'
  BY <1>2 DEF Net!Sleep
<1>3. ASSUME Net!OnDisconnect PROVE Net!TypeOK'
  BY <1>3, Zenon DEF Net!OnDisconnect, Net!Close
<1>4. ASSUME Net!Destroy PROVE Net!TypeOK'
  BY <1>4 DEF Net!Destroy
<1>5. ASSUME Net!OnPing PROVE Net!TypeOK'
  BY <1>5 DEF Net!OnPing
<1>6. ASSUME Net!PingWrite PROVE Net!TypeOK'
  <2>1. CASE Net!Writable
    BY <1>6, <2>1, WriteType, SMTT(30) DEF Net!PingWrite
  <2>2. CASE ~Net!Writable
    BY <1>6, <2>2 DEF Net!PingWrite
  <2> QED
    BY <2>1, <2>2
<1>7. ASSUME Net!OnWrite PROVE Net!TypeOK'
  BY <1>7, WriteType, SMTT(30) DEF Net!OnWrite
<1>8. ASSUME Net!Accept PROVE Net!TypeOK'
  BY <1>8, Zenon DEF Net!Accept
<1>9. ASSUME Net!AcceptNil PROVE Net!TypeOK'
  BY <1>9 DEF Net!AcceptNil
<1>10. ASSUME Net!AcceptFails \/ Net!CloseListener PROVE Net!TypeOK'
  BY <1>10 DEF Net!AcceptFails, Net!CloseListener
<1>11. ASSUME NEW c \in Net!Conns, Net!ReadLine(c) PROVE Net!TypeOK'
  BY <1>11, SMTT(30) DEF Net!ReadLine, Net!ResetReadTimer
<1>12. ASSUME NEW c \in Net!Conns, Net!Processed(c) PROVE Net!TypeOK'
  BY <1>12 DEF Net!Processed
<1>13. ASSUME NEW c \in Net!Conns, Net!ReadTimesOut(c) PROVE Net!TypeOK'
  BY <1>13 DEF Net!ReadTimesOut
<1>14. ASSUME NEW c \in Net!Conns, Net!ReadFails(c) PROVE Net!TypeOK'
  BY <1>14 DEF Net!ReadFails
<1>15. ASSUME Net!Break PROVE Net!TypeOK'
  <2>1. lines' \in [Net!Conns -> Seq({"ping", "data"})]
    <3>1. lines' = [lines EXCEPT ![conn] = <<>>] /\ <<>> \in Seq({"ping", "data"})
      BY <1>15 DEF Net!Break
    <3> QED
      BY <3>1, Zenon
  <2>2. \A c \in Net!Conns : Len(lines'[c]) <= MaxLines
    BY <1>15, Net!TimingAssumption DEF Net!Break
  <2> QED
    BY <1>15, <2>1, <2>2 DEF Net!Break
<1>16. ASSUME Net!Tick PROVE Net!TypeOK'
  <2>1. /\ Heartbeat \in Nat /\ ReadTimeout \in Nat
        /\ heartbeat' = Net!Down(heartbeat)
        /\ readTimer' = [c \in Net!Conns |-> Net!Down(readTimer[c])]
    BY <1>16, Net!TimingAssumption DEF Net!Tick
  <2>2. ASSUME NEW k \in Nat, NEW n \in Net!Off..k PROVE Net!Down(n) \in Net!Off..k
    BY DEF Net!Down, Net!Off
  <2>3. heartbeat' \in Net!Off..Heartbeat /\ readTimer' \in [Net!Conns -> Net!Off..ReadTimeout]
    BY <2>1, <2>2, SMTT(30)
  <2>4. busy' \in [Net!Conns -> 0..Processing]
    BY <1>16, Net!TimingAssumption DEF Net!Tick
  <2> QED
    BY <1>16, <2>3, <2>4 DEF Net!Tick
<1>17. CASE UNCHANGED Net!vars
  BY <1>17 DEF Net!vars
<1> QED
  BY <1>1, <1>2, <1>3, <1>4, <1>5, <1>6, <1>7, <1>8, <1>9, <1>10, <1>11, <1>12, <1>13, <1>14,
     <1>15, <1>16, <1>17, Zenon DEF Net!Next, Net!Serve

\* The constants and the types that the arguments about time rest on.
LEMMA LinkNumbers ==
  ASSUME Net!TimingAssumption, Net!TypeOK
  PROVE  /\ Heartbeat \in Nat /\ ReadTimeout \in Nat /\ Processing \in Nat
         /\ 0 < Heartbeat /\ Heartbeat < ReadTimeout /\ Processing < ReadTimeout
         /\ heartbeat \in Int /\ -1 <= heartbeat /\ heartbeat <= Heartbeat
         /\ readTimer \in [Net!Conns -> Int] /\ busy \in [Net!Conns -> 0..Processing]
         /\ Net!Off = -1
BY Net!TimingAssumption DEF Net!TypeOK, Net!Off

\* No step gives a handler to a connection that is still to come.
LEMMA UnmadeStep ==
  ASSUME Net!TypeOK, Unmade, [Net!Next]_Net!vars
  PROVE  Unmade'
<1> USE DEF Unmade, Net!client, Net!network, Net!server
<1>0. conn \in Int /\ handler \in [Net!Conns -> {"none", "read", "process", "gone"}]
      /\ readTimer \in [Net!Conns -> Net!Off..ReadTimeout] /\ Net!Conns \subseteq Int
  BY DEF Net!TypeOK, Net!Conns
<1>1. CASE conn' = conn /\ handler' = handler /\ readTimer' = readTimer
  BY <1>1
<1>2. ASSUME Net!OnConnect PROVE Unmade'
  BY <1>0, <1>2 DEF Net!OnConnect, Net!Connected
<1>3. ASSUME Net!Accept PROVE Unmade'
  BY <1>0, <1>3 DEF Net!Accept
<1>4. ASSUME Net!AcceptNil PROVE Unmade'
  BY <1>0, <1>4 DEF Net!AcceptNil
<1>5. ASSUME NEW c \in Net!Conns, Net!ReadLine(c) PROVE Unmade'
  BY <1>0, <1>5 DEF Net!ReadLine, Net!ResetReadTimer
<1>6. ASSUME NEW c \in Net!Conns, Net!Processed(c) PROVE Unmade'
  BY <1>0, <1>6 DEF Net!Processed
<1>7. ASSUME NEW c \in Net!Conns, Net!ReadTimesOut(c) PROVE Unmade'
  BY <1>0, <1>7 DEF Net!ReadTimesOut
<1>8. ASSUME NEW c \in Net!Conns, Net!ReadFails(c) PROVE Unmade'
  BY <1>0, <1>8 DEF Net!ReadFails
<1>9. ASSUME Net!Tick PROVE Unmade'
  BY <1>0, <1>9 DEF Net!Tick, Net!Down, Net!Off
<1>10. ASSUME \/ Net!Sleep \/ Net!OnDisconnect \/ Net!Destroy \/ Net!OnPing \/ Net!PingWrite \/ Net!OnWrite
              \/ Net!AcceptFails \/ Net!CloseListener \/ Net!Break \/ UNCHANGED Net!vars
       PROVE  conn' = conn /\ handler' = handler /\ readTimer' = readTimer
  BY <1>10, Zenon DEF Net!Sleep, Net!OnDisconnect, Net!Destroy, Net!OnPing, Net!PingWrite, Net!OnWrite,
               Net!AcceptFails, Net!CloseListener, Net!Break, Net!vars
<1> QED
  BY <1>1, <1>2, <1>3, <1>4, <1>5, <1>6, <1>7, <1>8, <1>9, <1>10, Zenon DEF Net!Next, Net!Serve

\* A connection that is up stays fed, whatever step is taken.
LEMMA HealthyStep ==
  ASSUME Net!TimingAssumption, LinkInv, [Net!Next]_Net!vars, NEW c \in Net!Conns, link'[c] = "open"
  PROVE  Healthy(c)'
<1>0. /\ link \in [Net!Conns -> {"none", "open", "half", "reset", "closed"}]
      /\ handler \in [Net!Conns -> {"none", "read", "process", "gone"}]
      /\ conn \in 0..MaxConns
      /\ link[c] = "open" => Healthy(c)
  BY Zenon DEF LinkInv, Net!TypeOK
<1>n. /\ Heartbeat \in Nat /\ ReadTimeout \in Nat /\ Processing \in Nat
      /\ 0 < Heartbeat /\ Heartbeat < ReadTimeout /\ Processing < ReadTimeout
      /\ heartbeat \in Int /\ -1 <= heartbeat /\ heartbeat <= Heartbeat
      /\ readTimer \in [Net!Conns -> Int] /\ busy \in [Net!Conns -> 0..Processing]
      /\ Net!Off = -1
  BY LinkNumbers, Zenon DEF LinkInv
<1>c. c # 0 /\ conn + 1 # conn
  BY <1>0 DEF Net!Conns
<1>u. link[c] = "open" => c = conn
  BY <1>0, Zenon DEF Healthy
<1>s. ASSUME link[c] = "open",
             conn' = conn, disconnected' = disconnected, heartbeat' = heartbeat, ping' = ping,
             accept' = accept \/ accept # "spawn",
             handler'[c] = handler[c], readTimer'[c] = readTimer[c], lines'[c] = lines[c], busy'[c] = busy[c]
      PROVE  Healthy(c)'
  BY <1>0, <1>s, Zenon DEF Healthy, Fed
<1>1. ASSUME Net!OnConnect PROVE Healthy(c)'
  <2>1. CASE Net!Connected /\ accept' = "spawn"
    <3>1. /\ link' = [d \in Net!Conns |-> IF d = conn THEN "closed"
                                          ELSE IF d = conn + 1 THEN "open" ELSE link[d]]
          /\ conn' = conn + 1 /\ disconnected' = FALSE /\ heartbeat' = Heartbeat
          /\ handler' = handler /\ readTimer' = readTimer
      BY <1>1, <1>c, <2>1, Zenon DEF Net!OnConnect, Net!Connected
    <3>2. c = conn + 1
      BY <1>u, <3>1, Zenon
    <3>3. c > conn
      BY <1>0, <3>2
    <3>4. handler'[c] = "none" /\ readTimer'[c] = Net!Off
      BY <3>1, <3>3, Zenon DEF LinkInv, Unmade
    <3>5. heartbeat' >= 0
      BY <1>n, <3>1
    <3> QED
      BY <2>1, <3>1, <3>2, <3>4, <3>5, Zenon DEF Healthy
  <2>2. CASE Net!Close(conn)
    BY <1>0, <1>c, <1>u, <2>2, Zenon DEF Net!Close
  <2> QED
    BY <1>1, <2>1, <2>2, Zenon DEF Net!OnConnect
<1>2. ASSUME Net!Sleep \/ Net!Destroy \/ Net!AcceptFails \/ Net!CloseListener \/ UNCHANGED Net!vars
      PROVE  Healthy(c)'
  <2>1. UNCHANGED <<conn, disconnected, heartbeat, ping, link, lines, handler, readTimer, busy>>
    BY <1>2, Zenon DEF Net!Sleep, Net!Destroy, Net!AcceptFails, Net!CloseListener, Net!vars,
       Net!client, Net!network, Net!server
  <2>2. accept' = accept \/ accept # "spawn"
    BY <1>2 DEF Net!Sleep, Net!Destroy, Net!AcceptFails, Net!CloseListener, Net!vars, Net!server
  <2> QED
    BY <1>s, <2>1, <2>2, Zenon
<1>3. ASSUME Net!OnDisconnect PROVE Healthy(c)'
  BY <1>0, <1>3, <1>c, <1>u, Zenon DEF Net!OnDisconnect, Net!Close
<1>4. ASSUME Net!OnPing PROVE Healthy(c)'
  <2>1. /\ heartbeat' = Net!Off /\ ping' = IF disconnected THEN "idle" ELSE "write"
        /\ UNCHANGED <<conn, disconnected, link, lines, accept, handler, readTimer, busy>>
    BY <1>4, Zenon DEF Net!OnPing, Net!network, Net!server
  <2>2. Healthy(c)
    BY <1>0, <2>1, Zenon
  <2>3. Fed(c) => Fed(c)'
    BY <1>n, <2>1 DEF Fed
  <2> QED
    BY <2>1, <2>2, <2>3, Zenon DEF Healthy
<1>5. ASSUME Net!PingWrite PROVE Healthy(c)'
  <2>1. link[c] = "open" /\ c = conn
    <3>1. link' = link \/ link' = [link EXCEPT ![conn] = "reset"]
      BY <1>5, Zenon DEF Net!PingWrite, Net!Write
    <3> QED
      BY <1>0, <1>u, <3>1
  <2>2. Net!Writable /\ Net!Write("ping") /\ heartbeat' = Heartbeat /\ disconnected' = disconnected
    BY <1>5, <2>1, Zenon DEF Net!PingWrite, Net!Writable
  <2>3. lines'[c] # <<>>
    BY <2>1, <2>2, WriteFills, Zenon DEF LinkInv
  <2>4. handler' = handler /\ readTimer' = readTimer /\ accept' = accept /\ busy' = busy /\ conn' = conn
    BY <1>5, Zenon DEF Net!PingWrite, Net!server
  <2>5. heartbeat' >= 0
    BY <1>n, <2>2
  <2> QED
    BY <1>0, <2>1, <2>2, <2>3, <2>4, <2>5, Zenon DEF Healthy, Fed
<1>6. ASSUME Net!OnWrite PROVE Healthy(c)'
  <2>1. link[c] = "open" /\ c = conn
    <3>1. link' = link \/ link' = [link EXCEPT ![conn] = "reset"]
      BY <1>6, Zenon DEF Net!OnWrite, Net!Write
    <3> QED
      BY <1>0, <1>u, <3>1
  <2>2. Net!Write("data") /\ heartbeat' = Heartbeat /\ disconnected' = disconnected
    BY <1>6, Zenon DEF Net!OnWrite
  <2>3. lines'[c] # <<>>
    BY <2>1, <2>2, WriteFills, Zenon DEF LinkInv
  <2>4. handler' = handler /\ readTimer' = readTimer /\ accept' = accept /\ busy' = busy /\ conn' = conn
    BY <1>6, Zenon DEF Net!OnWrite, Net!server
  <2>5. heartbeat' >= 0
    BY <1>n, <2>2
  <2> QED
    BY <1>0, <2>1, <2>2, <2>3, <2>4, <2>5, Zenon DEF Healthy, Fed
<1>7. ASSUME Net!Accept PROVE Healthy(c)'
  <2>1. /\ handler' = [handler EXCEPT ![conn] = "read"]
        /\ readTimer' = [readTimer EXCEPT ![conn] = ReadTimeout]
        /\ UNCHANGED <<conn, disconnected, heartbeat, ping, link, lines>>
    BY <1>7, Zenon DEF Net!Accept, Net!client, Net!network
  <2>2. Healthy(c) /\ c = conn
    BY <1>0, <1>u, <2>1, Zenon
  <2>3. handler'[c] = "read" /\ readTimer'[c] = ReadTimeout
    BY <1>0, <1>n, <2>1, <2>2, Zenon
  <2>4. Fed(c)' /\ ReadTimeout > 0
    BY <1>n, <2>1, <2>3 DEF Fed
  <2> QED
    BY <2>1, <2>2, <2>3, <2>4, Zenon DEF Healthy
<1>8. ASSUME Net!AcceptNil PROVE Healthy(c)'
  <2>1. link' = [d \in Net!Conns |-> IF link[d] = "open" THEN "half" ELSE link[d]]
    BY <1>8, Zenon DEF Net!AcceptNil
  <2> QED
    BY <2>1
<1>9. ASSUME NEW d \in Net!Conns, Net!ReadLine(d) PROVE Healthy(c)'
  <2>1. /\ handler[d] = "read" /\ lines' = [lines EXCEPT ![d] = Tail(@)]
        /\ readTimer' = [readTimer EXCEPT ![d] = ReadTimeout]
        /\ handler' = [handler EXCEPT ![d] = "read"] \/ handler' = [handler EXCEPT ![d] = "process"]
        /\ UNCHANGED <<conn, disconnected, heartbeat, ping, link, accept, busy>>
    BY <1>9, Zenon DEF Net!ReadLine, Net!ResetReadTimer, Net!client
  <2>2. Healthy(c) /\ link[c] = "open"
    BY <1>0, <2>1, Zenon
  <2>3. CASE d = c
    <3>1. readTimer'[c] = ReadTimeout /\ handler'[c] \in {"read", "process"}
      BY <1>0, <1>n, <2>1, <2>3, Zenon
    <3>2. /\ Fed(c)' /\ ReadTimeout > 0 /\ ReadTimeout >= ReadTimeout - busy[c]
      BY <1>n, <2>1, <3>1 DEF Fed
    <3> QED
      BY <2>1, <2>2, <3>1, <3>2, Zenon DEF Healthy
  <2>4. CASE d # c
    <3>1. lines'[c] = lines[c]
      BY <2>1, <2>4, Zenon DEF LinkInv, Net!TypeOK
    <3> QED
      BY <1>0, <1>n, <1>s, <2>1, <2>2, <2>4, <3>1, Zenon
  <2> QED
    BY <2>3, <2>4, Zenon
<1>10. ASSUME NEW d \in Net!Conns, Net!Processed(d) PROVE Healthy(c)'
  <2>1. /\ handler[d] = "process" /\ handler' = [handler EXCEPT ![d] = "read"]
        /\ busy' = [busy EXCEPT ![d] = 0]
        /\ UNCHANGED <<conn, disconnected, heartbeat, ping, link, lines, accept, readTimer>>
    BY <1>10, Zenon DEF Net!Processed, Net!client, Net!network
  <2>2. Healthy(c) /\ link[c] = "open"
    BY <1>0, <2>1, Zenon
  <2>3. CASE d = c
    <3>1. readTimer[c] >= ReadTimeout - busy[c] /\ Fed(c) /\ handler'[c] = "read"
      BY <1>0, <2>1, <2>2, <2>3 DEF Healthy
    <3>2. readTimer[c] > 0
      BY <1>n, <3>1
    <3>3. Fed(c)'
      BY <2>1, <3>1, Zenon DEF Fed
    <3> QED
      BY <2>1, <2>2, <3>1, <3>2, <3>3, Zenon DEF Healthy
  <2>4. CASE d # c
    BY <1>0, <1>n, <1>s, <2>1, <2>2, <2>4, Zenon
  <2> QED
    BY <2>3, <2>4, Zenon
<1>11. ASSUME NEW d \in Net!Conns, Net!ReadTimesOut(d) \/ Net!ReadFails(d) PROVE Healthy(c)'
  <2>1. /\ link' = [link EXCEPT ![d] = IF @ = "open" THEN "half" ELSE @]
        /\ readTimer' = [readTimer EXCEPT ![d] = Net!Off]
        /\ handler' = handler \/ handler' = [handler EXCEPT ![d] = "gone"]
        /\ UNCHANGED <<conn, disconnected, heartbeat, ping, lines, accept, busy>>
    BY <1>11, Zenon DEF Net!ReadTimesOut, Net!ReadFails, Net!client
  <2>2. d # c /\ link[c] = "open"
    BY <1>0, <2>1, Zenon
  <2> QED
    BY <1>0, <1>n, <1>s, <2>1, <2>2, Zenon
<1>12. ASSUME Net!Break PROVE Healthy(c)'
  <2>1. link' = [link EXCEPT ![conn] = "half"]
    BY <1>12, Zenon DEF Net!Break
  <2> QED
    BY <1>0, <1>u, <2>1
<1>13. ASSUME Net!Tick PROVE Healthy(c)'
  <2>1. /\ heartbeat # 0 /\ ping = "idle" /\ accept # "spawn"
        /\ handler[c] = "process" => busy[c] < Processing
        /\ handler[c] = "read" => lines[c] = <<>>
        /\ readTimer[c] # 0
        /\ heartbeat' = Net!Down(heartbeat)
        /\ readTimer' = [d \in Net!Conns |-> Net!Down(readTimer[d])]
        /\ busy' = [d \in Net!Conns |-> IF handler[d] = "process" THEN busy[d] + 1 ELSE 0]
        /\ UNCHANGED <<conn, disconnected, ping, link, lines, accept, handler>>
    BY <1>13, Zenon DEF Net!Tick, Net!network
  <2>2. /\ readTimer'[c] = Net!Down(readTimer[c])
        /\ busy'[c] = IF handler[c] = "process" THEN busy[c] + 1 ELSE 0
    BY <2>1, Zenon
  <2>3. Healthy(c)
    BY <1>0, <2>1, Zenon
  <2>4. /\ c = conn /\ ~disconnected /\ heartbeat >= 0 /\ Fed(c)
        /\ \/ handler[c] = "read" /\ readTimer[c] > 0
           \/ handler[c] = "process" /\ readTimer[c] >= ReadTimeout - busy[c]
    BY <2>1, <2>3, Zenon DEF Healthy
  <2>5. /\ readTimer[c] \in Int /\ busy[c] \in 0..Processing
    BY <1>n, Zenon
  <2>6. heartbeat > 0 /\ heartbeat' = heartbeat - 1
    BY <1>n, <2>1, <2>4 DEF Net!Down
  <2>7. readTimer[c] > 0 /\ readTimer'[c] = readTimer[c] - 1
    BY <1>n, <2>2, <2>4, <2>5 DEF Net!Down
  <2>8. Fed(c)'
    BY <1>n, <2>1, <2>4, <2>5, <2>6, <2>7 DEF Fed
  <2>9. CASE handler[c] = "read"
    <3>1. readTimer'[c] > 0 /\ heartbeat' >= 0
      BY <1>n, <2>1, <2>4, <2>5, <2>6, <2>7, <2>9 DEF Fed
    <3> QED
      BY <2>1, <2>4, <2>8, <2>9, <3>1, Zenon DEF Healthy
  <2>10. CASE handler[c] = "process"
    <3>1. readTimer'[c] >= ReadTimeout - busy'[c] /\ heartbeat' >= 0
      BY <1>n, <2>2, <2>4, <2>5, <2>6, <2>7, <2>10
    <3> QED
      BY <2>1, <2>4, <2>8, <2>10, <3>1, Zenon DEF Healthy
  <2> QED
    BY <2>4, <2>9, <2>10, Zenon
<1> QED
  BY <1>1, <1>2, <1>3, <1>4, <1>5, <1>6, <1>7, <1>8, <1>9, <1>10, <1>11, <1>12, <1>13, Zenon
  DEF Net!Next, Net!Serve

(***************************************************************************)
(* A connection that is up at both ends has not run out of time at the     *)
(* server (ClientHandler, onPing), for every heartbeat and processing time *)
(* below the time limit, and any number of connections and lines.          *)
(***************************************************************************)
THEOREM HealthyClientStays ==
  ASSUME Net!TimingAssumption
  PROVE  Net!Spec => []Net!HealthyStays
<1>1. Net!Init => LinkInv
  <2> SUFFICES ASSUME Net!Init PROVE LinkInv
    BY Zenon
  <2> USE DEF Net!Init
  <2>1. /\ conn \in 0..MaxConns /\ heartbeat \in Net!Off..Heartbeat
        /\ readTimer \in [Net!Conns -> Net!Off..ReadTimeout] /\ busy \in [Net!Conns -> 0..Processing]
    BY Net!TimingAssumption DEF Net!Off
  <2>2. lines \in [Net!Conns -> Seq({"ping", "data"})] /\ \A c \in Net!Conns : Len(lines[c]) <= MaxLines
    BY Net!TimingAssumption
  <2>3. Net!TypeOK
    BY <2>1, <2>2, Zenon DEF Net!TypeOK
  <2> QED
    BY <2>3, Zenon DEF LinkInv, Unmade
<1>2. LinkInv /\ [Net!Next]_Net!vars => LinkInv'
  BY LinkType, UnmadeStep, HealthyStep DEF LinkInv
<1>3. LinkInv => Net!HealthyStays
  BY LinkNumbers DEF LinkInv, Healthy, Net!HealthyStays
<1> QED
  BY <1>1, <1>2, <1>3, PTL DEF Net!Spec
=============================================================================
