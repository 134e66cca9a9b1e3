-------------------------- MODULE ServerProofs --------------------------
(***************************************************************************)
(* Proofs about Server: the plugins are whole, the pool hands out live     *)
(* engines, and what is saved is what runs, also after a restart.          *)
(***************************************************************************)
EXTENDS Server, TLAPS

Places == {"idle", "load", "reload", "make", "store", "open", "write", "range", "stop", "delete",
           "register", "record", "push", "sort"}

\* A worker's record.
CallRec ==
  [pc : Places, id : Ids \cup DebugNodes \cup {None}, body : Bodies \cup Plugins \cup {None},
   eng : Nat \cup {None}, todo : Seq(Ids \cup Components)]

\* The other workers stay as they are.
Stay(w) == worker' \in [Workers -> CallRec] /\ \A v \in Workers \ {w} : worker'[v] = worker[v]

\* The worker goes on with its call.
GoesOn(w) ==
  /\ worker'[w].id = worker[w].id /\ worker'[w].body = worker[w].body
  /\ worker'[w].eng = worker[w].eng /\ worker'[w].todo = worker[w].todo
-----------------------------------------------------------------------------
\* A worker without a call.
LEMMA IdleRec ==
  /\ Idle \in CallRec
  /\ Idle.pc = "idle" /\ Idle.id = None /\ Idle.body = None /\ Idle.eng = None /\ Idle.todo = <<>>
BY DEF Idle, CallRec, Places

\* Goto moves one worker on and leaves its call as it is.
LEMMA GotoStep ==
  ASSUME worker \in [Workers -> CallRec], NEW w \in Workers, NEW l \in Places, Goto(w, l)
  PROVE  Stay(w) /\ GoesOn(w) /\ worker'[w].pc = l
<1>1. worker' = [worker EXCEPT ![w] = [worker[w] EXCEPT !.pc = l]]
  BY Zenon DEF Goto
<1>2. [worker[w] EXCEPT !.pc = l] \in CallRec
  BY Zenon DEF CallRec
<1> QED
  BY <1>1, <1>2 DEF Stay, GoesOn, CallRec

\* One worker's record is replaced.
LEMMA PutStep ==
  ASSUME worker \in [Workers -> CallRec], NEW w \in Workers, NEW r \in CallRec,
         worker' = [worker EXCEPT ![w] = r]
  PROVE  Stay(w) /\ worker'[w] = r
BY Zenon DEF Stay

\* Done ends the call of one worker.
LEMMA DoneStep ==
  ASSUME worker \in [Workers -> CallRec], NEW w \in Workers, Done(w)
  PROVE  Stay(w) /\ worker'[w] = Idle
<1>1. worker' = [worker EXCEPT ![w] = Idle]
  BY Zenon DEF Done
<1> QED
  BY <1>1, IdleRec, PutStep, Zenon

\* A call begins on an idle worker of a server that is up.
LEMMA CallStep ==
  ASSUME worker \in [Workers -> CallRec], NEW w \in Workers, NEW what, NEW rec \in CallRec, Call(w, what, rec)
  PROVE  /\ Stay(w) /\ worker'[w] = rec
         /\ server = "up" /\ traffic = what /\ worker[w].pc = "idle"
<1>1. worker' = [worker EXCEPT ![w] = rec] /\ server = "up" /\ traffic = what /\ worker[w].pc = "idle"
  BY Zenon DEF Call
<1> QED
  BY <1>1, PutStep, Zenon

\* What a worker that is at a place has.
Proper(r, m) ==
  /\ r.pc \in {"load", "reload", "make", "store", "open", "write", "stop", "delete"} => r.id \in Ids
  /\ r.pc \in {"load", "reload", "make", "store", "open", "write"} => r.body \in Bodies
  /\ r.pc \in {"reload", "store", "stop", "delete"} => r.eng \in 1..m
  /\ r.pc \in {"range", "stop", "delete"} => r.todo \in Seq(Ids)
  /\ r.pc = "register" => r.body \in Plugins /\ r.todo \in Seq(Components)

PoolType ==
  /\ made \in 0..MaxEngines
  /\ ruleEngines \in [Ids -> 1..made \cup {None}]
  /\ engine \in [1..MaxEngines -> [dsl : Bodies \cup {None}, live : BOOLEAN]]

Types ==
  /\ worker \in [Workers -> CallRec] /\ \A w \in Workers : Proper(worker[w], made)
  /\ PoolType
  /\ files \in [Ids -> Bodies \cup {None, Torn}]
  /\ boot \in [plugins : Seq(Plugins), files : Seq(Ids)]
  /\ records \in Nat
-----------------------------------------------------------------------------
\* What the proofs use of the constants.
LEMMA Constants ==
  /\ None \notin Nat /\ None \notin Ids /\ None \notin Bodies /\ Torn \notin Bodies
  /\ Inner \in [Bodies -> Ids \cup {None}] /\ \A b \in NodeBodies : Inner[b] = None
  /\ NodeBodies \subseteq Bodies
  /\ MaxEngines \in Nat
  /\ \A p \in Plugins : Provides[p] \in Seq(Range(Provides[p]))
BY ServerAssumption, Zenon

\* What the pool has under an id: an engine that was made, or nothing.
LEMMA PoolOf ==
  ASSUME PoolType, NEW id \in Ids
  PROVE  ruleEngines[id] \in 1..made \cup {None} /\ ruleEngines[id] \in Nat \cup {None}
BY DEF PoolType

\* The components of a plugin are components.
LEMMA PluginSeq ==
  ASSUME NEW p \in Plugins PROVE Provides[p] \in Seq(Components)
<1>1. Provides[p] \in Seq(Range(Provides[p])) /\ Range(Provides[p]) \subseteq Components
  BY Constants, Zenon DEF Components
<1>2. ASSUME NEW S, NEW T, S \subseteq T, NEW s \in Seq(S) PROVE s \in Seq(T)
  BY <1>2
<1> QED
  BY <1>1, <1>2

\* saveDsl begins: reload when Get finds an engine, New when it does not.
LEMMA SaveStep ==
  ASSUME Types, NEW w \in Workers, NEW id \in Ids, NEW b \in Bodies, Save(w, id, b)
  PROVE  /\ Stay(w) /\ worker[w].pc = "idle" /\ server = "up" /\ traffic = "rules"
         /\ ruleEngines[id] = None => worker'[w].pc = "load"
         /\ ruleEngines[id] # None => worker'[w].pc = "reload"
         /\ worker'[w].id = id /\ worker'[w].body = b /\ worker'[w].eng = ruleEngines[id]
         /\ worker'[w].todo = <<>>
         /\ UNCHANGED <<others, pool, files>>
<1> DEFINE l == IF ruleEngines[id] = None THEN "load" ELSE "reload"
           rec == [Idle EXCEPT !.id = id, !.body = b, !.eng = ruleEngines[id], !.pc = l]
<1>1. Call(w, "rules", rec)
  BY Zenon DEF Save, Get
<1>0. l \in Places /\ ruleEngines[id] \in Nat \cup {None}
  BY PoolOf DEF Places, Types
<1> HIDE DEF l
<1>2. /\ rec \in CallRec
      /\ rec.pc = l /\ rec.id = id /\ rec.body = b /\ rec.eng = ruleEngines[id] /\ rec.todo = <<>>
  BY <1>0, IdleRec, Zenon DEF CallRec
<1> HIDE DEF rec
<1>3. Stay(w) /\ worker'[w] = rec /\ worker[w].pc = "idle" /\ server = "up" /\ traffic = "rules"
  BY <1>1, <1>2, CallStep, Zenon DEF Types
<1>4. UNCHANGED <<others, pool, files>>
  BY Zenon DEF Save
<1> QED
  BY <1>2, <1>3, <1>4, Zenon DEF l

\* Del begins with the engine that Load found.
LEMMA DelStep ==
  ASSUME Types, NEW w \in Workers, NEW id \in Ids, Del(w, id)
  PROVE  /\ Stay(w) /\ worker[w].pc = "idle" /\ server = "up" /\ traffic = "rules"
         /\ worker'[w].pc = "stop" /\ worker'[w].id = id /\ worker'[w].body = None
         /\ worker'[w].eng = ruleEngines[id] /\ worker'[w].todo = <<>> /\ ruleEngines[id] # None
         /\ UNCHANGED <<others, pool, files>>
<1> DEFINE rec == [Idle EXCEPT !.id = id, !.eng = ruleEngines[id], !.pc = "stop"]
<1>1. Call(w, "rules", rec)
  BY Zenon DEF Del
<1>0. ruleEngines[id] \in Nat \cup {None}
  BY PoolOf DEF Types
<1>2. /\ rec \in CallRec
      /\ rec.pc = "stop" /\ rec.id = id /\ rec.body = None /\ rec.eng = ruleEngines[id] /\ rec.todo = <<>>
  BY <1>0, IdleRec, Zenon DEF CallRec, Places
<1> HIDE DEF rec
<1>3. Stay(w) /\ worker'[w] = rec /\ worker[w].pc = "idle" /\ server = "up" /\ traffic = "rules"
  BY <1>1, <1>2, CallStep, Zenon DEF Types
<1>4. UNCHANGED <<others, pool, files>> /\ ruleEngines[id] # None
  BY Zenon DEF Del
<1> QED
  BY <1>2, <1>3, <1>4, Zenon

\* Stop begins with the ids that Range visits.
LEMMA StopAllStep ==
  ASSUME Types, NEW w \in Workers, StopAll(w)
  PROVE  /\ Stay(w) /\ worker[w].pc = "idle" /\ server = "up" /\ traffic = "rules"
         /\ worker'[w].pc = "range" /\ worker'[w].id = None /\ worker'[w].body = None
         /\ worker'[w].eng = None /\ worker'[w].todo \in Seq(Ids)
         /\ sound' = {} /\ UNCHANGED <<others, pool, files>>
<1>1. PICK order \in Injection(1..Cardinality(Ids), Ids) : Call(w, "rules", [Idle EXCEPT !.pc = "range", !.todo = order])
  BY Zenon DEF StopAll
<1> DEFINE rec == [Idle EXCEPT !.pc = "range", !.todo = order]
<1>2. order \in Seq(Ids)
  <2>1. Cardinality(Ids) \in Nat
    BY ServerAssumption, Zenon
  <2>2. order \in [1..Cardinality(Ids) -> Ids]
    BY Zenon DEF Injection
  <2> QED
    BY <2>1, <2>2
<1>3. order \in Seq(Ids \cup Components)
  BY <1>2
<1>4. /\ rec \in CallRec
      /\ rec.pc = "range" /\ rec.id = None /\ rec.body = None /\ rec.eng = None /\ rec.todo = order
  BY <1>3, IdleRec, Zenon DEF CallRec, Places
<1> HIDE DEF rec
<1>5. Stay(w) /\ worker'[w] = rec /\ worker[w].pc = "idle" /\ server = "up" /\ traffic = "rules"
  BY <1>1, <1>4, CallStep, Zenon DEF Types, rec
<1>6. sound' = {} /\ UNCHANGED <<others, pool, files>>
  BY Zenon DEF StopAll
<1> QED
  BY <1>2, <1>4, <1>5, <1>6, Zenon

\* A worker moves on to the next engine of its listing.
LEMMA MoveStep ==
  ASSUME worker \in [Workers -> CallRec], NEW w \in Workers, NEW id \in Ids, NEW l \in Places,
         NEW e \in Nat \cup {None}, NEW s \in Seq(Ids \cup Components),
         worker' = [worker EXCEPT ![w].id = id, ![w].todo = s, ![w].eng = e, ![w].pc = l]
  PROVE  /\ Stay(w) /\ worker'[w].pc = l /\ worker'[w].id = id /\ worker'[w].eng = e
         /\ worker'[w].todo = s /\ worker'[w].body = worker[w].body
<1>1. worker' = [worker EXCEPT ![w] = [worker[w] EXCEPT !.id = id, !.todo = s, !.eng = e, !.pc = l]]
  BY Zenon
<1>2. PICK r : r = [worker[w] EXCEPT !.id = id, !.todo = s, !.eng = e, !.pc = l]
  BY Zenon
<1>3. r \in CallRec /\ r.pc = l /\ r.id = id /\ r.eng = e /\ r.todo = s /\ r.body = worker[w].body
  BY <1>2, Zenon DEF CallRec
<1>4. worker' = [worker EXCEPT ![w] = r]
  BY <1>1, <1>2, Zenon
<1>5. Stay(w) /\ worker'[w] = r
  BY <1>3, <1>4, PutStep, Zenon
<1> QED
  BY <1>3, <1>5, Zenon

\* Stop goes on to the next engine, or is done.
LEMMA RangeStep ==
  ASSUME Types, NEW w \in Workers, RangeNext(w)
  PROVE  /\ Stay(w) /\ worker[w].pc = "range"
         /\ \/ worker'[w] = Idle
            \/ \E id \in Ids :
                 /\ worker[w].todo # <<>> /\ id = Head(worker[w].todo) /\ worker'[w].todo = Tail(worker[w].todo)
                 /\ worker'[w].pc = IF ruleEngines[id] = None THEN "range" ELSE "stop"
                 /\ worker'[w].id = id /\ worker'[w].body = worker[w].body /\ worker'[w].eng = ruleEngines[id]
         /\ UNCHANGED <<others, pool, files, calls, sound>>
<1>1. worker[w].pc = "range" /\ UNCHANGED <<others, pool, files, calls, sound>>
  BY Zenon DEF RangeNext
<1>2. CASE worker[w].todo = <<>>
  BY <1>1, <1>2, DoneStep, Zenon DEF RangeNext, Types
<1>3. CASE worker[w].todo # <<>>
  <2> DEFINE id == Head(worker[w].todo)
             rest == Tail(worker[w].todo)
             l == IF ruleEngines[id] = None THEN "range" ELSE "stop"
  <2>1. worker[w].todo \in Seq(Ids) /\ worker[w] \in CallRec
    BY <1>1, Zenon DEF Types, Proper
  <2>2. id \in Ids /\ rest \in Seq(Ids)
    BY <1>3, <2>1
  <2>3. rest \in Seq(Ids \cup Components) /\ l \in Places
    BY <2>2 DEF Places
  <2>4. ruleEngines[id] \in Nat \cup {None}
    BY <2>2, PoolOf, Zenon DEF Types
  <2>5. worker' = [worker EXCEPT ![w].id = id, ![w].todo = rest, ![w].eng = ruleEngines[id], ![w].pc = l]
    BY <1>3, Zenon DEF RangeNext
  <2> HIDE DEF id, rest, l
  <2>6. /\ Stay(w) /\ worker'[w].pc = l /\ worker'[w].id = id /\ worker'[w].eng = ruleEngines[id]
        /\ worker'[w].todo = rest /\ worker'[w].body = worker[w].body
    BY <2>2, <2>3, <2>4, <2>5, MoveStep, Zenon DEF Types
  <2> QED
    BY <1>1, <1>3, <2>2, <2>6, Zenon DEF id, rest, l
<1> QED
  BY <1>2, <1>3, Zenon

\* Del takes the id out of the pool.
LEMMA DeleteStep ==
  ASSUME Types, NEW w \in Workers, Delete(w)
  PROVE  /\ Stay(w) /\ worker[w].pc = "delete"
         /\ worker'[w].pc = IF worker[w].todo = <<>> THEN "idle" ELSE "range"
         /\ worker'[w].id = None /\ worker'[w].eng = None
         /\ worker'[w].body = worker[w].body /\ worker'[w].todo = worker[w].todo
         /\ ruleEngines' = [ruleEngines EXCEPT ![worker[w].id] = None]
         /\ UNCHANGED <<others, engine, made, files, calls, sound>>
<1> DEFINE l == IF worker[w].todo = <<>> THEN "idle" ELSE "range"
           rec == [worker[w] EXCEPT !.pc = l, !.id = None, !.eng = None]
<1>1. /\ worker[w].pc = "delete" /\ UNCHANGED <<others, engine, made, files, calls, sound>>
      /\ ruleEngines' = [ruleEngines EXCEPT ![worker[w].id] = None]
      /\ worker' = [worker EXCEPT ![w].pc = l, ![w].id = None, ![w].eng = None]
  BY Zenon DEF Delete
<1>2. l \in Places /\ worker[w] \in CallRec
  BY DEF Places, Types
<1> HIDE DEF l
<1>3. worker' = [worker EXCEPT ![w] = rec]
  BY <1>1, Zenon
<1>4. /\ rec \in CallRec /\ rec.pc = l /\ rec.id = None /\ rec.eng = None /\ rec.todo = worker[w].todo
      /\ rec.body = worker[w].body
  BY <1>2, Zenon DEF CallRec
<1> HIDE DEF rec
<1>5. Stay(w) /\ worker'[w] = rec
  BY <1>3, <1>4, PutStep, Zenon DEF Types
<1> QED
  BY <1>1, <1>4, <1>5, Zenon DEF l

\* New makes an engine when the text decodes, and goes on to save it when not.
LEMMA MakeStep ==
  ASSUME Types, NEW w \in Workers, NewMake(w)
  PROVE  /\ Stay(w) /\ worker[w].pc = "make"
         /\ worker'[w].id = worker[w].id /\ worker'[w].body = worker[w].body
         /\ worker'[w].todo = worker[w].todo
         /\ \/ /\ made < MaxEngines /\ made' = made + 1 /\ worker'[w].pc = "store"
               /\ worker'[w].eng = made + 1
               /\ engine' = [engine EXCEPT ![made + 1] = [dsl |-> worker[w].body, live |-> TRUE]]
            \/ /\ worker'[w].pc = "open" /\ worker'[w].eng = worker[w].eng /\ UNCHANGED <<engine, made>>
               /\ MayFailAsChain(worker[w].body)
         /\ UNCHANGED <<others, ruleEngines, files, calls, sound>>
<1>1. worker[w].pc = "make" /\ UNCHANGED <<others, ruleEngines, files, calls, sound>>
  BY Zenon DEF NewMake
<1>2. CASE /\ NewEngine(made + 1, worker[w].body)
           /\ worker' = [worker EXCEPT ![w].pc = "store", ![w].eng = made + 1]
  <2> DEFINE rec == [worker[w] EXCEPT !.pc = "store", !.eng = made + 1]
  <2>1. /\ made < MaxEngines /\ made' = made + 1
        /\ engine' = [engine EXCEPT ![made + 1] = [dsl |-> worker[w].body, live |-> TRUE]]
        /\ worker' = [worker EXCEPT ![w].pc = "store", ![w].eng = made + 1]
    BY <1>2, Zenon DEF NewEngine
  <2>2. made + 1 \in Nat /\ worker[w] \in CallRec
    BY DEF Types, PoolType
  <2>3. worker' = [worker EXCEPT ![w] = rec]
    BY <2>1, Zenon
  <2>4. /\ rec \in CallRec /\ rec.pc = "store" /\ rec.eng = made + 1 /\ rec.todo = worker[w].todo
        /\ rec.body = worker[w].body /\ rec.id = worker[w].id
    BY <2>2, Zenon DEF CallRec, Places
  <2> HIDE DEF rec
  <2>5. Stay(w) /\ worker'[w] = rec
    BY <2>3, <2>4, PutStep, Zenon DEF Types
  <2> QED
    BY <1>1, <1>2, <2>1, <2>4, <2>5, Zenon
<1>3. CASE MayFailAsChain(worker[w].body) /\ Goto(w, "open") /\ UNCHANGED <<engine, made>>
  BY <1>1, <1>3, GotoStep, Zenon DEF Types, GoesOn, Places
<1> QED
  BY <1>2, <1>3, Zenon DEF NewMake

\* RegisterPlugin checks that the components are new, and begins.
LEMMA RegisterPluginStep ==
  ASSUME Types, NEW w \in Workers, NEW p \in Plugins, RegisterPlugin(w, p)
  PROVE  /\ Stay(w) /\ worker[w].pc = "idle" /\ server = "up" /\ traffic = "plugins"
         /\ \/ worker'[w] = Idle
            \/ /\ Fits(p) /\ worker'[w].pc = "register" /\ worker'[w].body = p
               /\ worker'[w].todo = Provides[p]
         /\ UNCHANGED <<rules, registry>>
<1> DEFINE r == [Idle EXCEPT !.body = p, !.todo = Provides[p], !.pc = "register"]
           rec == IF Fits(p) THEN r ELSE Idle
<1>1. Call(w, "plugins", rec) /\ UNCHANGED <<rules, registry>>
  BY Zenon DEF RegisterPlugin
<1>2. Provides[p] \in Seq(Ids \cup Components)
  BY PluginSeq
<1>3. r \in CallRec /\ r.pc = "register" /\ r.body = p /\ r.todo = Provides[p]
  BY <1>2, IdleRec, Zenon DEF CallRec, Places
<1> HIDE DEF r
<1>4. rec \in CallRec
  BY <1>3, IdleRec, Zenon
<1>5. Stay(w) /\ worker'[w] = rec /\ worker[w].pc = "idle" /\ server = "up" /\ traffic = "plugins"
  <2> HIDE DEF rec
  <2> QED
    BY <1>1, <1>4, CallStep, Zenon DEF Types
<1> QED
  BY <1>1, <1>3, <1>5, Zenon

\* RegisterPlugin registers one component, or records the plugin.
LEMMA RegisterStep ==
  ASSUME Types, NEW w \in Workers, Register(w)
  PROVE  /\ Stay(w) /\ worker[w].pc = "register"
         /\ \/ /\ worker[w].todo = <<>> /\ worker'[w] = Idle
               /\ plugins' = plugins \cup {worker[w].body} /\ components' = components
            \/ /\ worker[w].todo # <<>> /\ worker'[w].pc = "register" /\ worker'[w].body = worker[w].body
               /\ worker'[w].todo = Tail(worker[w].todo) /\ Head(worker[w].todo) \notin components
               /\ components' = components \cup {Head(worker[w].todo)} /\ plugins' = plugins
            \/ worker'[w] = Idle /\ components' = components /\ plugins' = plugins
         /\ UNCHANGED <<rules, calls, parted>>
<1>1. worker[w].pc = "register" /\ UNCHANGED <<rules, calls, parted>>
  BY Zenon DEF Register
<1>2. CASE worker[w].todo = <<>>
  <2>1. plugins' = plugins \cup {worker[w].body} /\ components' = components /\ Done(w)
    BY <1>2, Zenon DEF Register
  <2> QED
    BY <1>1, <1>2, <2>1, DoneStep, Zenon DEF Types
<1>3. CASE worker[w].todo # <<>> /\ Head(worker[w].todo) \in components
  <2>1. components' = components \cup {Head(worker[w].todo)} /\ plugins' = plugins /\ Done(w)
    BY <1>3, Zenon DEF Register, Registers
  <2>2. components' = components
    BY <1>3, <2>1
  <2> QED
    BY <1>1, <2>1, <2>2, DoneStep, Zenon DEF Types
<1>4. CASE worker[w].todo # <<>> /\ Head(worker[w].todo) \notin components
  <2>1. /\ components' = components \cup {Head(worker[w].todo)} /\ plugins' = plugins
        /\ worker' = [worker EXCEPT ![w].todo = Tail(worker[w].todo)]
    BY <1>4, Zenon DEF Register, Registers
  <2>2. worker[w] \in CallRec /\ worker[w].todo \in Seq(Components)
    BY <1>1, Zenon DEF Types, Proper
  <2>3. Tail(worker[w].todo) \in Seq(Ids \cup Components)
    BY <1>4, <2>2
  <2>4. PICK r : r = [worker[w] EXCEPT !.todo = Tail(worker[w].todo)]
    BY Zenon
  <2>5. r \in CallRec /\ r.pc = worker[w].pc /\ r.body = worker[w].body /\ r.todo = Tail(worker[w].todo)
    BY <2>2, <2>3, <2>4, Zenon DEF CallRec
  <2>6. worker' = [worker EXCEPT ![w] = r]
    BY <2>1, <2>4, Zenon
  <2>7. Stay(w) /\ worker'[w] = r
    BY <2>5, <2>6, PutStep, Zenon DEF Types
  <2> QED
    BY <1>1, <1>4, <2>1, <2>5, <2>7, Zenon
<1> QED
  BY <1>2, <1>3, <1>4, Zenon

\* Unregister takes out a component, or those of a plugin.
LEMMA UnregisterStep ==
  ASSUME Types, NEW w \in Workers, NEW x, Unregister(w, x)
  PROVE  /\ Stay(w) /\ worker'[w] = Idle /\ worker[w].pc = "idle" /\ server = "up" /\ traffic = "plugins"
         /\ components' = components \ (IF x \in plugins THEN Range(Provides[x]) ELSE {x})
         /\ plugins' = plugins \ {x} /\ parted' = (parted \/ x \in components)
         /\ UNCHANGED rules
<1>1. /\ Call(w, "plugins", Idle)
      /\ components' = components \ (IF x \in plugins THEN Range(Provides[x]) ELSE {x})
      /\ plugins' = plugins \ {x} /\ parted' = (parted \/ x \in components)
      /\ UNCHANGED rules
  BY Zenon DEF Unregister
<1> QED
  BY <1>1, CallStep, IdleRec, Zenon DEF Types

\* The steps of a worker that has debug data.
LEMMA DebugStep ==
  ASSUME Types, NEW w \in Workers, 
         (\E n \in DebugNodes : OnDebug(w, n) \/ GetToPage(w, n)) \/ Record(w) \/ Add(w) \/ Sort(w)
  PROVE  /\ Stay(w) /\ worker[w].pc \in {"idle", "record", "push", "sort"}
         /\ worker'[w].pc \in {"idle", "record", "push", "sort"}
         /\ worker[w].pc = "idle" => server = "up" /\ traffic = "debug"
         /\ worker'[w].pc # "idle" \/ worker'[w] = Idle
         /\ records' \in Nat /\ UNCHANGED notDebug
<1>0. worker[w] \in CallRec /\ worker \in [Workers -> CallRec] /\ records \in Nat /\ records + 1 \in Nat
  BY DEF Types
<1>1. ASSUME NEW n \in DebugNodes, OnDebug(w, n)
      PROVE  /\ Stay(w) /\ worker[w].pc = "idle" /\ worker'[w].pc = "record" /\ server = "up" /\ traffic = "debug"
             /\ records' = records /\ UNCHANGED notDebug
  <2>1. /\ worker[w].pc = "idle" /\ server = "up" /\ traffic = "debug"
        /\ records' = records /\ UNCHANGED notDebug
        /\ worker' = [worker EXCEPT ![w].pc = "record", ![w].id = n]
    BY <1>1, Zenon DEF OnDebug, debug
  <2>2. PICK r : r = [worker[w] EXCEPT !.pc = "record", !.id = n]
    BY Zenon
  <2>3. r \in CallRec /\ r.pc = "record"
    BY <1>0, <2>2, Zenon DEF CallRec, Places
  <2>4. worker' = [worker EXCEPT ![w] = r]
    BY <2>1, <2>2, Zenon
  <2> QED
    BY <1>0, <2>1, <2>3, <2>4, PutStep, Zenon
<1>2. ASSUME Record(w)
      PROVE  /\ Stay(w) /\ worker[w].pc = "record" /\ worker'[w].pc = "push"
             /\ records' = records + 1 /\ UNCHANGED notDebug
  <2>1. /\ worker[w].pc = "record" /\ records' = records + 1 /\ UNCHANGED notDebug
        /\ worker' = [worker EXCEPT ![w].pc = "push", ![w].eng = records + 1]
    BY <1>2, Zenon DEF Record
  <2>2. PICK r : r = [worker[w] EXCEPT !.pc = "push", !.eng = records + 1]
    BY Zenon
  <2>3. r \in CallRec /\ r.pc = "push"
    BY <1>0, <2>2, Zenon DEF CallRec, Places
  <2>4. worker' = [worker EXCEPT ![w] = r]
    BY <2>1, <2>2, Zenon
  <2> QED
    BY <1>0, <2>1, <2>3, <2>4, PutStep, Zenon
<1>3. ASSUME Add(w)
      PROVE  /\ Stay(w) /\ worker[w].pc = "push" /\ worker'[w] = Idle
             /\ records' = records /\ UNCHANGED notDebug
  <2>1. worker[w].pc = "push" /\ Done(w) /\ records' = records /\ UNCHANGED notDebug
    BY <1>3, Zenon DEF Add
  <2> QED
    BY <1>0, <2>1, DoneStep, Zenon
<1>4. ASSUME NEW n \in DebugNodes, GetToPage(w, n)
      PROVE  /\ Stay(w) /\ worker[w].pc = "idle" /\ worker'[w].pc = "sort" /\ server = "up" /\ traffic = "debug"
             /\ records' = records /\ UNCHANGED notDebug
  <2>1. /\ worker[w].pc = "idle" /\ server = "up" /\ traffic = "debug"
        /\ records' = records /\ UNCHANGED notDebug
        /\ worker' = [worker EXCEPT ![w].pc = "sort", ![w].id = n]
    BY <1>4, Zenon DEF GetToPage, Holds, debug
  <2>2. PICK r : r = [worker[w] EXCEPT !.pc = "sort", !.id = n]
    BY Zenon
  <2>3. r \in CallRec /\ r.pc = "sort"
    BY <1>0, <2>2, Zenon DEF CallRec, Places
  <2>4. worker' = [worker EXCEPT ![w] = r]
    BY <2>1, <2>2, Zenon
  <2> QED
    BY <1>0, <2>1, <2>3, <2>4, PutStep, Zenon
<1>5. ASSUME Sort(w)
      PROVE  /\ Stay(w) /\ worker[w].pc = "sort" /\ (worker'[w].pc = "sort" \/ worker'[w] = Idle)
             /\ records' = records /\ UNCHANGED notDebug
  <2>1. /\ worker[w].pc = "sort" /\ (worker' = worker \/ Done(w))
        /\ records' = records /\ UNCHANGED notDebug
    BY <1>5, Zenon DEF Sort
  <2>2. CASE worker' = worker
    BY <1>0, <2>1, <2>2, Zenon DEF Stay
  <2>3. CASE Done(w)
    BY <1>0, <2>1, <2>3, DoneStep, Zenon
  <2> QED
    BY <2>1, <2>2, <2>3, Zenon
<1>6. "record" # "idle" /\ "push" # "idle" /\ "sort" # "idle"
  OBVIOUS
<1> QED
  BY <1>0, <1>1, <1>2, <1>3, <1>4, <1>5, <1>6, IdleRec, Zenon

\* New looks for the id in the pool.
LEMMA NewLoadStep ==
  ASSUME Types, NEW w \in Workers, NewLoad(w)
  PROVE  /\ Stay(w) /\ GoesOn(w) /\ worker[w].pc = "load"
         /\ worker'[w].pc = IF ruleEngines[worker[w].id] # None THEN "open" ELSE "make"
         /\ UNCHANGED <<others, pool, files, calls, sound>>
<1>1. /\ worker[w].pc = "load" /\ UNCHANGED <<others, pool, files, calls, sound>>
      /\ Goto(w, IF ruleEngines[worker[w].id] # None THEN "open" ELSE "make")
  BY Zenon DEF NewLoad
<1>2. (IF ruleEngines[worker[w].id] # None THEN "open" ELSE "make") \in Places
  BY DEF Places
<1> QED
  BY <1>1, <1>2, GotoStep, Zenon DEF Types

\* New stores the engine it made.
LEMMA NewStoreStep ==
  ASSUME Types, NEW w \in Workers, NewStore(w)
  PROVE  /\ Stay(w) /\ GoesOn(w) /\ worker[w].pc = "store" /\ worker'[w].pc = "open"
         /\ ruleEngines' = [ruleEngines EXCEPT ![worker[w].id] = worker[w].eng]
         /\ UNCHANGED <<others, engine, made, files, calls, sound>>
<1>1. /\ worker[w].pc = "store" /\ UNCHANGED <<others, engine, made, files, calls, sound>> /\ Goto(w, "open")
      /\ ruleEngines' = [ruleEngines EXCEPT ![worker[w].id] = worker[w].eng]
  BY Zenon DEF NewStore
<1> QED
  BY <1>1, GotoStep, Zenon DEF Types, Places

\* SaveFile truncates the file.
LEMMA OpenFileStep ==
  ASSUME Types, NEW w \in Workers, OpenFile(w)
  PROVE  /\ Stay(w) /\ GoesOn(w) /\ worker[w].pc = "open" /\ worker'[w].pc = "write"
         /\ files' = [files EXCEPT ![worker[w].id] = Torn]
         /\ UNCHANGED <<others, pool, calls, sound>>
<1>1. /\ worker[w].pc = "open" /\ UNCHANGED <<others, pool, calls, sound>> /\ Goto(w, "write")
      /\ files' = [files EXCEPT ![worker[w].id] = Torn]
  BY Zenon DEF OpenFile
<1> QED
  BY <1>1, GotoStep, Zenon DEF Types, Places

\* SaveFile writes the text.
LEMMA WriteFileStep ==
  ASSUME Types, NEW w \in Workers, WriteFile(w)
  PROVE  /\ Stay(w) /\ worker'[w] = Idle /\ worker[w].pc = "write"
         /\ \E text \in Written(files[worker[w].id], worker[w].body) :
              files' = [files EXCEPT ![worker[w].id] = text]
         /\ UNCHANGED <<others, pool, calls, sound>>
<1>1. /\ worker[w].pc = "write" /\ UNCHANGED <<others, pool, calls, sound>> /\ Done(w)
      /\ \E text \in Written(files[worker[w].id], worker[w].body) :
           files' = [files EXCEPT ![worker[w].id] = text]
  BY Zenon DEF WriteFile
<1> QED
  BY <1>1, DoneStep, Zenon DEF Types

\* SaveFile fails.
LEMMA SaveFailsStep ==
  ASSUME Types, NEW w \in Workers, SaveFails(w)
  PROVE  /\ Stay(w) /\ worker'[w] = Idle /\ worker[w].pc \in {"open", "write"}
         /\ files' = files \/ files' = [files EXCEPT ![worker[w].id] = Torn]
         /\ sound' = sound \ {worker[w].id} /\ UNCHANGED <<others, pool, calls>>
<1>1. /\ worker[w].pc \in {"open", "write"} /\ Done(w)
      /\ files' = files \/ files' = [files EXCEPT ![worker[w].id] = Torn]
      /\ sound' = sound \ {worker[w].id} /\ UNCHANGED <<others, pool, calls>>
  BY Zenon DEF SaveFails
<1> QED
  BY <1>1, DoneStep, Zenon DEF Types

\* The text that is written is that of the call, or the file is torn or stays as it is.
LEMMA WrittenText ==
  ASSUME NEW old, NEW b, NEW text \in Written(old, b) PROVE text \in {old, b, Torn}
BY Zenon DEF Written

\* Del stops the engine it found.
LEMMA StopStep ==
  ASSUME Types, NEW w \in Workers, Stop(w)
  PROVE  /\ Stay(w) /\ GoesOn(w) /\ worker[w].pc = "stop" /\ worker'[w].pc = "delete"
         /\ engine' = [engine EXCEPT ![worker[w].eng].live = FALSE]
         /\ UNCHANGED <<others, ruleEngines, made, files, calls, sound>>
<1>1. /\ worker[w].pc = "stop" /\ UNCHANGED <<others, ruleEngines, made, files, calls, sound>> /\ Goto(w, "delete")
      /\ engine' = [engine EXCEPT ![worker[w].eng].live = FALSE]
  BY Zenon DEF Stop
<1> QED
  BY <1>1, GotoStep, Zenon DEF Types, Places

\* ReloadSelf replaces the text of the engine, or fails.
LEMMA ReloadStep ==
  ASSUME Types, NEW w \in Workers, Reload(w)
  PROVE  /\ Stay(w) /\ GoesOn(w) /\ worker[w].pc = "reload" /\ worker'[w].pc = "open"
         /\ \/ engine' = engine /\ (MayFail(worker[w].body) \/ worker[w].body \in NodeBodies)
            \/ \E b \in Bodies \cup {None} :
                 /\ engine' = [engine EXCEPT ![worker[w].eng] = [dsl |-> b, live |-> TRUE]]
                 /\ worker[w].body \notin NodeBodies => b = worker[w].body
         /\ UNCHANGED <<others, ruleEngines, made, files, calls, sound>>
<1> DEFINE e == worker[w].eng
           b == worker[w].body
           d == IF b \in NodeBodies THEN engine[e].dsl ELSE b
<1>1. worker[w].pc = "reload" /\ UNCHANGED <<others, ruleEngines, made, files, calls, sound>> /\ Goto(w, "open")
  BY Zenon DEF Reload
<1>2. Stay(w) /\ GoesOn(w) /\ worker'[w].pc = "open"
  BY <1>1, GotoStep, Zenon DEF Types, Places
<1>3. CASE engine' = [engine EXCEPT ![e] = [dsl |-> IF b \in NodeBodies THEN engine[e].dsl ELSE b, live |-> TRUE]]
  <2>2. e \in 1..made /\ b \in Bodies /\ PoolType
    BY <1>1, Zenon DEF Types, Proper
  <2>3. engine[e] \in [dsl : Bodies \cup {None}, live : BOOLEAN]
    BY <2>2, Constants DEF PoolType
  <2>4. d \in Bodies \cup {None} /\ (b \notin NodeBodies => d = b)
    BY <2>2, <2>3
  <2> QED
    BY <1>1, <1>2, <1>3, <2>4, Zenon
<1>4. CASE engine' = engine /\ (MayFail(b) \/ b \in NodeBodies)
  BY <1>1, <1>2, <1>4, Zenon
<1> QED
  BY <1>3, <1>4, Zenon DEF Reload

FileType == files \in [Ids -> Bodies \cup {None, Torn}]

\* Without an engine and a chain there is nothing to hold.
LEMMA IdleProper ==
  ASSUME NEW r, NEW m, r.pc \in {"idle", "record", "push", "sort"} PROVE Proper(r, m)
BY DEF Proper

\* A step of one worker keeps the types when it keeps them for the worker.
LEMMA TypesFrame ==
  ASSUME Types, NEW w \in Workers, Stay(w), Proper(worker'[w], made'), made' \in Nat, made <= made',
         PoolType', FileType', boot' = boot, records' \in Nat
  PROVE  Types'
<1>1. made \in Nat /\ worker' \in [Workers -> CallRec] /\ \A v \in Workers \ {w} : worker'[v] = worker[v]
  BY Constants DEF Types, PoolType, Stay
<1>2. 1..made \subseteq 1..made'
  BY <1>1
<1>3. ASSUME NEW v \in Workers PROVE Proper(worker'[v], made')
  <2>1. CASE v = w
    BY <2>1, Zenon
  <2>2. CASE v # w
    <3>1. worker'[v] = worker[v] /\ Proper(worker[v], made)
      BY <1>1, <2>2, Zenon DEF Types
    <3> QED
      BY <1>2, <3>1, Zenon DEF Proper
  <2> QED
    BY <2>1, <2>2, Zenon
<1>4. boot' \in [plugins : Seq(Plugins), files : Seq(Ids)]
  BY Zenon DEF Types
<1> QED
  BY <1>1, <1>3, <1>4, Zenon DEF Types, FileType

\* A step that leaves the pool and the files alone.
LEMMA TypesKept ==
  ASSUME Types, NEW w \in Workers, Stay(w), Proper(worker'[w], made),
         UNCHANGED pool, UNCHANGED files, UNCHANGED boot, records' \in Nat
  PROVE  Types'
<1>1. made' = made /\ ruleEngines' = ruleEngines /\ engine' = engine /\ PoolType
  BY Zenon DEF pool, Types
<1>2. made' \in Nat /\ made <= made'
  BY <1>1, Constants DEF PoolType
<1>3. PoolType' /\ FileType'
  BY <1>1, Zenon DEF PoolType, FileType, Types
<1> QED
  BY <1>1, <1>2, <1>3, TypesFrame, Zenon

\* A step of a call for a chain: the worker keeps what its place needs.
LEMMA TypesRequest ==
  ASSUME Types, NEW w \in Workers, Request(w) PROVE Types'
<1>0. PoolType /\ records \in Nat
  BY Zenon DEF Types
<1>1. ASSUME NEW id \in Ids, NEW b \in Bodies, Save(w, id, b) PROVE Types'
  <2>1. /\ Stay(w)
        /\ ruleEngines[id] = None => worker'[w].pc = "load"
        /\ ruleEngines[id] # None => worker'[w].pc = "reload"
        /\ worker'[w].id = id /\ worker'[w].body = b /\ worker'[w].eng = ruleEngines[id]
        /\ UNCHANGED <<others, pool, files>>
    BY <1>1, SaveStep
  <2>2. ruleEngines[id] \in 1..made \cup {None}
    BY <1>0, PoolOf, Zenon
  <2>3. CASE ruleEngines[id] = None
    <3>1. Proper(worker'[w], made)
      BY <2>1, <2>3 DEF Proper
    <3> QED
      BY <1>0, <2>1, <3>1, TypesKept, Zenon DEF others, debug
  <2>4. CASE ruleEngines[id] # None
    <3>1. Proper(worker'[w], made)
      BY <2>1, <2>2, <2>4 DEF Proper
    <3> QED
      BY <1>0, <2>1, <3>1, TypesKept, Zenon DEF others, debug
  <2> QED
    BY <2>3, <2>4, Zenon
<1>2. ASSUME NEW id \in Ids, Del(w, id) PROVE Types'
  <2>1. /\ Stay(w) /\ worker'[w].pc = "stop" /\ worker'[w].id = id /\ worker'[w].eng = ruleEngines[id]
        /\ worker'[w].todo = <<>> /\ ruleEngines[id] # None
        /\ UNCHANGED <<others, pool, files>>
    BY <1>2, DelStep, Zenon
  <2>2. ruleEngines[id] \in 1..made \cup {None}
    BY <1>0, PoolOf, Zenon
  <2>3. Proper(worker'[w], made)
    BY <2>1, <2>2 DEF Proper
  <2> QED
    BY <1>0, <2>1, <2>3, TypesKept, Zenon DEF others, debug
<1>3. ASSUME StopAll(w) PROVE Types'
  <2>1. /\ Stay(w) /\ worker'[w].pc = "range" /\ worker'[w].todo \in Seq(Ids)
        /\ UNCHANGED <<others, pool, files>>
    BY <1>3, StopAllStep, Zenon
  <2>3. Proper(worker'[w], made)
    BY <2>1 DEF Proper
  <2> QED
    BY <1>0, <2>1, <2>3, TypesKept, Zenon DEF others, debug
<1>4. ASSUME NEW p \in Plugins, RegisterPlugin(w, p) PROVE Types'
  <2>1. /\ Stay(w) /\ UNCHANGED <<rules, registry>>
        /\ \/ worker'[w] = Idle
           \/ worker'[w].pc = "register" /\ worker'[w].body = p /\ worker'[w].todo = Provides[p]
    BY <1>4, RegisterPluginStep, Zenon
  <2>2. Provides[p] \in Seq(Components)
    BY PluginSeq
  <2>3. CASE worker'[w] = Idle
    <3>1. Proper(worker'[w], made)
      BY <2>3, IdleRec, IdleProper
    <3> QED
      BY <1>0, <2>1, <3>1, TypesKept, Zenon DEF rules, debug
  <2>4. CASE worker'[w].pc = "register" /\ worker'[w].body = p /\ worker'[w].todo = Provides[p]
    <3>1. Proper(worker'[w], made)
      BY <2>2, <2>4 DEF Proper
    <3> QED
      BY <1>0, <2>1, <3>1, TypesKept, Zenon DEF rules, debug
  <2> QED
    BY <2>1, <2>3, <2>4, Zenon
<1>5. ASSUME NEW x, Unregister(w, x) PROVE Types'
  <2>1. Stay(w) /\ worker'[w] = Idle /\ UNCHANGED rules
    BY <1>5, UnregisterStep, Zenon
  <2>2. Proper(worker'[w], made)
    BY <2>1, IdleRec, IdleProper
  <2> QED
    BY <1>0, <2>1, <2>2, TypesKept, Zenon DEF rules, debug
<1>6. ASSUME \E n \in DebugNodes : OnDebug(w, n) \/ GetToPage(w, n) PROVE Types'
  <2>1. Stay(w) /\ worker'[w].pc \in {"idle", "record", "push", "sort"} /\ records' \in Nat /\ UNCHANGED notDebug
    BY <1>6, DebugStep, Zenon
  <2>2. Proper(worker'[w], made)
    BY <2>1, IdleProper
  <2> QED
    BY <2>1, <2>2, TypesKept, Zenon DEF notDebug
<1> QED
  BY <1>1, <1>2, <1>3, <1>4, <1>5, <1>6, Zenon DEF Request, PostDsl

\* What a pool is after a step.
LEMMA PoolStep ==
  ASSUME PoolType, NEW id \in Ids, NEW e \in 1..made \cup {None}, ruleEngines' = [ruleEngines EXCEPT ![id] = e],
         UNCHANGED <<engine, made>>
  PROVE  PoolType' /\ made' \in Nat /\ made <= made' /\ made' = made
BY Constants DEF PoolType

\* There is room for one more engine.
LEMMA NextEngine ==
  ASSUME PoolType, made < MaxEngines
  PROVE  made + 1 \in 1..MaxEngines /\ engine \in [1..MaxEngines -> [dsl : Bodies \cup {None}, live : BOOLEAN]]
BY Constants DEF PoolType

\* An engine that was made gets another state.
LEMMA EngineStep ==
  ASSUME PoolType, NEW e \in 1..made, NEW b \in Bodies \cup {None}, NEW t \in BOOLEAN,
         engine' = [engine EXCEPT ![e] = [dsl |-> b, live |-> t]], UNCHANGED <<ruleEngines, made>>
  PROVE  PoolType' /\ made' \in Nat /\ made <= made' /\ made' = made
BY Constants DEF PoolType

\* An engine is made, and is stored or not.
LEMMA NewEngineStep ==
  ASSUME PoolType, NEW b \in Bodies, made < MaxEngines, made' = made + 1,
         engine' = [engine EXCEPT ![made + 1] = [dsl |-> b, live |-> TRUE]],
         \/ ruleEngines' = ruleEngines
         \/ \E id \in Ids : ruleEngines' = [ruleEngines EXCEPT ![id] = made + 1]
  PROVE  PoolType' /\ made' \in Nat /\ made <= made' /\ made' \in 1..made'
<1>1. made \in 0..MaxEngines /\ MaxEngines \in Nat
  BY Constants, Zenon DEF PoolType
<1>2. made' \in 0..MaxEngines /\ made' \in Nat /\ made <= made' /\ made' \in 1..made' /\ made' \in 1..MaxEngines
  BY <1>1
<1>3. 1..made \subseteq 1..made'
  BY <1>1
<1>4. ruleEngines' \in [Ids -> 1..made' \cup {None}]
  BY <1>2, <1>3 DEF PoolType
<1>5. engine' \in [1..MaxEngines -> [dsl : Bodies \cup {None}, live : BOOLEAN]]
  BY <1>2 DEF PoolType
<1> QED
  BY <1>2, <1>4, <1>5, Zenon DEF PoolType

\* The steps of saveDsl keep the types.
LEMMA TypesSaving ==
  ASSUME Types, NEW w \in Workers,
         \/ Reload(w) \/ NewLoad(w) \/ NewMake(w) \/ NewStore(w)
         \/ OpenFile(w) \/ WriteFile(w) \/ SaveFails(w)
  PROVE  Types'
<1>0. PoolType /\ FileType /\ records \in Nat /\ Proper(worker[w], made)
  BY Zenon DEF Types, FileType
<1>1. CASE Reload(w)
  <2>1. /\ Stay(w) /\ GoesOn(w) /\ worker[w].pc = "reload" /\ worker'[w].pc = "open"
        /\ UNCHANGED <<others, ruleEngines, made, files, calls, sound>>
    BY <1>1, ReloadStep, Zenon
  <2>2. Proper(worker'[w], made)
    BY <1>0, <2>1 DEF Proper, GoesOn
  <2>3. worker[w].eng \in 1..made
    BY <1>0, <2>1, Zenon DEF Proper
  <2>4. CASE engine' = engine
    BY <1>0, <2>1, <2>2, <2>4, TypesKept, Zenon DEF others, debug, pool
  <2>5. ASSUME NEW b \in Bodies \cup {None},
               engine' = [engine EXCEPT ![worker[w].eng] = [dsl |-> b, live |-> TRUE]]
        PROVE  Types'
    <3>1. PoolType' /\ made' \in Nat /\ made <= made' /\ made' = made
      BY <1>0, <2>1, <2>3, <2>5, EngineStep, Zenon
    <3>2. FileType' /\ boot' = boot /\ records' \in Nat
      BY <1>0, <2>1, Zenon DEF others, debug, FileType
    <3> QED
      BY <2>1, <2>2, <3>1, <3>2, TypesFrame
  <2> QED
    BY <1>1, <2>4, <2>5, ReloadStep, Zenon
<1>2. CASE NewLoad(w)
  <2>1. /\ Stay(w) /\ GoesOn(w) /\ worker[w].pc = "load"
        /\ worker'[w].pc \in {"open", "make"}
        /\ UNCHANGED <<others, pool, files, calls, sound>>
    BY <1>2, NewLoadStep
  <2>2. Proper(worker'[w], made)
    BY <1>0, <2>1 DEF Proper, GoesOn
  <2> QED
    BY <1>0, <2>1, <2>2, TypesKept, Zenon DEF others, debug
<1>3. CASE NewMake(w)
  <2>1. /\ Stay(w) /\ worker[w].pc = "make" /\ UNCHANGED <<others, ruleEngines, files, calls, sound>>
        /\ worker'[w].id = worker[w].id /\ worker'[w].body = worker[w].body
    BY <1>3, MakeStep, Zenon
  <2>2. worker[w].id \in Ids /\ worker[w].body \in Bodies
    BY <1>0, <2>1, Zenon DEF Proper
  <2>3. FileType' /\ boot' = boot /\ records' \in Nat
    BY <1>0, <2>1, Zenon DEF others, debug, FileType
  <2>4. CASE /\ made < MaxEngines /\ made' = made + 1 /\ worker'[w].pc = "store" /\ worker'[w].eng = made + 1
             /\ engine' = [engine EXCEPT ![made + 1] = [dsl |-> worker[w].body, live |-> TRUE]]
    <3>2. PoolType' /\ made' \in Nat /\ made <= made' /\ made' \in 1..made'
      BY <1>0, <2>1, <2>2, <2>4, NewEngineStep, Zenon
    <3>3. Proper(worker'[w], made')
      BY <2>1, <2>2, <2>4, <3>2 DEF Proper
    <3> QED
      BY <2>1, <2>3, <3>2, <3>3, TypesFrame
  <2>5. CASE worker'[w].pc = "open" /\ UNCHANGED <<engine, made>>
    <3>1. Proper(worker'[w], made)
      BY <2>1, <2>2, <2>5 DEF Proper
    <3> QED
      BY <1>0, <2>1, <2>3, <2>5, <3>1, TypesKept, Zenon DEF pool
  <2> QED
    BY <1>3, <2>4, <2>5, MakeStep, Zenon
<1>4. CASE NewStore(w)
  <2>1. /\ Stay(w) /\ GoesOn(w) /\ worker[w].pc = "store" /\ worker'[w].pc = "open"
        /\ ruleEngines' = [ruleEngines EXCEPT ![worker[w].id] = worker[w].eng]
        /\ UNCHANGED <<others, engine, made, files, calls, sound>>
    BY <1>4, NewStoreStep, Zenon
  <2>2. worker[w].id \in Ids /\ worker[w].eng \in 1..made
    BY <1>0, <2>1, Zenon DEF Proper
  <2>3. PoolType' /\ made' \in Nat /\ made <= made' /\ made' = made
    BY <1>0, <2>1, <2>2, PoolStep, Zenon
  <2>4. Proper(worker'[w], made)
    BY <1>0, <2>1 DEF Proper, GoesOn
  <2>5. FileType' /\ boot' = boot /\ records' \in Nat
    BY <1>0, <2>1, Zenon DEF others, debug, FileType
  <2> QED
    BY <2>1, <2>3, <2>4, <2>5, TypesFrame
<1>5. CASE OpenFile(w) \/ WriteFile(w) \/ SaveFails(w)
  <2>1. /\ Stay(w) /\ worker[w].pc \in {"open", "write"} /\ UNCHANGED <<others, pool>>
        /\ \/ GoesOn(w) /\ worker'[w].pc = "write"
           \/ worker'[w] = Idle
        /\ \/ files' = files
           \/ \E b \in {Torn, worker[w].body, files[worker[w].id]} : files' = [files EXCEPT ![worker[w].id] = b]
    <3>1. CASE OpenFile(w)
      BY <3>1, OpenFileStep, Zenon
    <3>2. CASE WriteFile(w)
      <4>1. /\ Stay(w) /\ worker'[w] = Idle /\ worker[w].pc = "write" /\ UNCHANGED <<others, pool>>
            /\ \E text \in Written(files[worker[w].id], worker[w].body) :
                 files' = [files EXCEPT ![worker[w].id] = text]
        BY <3>2, WriteFileStep, Zenon
      <4>2. PICK text \in Written(files[worker[w].id], worker[w].body) :
              files' = [files EXCEPT ![worker[w].id] = text]
        BY <4>1, Zenon
      <4>3. text \in {Torn, worker[w].body, files[worker[w].id]}
        BY WrittenText, Zenon
      <4> QED
        BY <4>1, <4>2, <4>3, Zenon
    <3>3. CASE SaveFails(w)
      BY <3>3, SaveFailsStep, Zenon
    <3> QED
      BY <1>5, <3>1, <3>2, <3>3, Zenon
  <2>2. worker[w].id \in Ids /\ worker[w].body \in Bodies
    BY <1>0, <2>1, Zenon DEF Proper
  <2>3. Proper(worker'[w], made)
    BY <1>0, <2>1, <2>2, IdleRec DEF Proper, GoesOn
  <2>4. FileType'
    BY <1>0, <2>1, <2>2 DEF FileType
  <2>5. made' = made /\ ruleEngines' = ruleEngines /\ engine' = engine /\ boot' = boot /\ records' \in Nat
    BY <1>0, <2>1, Zenon DEF others, debug, pool
  <2>6. PoolType' /\ made' \in Nat /\ made <= made'
    BY <1>0, <2>5, Constants DEF PoolType
  <2> QED
    BY <2>1, <2>3, <2>4, <2>5, <2>6, TypesFrame
<1> QED
  BY <1>1, <1>2, <1>3, <1>4, <1>5, Zenon

\* The steps of the calls keep the types.
LEMMA TypesWork ==
  ASSUME Types, NEW w \in Workers, Work(w) PROVE Types'
<1>0. PoolType /\ FileType /\ records \in Nat /\ Proper(worker[w], made)
  BY Zenon DEF Types, FileType
<1>1. CASE RangeNext(w)
  <2>1. /\ Stay(w) /\ worker[w].pc = "range" /\ UNCHANGED <<others, pool, files, calls, sound>>
    BY <1>1, RangeStep, Zenon
  <2>2. CASE worker'[w] = Idle
    <3>1. Proper(worker'[w], made)
      BY <2>2, IdleRec, IdleProper
    <3> QED
      BY <1>0, <2>1, <3>1, TypesKept, Zenon DEF others, debug
  <2>3. ASSUME NEW id \in Ids,
               /\ worker[w].todo # <<>> /\ worker'[w].todo = Tail(worker[w].todo)
               /\ worker'[w].pc = IF ruleEngines[id] = None THEN "range" ELSE "stop"
               /\ worker'[w].id = id /\ worker'[w].eng = ruleEngines[id]
        PROVE  Types'
    <3>1. worker[w].todo \in Seq(Ids)
      BY <1>0, <2>1, Zenon DEF Proper
    <3>2. worker'[w].todo \in Seq(Ids)
      BY <2>3, <3>1
    <3>3. ruleEngines[id] \in 1..made \cup {None}
      BY <1>0, PoolOf, Zenon
    <3>4. Proper(worker'[w], made)
      BY <2>3, <3>2, <3>3 DEF Proper
    <3> QED
      BY <1>0, <2>1, <3>4, TypesKept, Zenon DEF others, debug
  <2> QED
    BY <1>1, <2>2, <2>3, RangeStep, Zenon
<1>2. CASE Stop(w)
  <2>1. /\ Stay(w) /\ GoesOn(w) /\ worker[w].pc = "stop" /\ worker'[w].pc = "delete"
        /\ engine' = [engine EXCEPT ![worker[w].eng].live = FALSE]
        /\ UNCHANGED <<others, ruleEngines, made, files, calls, sound>>
    BY <1>2, StopStep, Zenon
  <2>2. Proper(worker'[w], made)
    BY <1>0, <2>1 DEF Proper, GoesOn
  <2>3. made' = made /\ ruleEngines' = ruleEngines /\ FileType' /\ boot' = boot /\ records' \in Nat
    BY <1>0, <2>1, Zenon DEF others, debug, FileType
  <2>4. PoolType' /\ made' \in Nat /\ made <= made'
    <3>1. worker[w].eng \in 1..made
      BY <1>0, <2>1, Zenon DEF Proper
    <3>2. worker[w].eng \in 1..MaxEngines
      BY <1>0, <3>1, Constants DEF PoolType
    <3>3. engine[worker[w].eng] \in [dsl : Bodies \cup {None}, live : BOOLEAN]
      BY <1>0, <3>2, Zenon DEF PoolType
    <3>4. PICK r \in [dsl : Bodies \cup {None}, live : BOOLEAN] : engine' = [engine EXCEPT ![worker[w].eng] = r]
      BY <2>1, <3>3, Zenon
    <3>5. engine' \in [1..MaxEngines -> [dsl : Bodies \cup {None}, live : BOOLEAN]]
      BY <1>0, <3>4, Zenon DEF PoolType
    <3> QED
      BY <1>0, <2>3, <3>5, Constants DEF PoolType
  <2> QED
    BY <2>1, <2>2, <2>3, <2>4, TypesFrame
<1>3. CASE Delete(w)
  <2>1. /\ Stay(w) /\ worker[w].pc = "delete" /\ worker'[w].pc \in {"idle", "range"}
        /\ worker'[w].todo = worker[w].todo
        /\ ruleEngines' = [ruleEngines EXCEPT ![worker[w].id] = None]
        /\ UNCHANGED <<others, engine, made, files, calls, sound>>
    BY <1>3, DeleteStep
  <2>2. worker[w].id \in Ids
    BY <1>0, <2>1, Zenon DEF Proper
  <2>3. PoolType' /\ made' \in Nat /\ made <= made' /\ made' = made
    BY <1>0, <2>1, <2>2, PoolStep, Zenon
  <2>4. Proper(worker'[w], made)
    BY <1>0, <2>1 DEF Proper
  <2>5. FileType' /\ boot' = boot /\ records' \in Nat
    BY <1>0, <2>1, Zenon DEF others, debug, FileType
  <2> QED
    BY <2>1, <2>3, <2>4, <2>5, TypesFrame
<1>4. CASE Register(w)
  <2>1. /\ Stay(w) /\ worker[w].pc = "register" /\ UNCHANGED <<rules, calls, parted>>
        /\ \/ worker'[w] = Idle
           \/ /\ worker'[w].pc = "register" /\ worker'[w].body = worker[w].body
              /\ worker[w].todo # <<>> /\ worker'[w].todo = Tail(worker[w].todo)
    BY <1>4, RegisterStep, Zenon
  <2>2. worker[w].body \in Plugins /\ worker[w].todo \in Seq(Components)
    BY <1>0, <2>1, Zenon DEF Proper
  <2>3. Proper(worker'[w], made)
    <3>1. CASE worker'[w] = Idle
      BY <3>1, IdleRec, IdleProper
    <3>2. CASE /\ worker'[w].pc = "register" /\ worker'[w].body = worker[w].body
               /\ worker[w].todo # <<>> /\ worker'[w].todo = Tail(worker[w].todo)
      <4>1. worker'[w].todo \in Seq(Components)
        BY <2>2, <3>2
      <4> QED
        BY <2>2, <3>2, <4>1 DEF Proper
    <3> QED
      BY <2>1, <3>1, <3>2, Zenon
  <2> QED
    BY <1>0, <2>1, <2>3, TypesKept, Zenon DEF rules, debug
<1>5. CASE Record(w) \/ Add(w) \/ Sort(w)
  <2>1. Stay(w) /\ worker'[w].pc \in {"idle", "record", "push", "sort"} /\ records' \in Nat /\ UNCHANGED notDebug
    BY <1>5, DebugStep, Zenon
  <2>2. Proper(worker'[w], made)
    BY <2>1, IdleProper
  <2> QED
    BY <2>1, <2>2, TypesKept, Zenon DEF notDebug
<1> QED
  BY <1>1, <1>2, <1>3, <1>4, <1>5, TypesSaving, Zenon DEF Work

\* A start lists the plugins and the rule chains.
LEMMA StartType ==
  /\ GetFilePaths \in [plugins : Seq(Plugins), files : Seq(Ids)]
  /\ GetFilePaths.plugins = PluginFiles /\ GetFilePaths.files = RuleFiles
BY ServerAssumption DEF GetFilePaths

\* The types of a server that starts.
LEMMA FreshType ==
  /\ [w \in Workers |-> Idle] \in [Workers -> CallRec] /\ Proper(Idle, 0) /\ 0 \in 0..MaxEngines
  /\ [id \in Ids |-> None] \in [Ids -> 1..0 \cup {None}]
  /\ [e \in 1..MaxEngines |-> [dsl |-> None, live |-> FALSE]]
       \in [1..MaxEngines -> [dsl : Bodies \cup {None}, live : BOOLEAN]]
<1>1. Proper(Idle, 0)
  BY IdleRec, IdleProper
<1>2. 0 \in 0..MaxEngines
  BY Constants
<1> QED
  BY <1>1, <1>2, IdleRec, Zenon

\* The server begins with the types.
LEMMA TypesInit == Init => Types
<1> SUFFICES ASSUME Init PROVE Types
  OBVIOUS
<1>1. /\ worker = [w \in Workers |-> Idle] /\ made = 0 /\ ruleEngines = [id \in Ids |-> None]
      /\ engine = [e \in 1..MaxEngines |-> [dsl |-> None, live |-> FALSE]] /\ files = [id \in Ids |-> None]
      /\ boot = GetFilePaths /\ records = 0
  BY Zenon DEF Init
<1>2. records \in Nat
  BY <1>1
<1>3. files \in [Ids -> Bodies \cup {None, Torn}]
  BY <1>1, Zenon
<1> QED
  BY <1>1, <1>2, <1>3, FreshType, StartType, Zenon DEF Types, PoolType

\* The steps of a start.
LEMMA LoadStep ==
  ASSUME Types, LoadPlugin \/ LoadRules
  PROVE  /\ Types' /\ server = "boot" /\ UNCHANGED <<files, worker, traffic, sound, parted>>
<1>0. /\ PoolType /\ FileType /\ records \in Nat /\ made \in Nat
      /\ boot \in [plugins : Seq(Plugins), files : Seq(Ids)]
  BY Constants DEF Types, FileType, PoolType
<1>a. ASSUME worker' = worker, made' \in Nat, made <= made', PoolType', files' = files, records' = records,
             boot' \in [plugins : Seq(Plugins), files : Seq(Ids)]
      PROVE  Types'
  <2>1. 1..made \subseteq 1..made'
    BY <1>0, <1>a
  <2>2. ASSUME NEW w \in Workers PROVE Proper(worker'[w], made')
    <3>1. Proper(worker[w], made)
      BY Zenon DEF Types
    <3> QED
      BY <1>a, <2>1, <3>1, Zenon DEF Proper
  <2> QED
    BY <1>a, <2>2, Zenon DEF Types
<1>1. CASE LoadPlugin
  <2>1. /\ server = "boot" /\ boot.plugins # <<>> /\ boot' = [boot EXCEPT !.plugins = Tail(boot.plugins)]
        /\ UNCHANGED <<traffic, parted, server, pool, files, worker, calls, crashes, sound, debug>>
    BY <1>1, Zenon DEF LoadPlugin
  <2>2. boot' \in [plugins : Seq(Plugins), files : Seq(Ids)]
    <3>1. boot.plugins \in Seq(Plugins)
      BY <1>0, Zenon
    <3>2. Tail(boot.plugins) \in Seq(Plugins)
      BY <2>1, <3>1
    <3> QED
      BY <1>0, <2>1, <3>2, Zenon
  <2>3. /\ made' = made /\ engine' = engine /\ ruleEngines' = ruleEngines /\ worker' = worker /\ files' = files
        /\ records' = records /\ traffic' = traffic /\ sound' = sound /\ parted' = parted
    BY <2>1, Zenon DEF pool, debug
  <2>4. PoolType' /\ made' \in Nat /\ made <= made'
    BY <1>0, <2>3 DEF PoolType
  <2> QED
    BY <1>a, <2>1, <2>2, <2>3, <2>4, Zenon
<1>2. CASE LoadNext
  <2> DEFINE b == files[Head(boot.files)]
  <2>1. /\ server = "boot" /\ boot.files # <<>>
        /\ files' = files /\ worker' = worker /\ records' = records /\ traffic' = traffic /\ sound' = sound
        /\ parted' = parted
    BY <1>2, Zenon DEF LoadNext, debug, registry
  <2>2. \/ UNCHANGED <<boot, pool>>
        \/ /\ boot' = [boot EXCEPT !.files = Tail(boot.files)]
           /\ \/ UNCHANGED pool
              \/ /\ b # None /\ DecodesAsChain(b) /\ Inner[b] # None /\ NewEngine(made + 1, b)
                 /\ ruleEngines' = [ruleEngines EXCEPT ![Inner[b]] = made + 1]
    BY <1>2, Zenon DEF LoadNext
  <2>3. /\ Head(boot.files) \in Ids
        /\ [boot EXCEPT !.files = Tail(boot.files)] \in [plugins : Seq(Plugins), files : Seq(Ids)]
    <3>1. boot.files \in Seq(Ids)
      BY <1>0, Zenon
    <3>2. Tail(boot.files) \in Seq(Ids) /\ Head(boot.files) \in Ids
      BY <2>1, <3>1
    <3> QED
      BY <1>0, <3>2, Zenon
  <2>4. b \in Bodies \cup {None, Torn}
    BY <1>0, <2>3, Zenon DEF FileType
  <2>5. boot' \in [plugins : Seq(Plugins), files : Seq(Ids)]
    BY <1>0, <2>2, <2>3, Zenon
  <2>6. CASE UNCHANGED pool
    <3>1. made' = made /\ engine' = engine /\ ruleEngines' = ruleEngines
      BY <2>6, Zenon DEF pool
    <3>2. PoolType' /\ made' \in Nat /\ made <= made'
      BY <1>0, <3>1 DEF PoolType
    <3> QED
      BY <1>a, <2>1, <2>5, <3>2, Zenon
  <2>7. CASE /\ b # None /\ DecodesAsChain(b) /\ Inner[b] # None /\ NewEngine(made + 1, b)
             /\ ruleEngines' = [ruleEngines EXCEPT ![Inner[b]] = made + 1]
    <3>1. b \in Bodies /\ Inner[b] \in Ids
      <4>1. b \in Bodies
        BY <2>4, <2>7, Constants, Zenon DEF Decodes, DecodesAsChain
      <4> QED
        BY <2>7, <4>1, Constants, Zenon
    <3>2. /\ made < MaxEngines /\ made' = made + 1
          /\ engine' = [engine EXCEPT ![made + 1] = [dsl |-> b, live |-> TRUE]]
      BY <2>7, Zenon DEF NewEngine
    <3>3. PoolType' /\ made' \in Nat /\ made <= made'
      <4> HIDE DEF b
      <4> QED
        BY <1>0, <2>7, <3>1, <3>2, NewEngineStep, Zenon
    <3> QED
      BY <1>a, <2>1, <2>5, <3>3, Zenon
  <2> QED
    BY <2>2, <2>6, <2>7, Zenon DEF pool
<1> QED
  BY <1>1, <1>2, Zenon DEF LoadRules

\* Every step keeps the types.
LEMMA TypesStep ==
  ASSUME Types, [Next]_vars PROVE Types'
<1>1. ASSUME NEW w \in Workers, Request(w) \/ Work(w) PROVE Types'
  BY <1>1, TypesRequest, TypesWork, Zenon
<1>2. CASE InitRuleGo
  BY <1>2, LoadStep, Zenon DEF InitRuleGo
<1>3. CASE Crash
  <2>1. /\ worker' = [w \in Workers |-> Idle] /\ made' = 0 /\ ruleEngines' = [id \in Ids |-> None]
        /\ engine' = [e \in 1..MaxEngines |-> [dsl |-> None, live |-> FALSE]] /\ files' = files
        /\ boot' = GetFilePaths /\ records' = 0
    BY <1>3, Zenon DEF Crash
  <2>2. records' \in Nat
    BY <2>1
  <2>3. files' \in [Ids -> Bodies \cup {None, Torn}]
    BY <2>1, Zenon DEF Types
  <2> QED
    BY <2>1, <2>2, <2>3, FreshType, StartType, Zenon DEF Types, PoolType
<1>4. ASSUME (\E n \in DebugNodes : Take(n)) \/ Serve \/ UNCHANGED vars
      PROVE  Types'
  <2>1. UNCHANGED <<worker, records, boot, pool, files>>
    BY <1>4, Zenon DEF Take, Serve, notDebug, vars, debug
  <2>2. worker' = worker /\ records' = records /\ boot' = boot /\ files' = files
        /\ made' = made /\ engine' = engine /\ ruleEngines' = ruleEngines
    BY <2>1, Zenon DEF pool
  <2> QED
    BY <2>2, Zenon DEF Types, PoolType
<1> QED
  BY <1>1, <1>2, <1>3, <1>4, Zenon DEF Next

\* The components that a call has registered so far.
Registered(r) == IF r.pc = "register" THEN Range(Provides[r.body]) \ Range(r.todo) ELSE {}

Parts(p) == Range(Provides[p])

\* Every component that is there belongs to one plugin, or to one call that registers one.
Owned ==
  /\ \A p \in plugins : Parts(p) \subseteq components
  /\ \A p, q \in plugins : p # q => Parts(p) \cap Parts(q) = {}
  /\ \A w \in Workers : Registered(worker[w]) \subseteq components
  /\ \A w \in Workers, p \in plugins : Registered(worker[w]) \cap Parts(p) = {}
  /\ \A v, w \in Workers : v # w => Registered(worker[v]) \cap Registered(worker[w]) = {}

Whole == ~parted => Owned

\* A listing is its head and its tail.
LEMMA HeadTail ==
  ASSUME NEW S, NEW s \in Seq(S), s # <<>>
  PROVE  Range(s) = {Head(s)} \cup Range(Tail(s))
<1>1. Len(s) \in Nat /\ Len(s) > 0 /\ DOMAIN s = 1..Len(s) /\ DOMAIN Tail(s) = 1..(Len(s) - 1)
  OBVIOUS
<1>2. Head(s) = s[1] /\ \A i \in 1..(Len(s) - 1) : Tail(s)[i] = s[i + 1]
  OBVIOUS
<1>3. ASSUME NEW x \in Range(s) PROVE x \in {Head(s)} \cup Range(Tail(s))
  <2>1. PICK i \in 1..Len(s) : x = s[i]
    BY <1>1, Zenon DEF Range
  <2>2. CASE i = 1
    BY <1>2, <2>1, <2>2
  <2>3. CASE i # 1
    <3>1. i - 1 \in DOMAIN Tail(s) /\ Tail(s)[i - 1] = s[i]
      BY <1>1, <1>2, <2>1, <2>3
    <3> QED
      BY <2>1, <3>1, Zenon DEF Range
  <2> QED
    BY <2>2, <2>3, Zenon
<1>4. ASSUME NEW x \in {Head(s)} \cup Range(Tail(s)) PROVE x \in Range(s)
  <2>1. CASE x = Head(s)
    <3>1. 1 \in DOMAIN s /\ x = s[1]
      BY <1>1, <1>2, <2>1
    <3> QED
      BY <3>1, Zenon DEF Range
  <2>2. CASE x \in Range(Tail(s))
    <3>1. PICK i \in 1..(Len(s) - 1) : x = Tail(s)[i]
      BY <1>1, <2>2, Zenon DEF Range
    <3>2. i + 1 \in DOMAIN s /\ x = s[i + 1]
      BY <1>1, <1>2, <3>1
    <3> QED
      BY <3>2, Zenon DEF Range
  <2> QED
    BY <1>4, <2>1, <2>2, Zenon
<1> QED
  BY <1>3, <1>4, Zenon

\* Only RegisterPlugin has registered parts of a plugin.
LEMMA NotRegistering == ASSUME NEW r, r.pc # "register" PROVE Registered(r) = {}
BY Zenon DEF Registered

\* A step of a worker that leaves the registry alone, and has no component of its own after it.
LEMMA OwnedKept ==
  ASSUME Owned, NEW w \in Workers, Stay(w), components' = components, plugins' = plugins,
         Registered(worker'[w]) = {}
  PROVE  Owned'
<1>1. ASSUME NEW v \in Workers PROVE Registered(worker'[v]) = {} \/ (v # w /\ worker'[v] = worker[v])
  BY Zenon DEF Stay
<1>2. ASSUME NEW v \in Workers PROVE Registered(worker'[v]) \subseteq Registered(worker[v])
  BY <1>1
<1> QED
  BY <1>2, Zenon DEF Owned

\* A component that is not there is registered for the call of w.
LEMMA OwnedMore ==
  ASSUME Owned, NEW w \in Workers, Stay(w), NEW c, c \notin components, components' = components \cup {c},
         plugins' = plugins, Registered(worker'[w]) \subseteq Registered(worker[w]) \cup {c}
  PROVE  Owned'
<1>1. ASSUME NEW v \in Workers, v # w PROVE Registered(worker'[v]) = Registered(worker[v])
  BY <1>1, Zenon DEF Stay
<1>2. /\ \A p \in plugins : c \notin Parts(p)
      /\ \A v \in Workers : c \notin Registered(worker[v])
  BY Zenon DEF Owned
<1>3. \A p \in plugins' : Parts(p) \subseteq components'
  BY Zenon DEF Owned
<1>4. \A p, q \in plugins' : p # q => Parts(p) \cap Parts(q) = {}
  BY Zenon DEF Owned
<1>5. ASSUME NEW v \in Workers PROVE Registered(worker'[v]) \subseteq components'
  <2>1. Registered(worker[v]) \subseteq components
    BY Zenon DEF Owned
  <2> QED
    BY <1>1, <2>1, Zenon
<1>6. ASSUME NEW v \in Workers, NEW p \in plugins PROVE Registered(worker'[v]) \cap Parts(p) = {}
  <2>1. Registered(worker[v]) \cap Parts(p) = {}
    BY Zenon DEF Owned
  <2> QED
    BY <1>1, <1>2, <2>1, Zenon
<1>7. ASSUME NEW u \in Workers, NEW v \in Workers, u # v
      PROVE  Registered(worker'[u]) \cap Registered(worker'[v]) = {}
  <2>1. Registered(worker[u]) \cap Registered(worker[v]) = {}
    BY <1>7, Zenon DEF Owned
  <2>2. CASE u # w /\ v # w
    BY <1>1, <2>1, <2>2, Zenon
  <2>3. CASE u = w
    BY <1>1, <1>2, <1>7, <2>1, <2>3, Zenon
  <2>4. CASE v = w
    BY <1>1, <1>2, <1>7, <2>1, <2>4, Zenon
  <2> QED
    BY <2>2, <2>3, <2>4, Zenon
<1> QED
  BY <1>3, <1>4, <1>5, <1>6, <1>7, Zenon DEF Owned

\* The call of w has registered all of a plugin, which is stored.
LEMMA OwnedStored ==
  ASSUME Owned, NEW w \in Workers, Stay(w), NEW p, components' = components, plugins' = plugins \cup {p},
         Registered(worker[w]) = Parts(p), Registered(worker'[w]) = {}
  PROVE  Owned'
<1>1. ASSUME NEW v \in Workers PROVE (v # w /\ Registered(worker'[v]) = Registered(worker[v])) \/ Registered(worker'[v]) = {}
  BY Zenon DEF Stay
<1>2. Parts(p) \subseteq components /\ \A q \in plugins : Parts(p) \cap Parts(q) = {}
  BY Zenon DEF Owned
<1>3. \A v \in Workers : v # w => Registered(worker[v]) \cap Parts(p) = {}
  BY Zenon DEF Owned
<1>4. \A q \in plugins' : Parts(q) \subseteq components'
  BY <1>2, Zenon DEF Owned
<1>5. \A q, r \in plugins' : q # r => Parts(q) \cap Parts(r) = {}
  BY <1>2, Zenon DEF Owned
<1>6. ASSUME NEW v \in Workers PROVE Registered(worker'[v]) \subseteq components'
  BY <1>1, Zenon DEF Owned
<1>7. ASSUME NEW v \in Workers, NEW q \in plugins' PROVE Registered(worker'[v]) \cap Parts(q) = {}
  <2>1. q = p \/ q \in plugins
    BY <1>7, Zenon
  <2>2. q \in plugins => Registered(worker[v]) \cap Parts(q) = {}
    BY Zenon DEF Owned
  <2> QED
    BY <1>1, <1>3, <2>1, <2>2, Zenon
<1>8. ASSUME NEW u \in Workers, NEW v \in Workers, u # v
      PROVE  Registered(worker'[u]) \cap Registered(worker'[v]) = {}
  <2>1. Registered(worker[u]) \cap Registered(worker[v]) = {}
    BY <1>8, Zenon DEF Owned
  <2> QED
    BY <1>1, <2>1, Zenon
<1> QED
  BY <1>4, <1>5, <1>6, <1>7, <1>8, Zenon DEF Owned

\* A plugin is loaded, of whose components none is there.
LEMMA OwnedLoaded ==
  ASSUME Owned, worker' = worker, NEW p, Parts(p) \cap components = {},
         components' = components \cup Parts(p), plugins' = plugins \cup {p}
  PROVE  Owned'
<1>1. /\ \A q \in plugins : Parts(p) \cap Parts(q) = {}
      /\ \A v \in Workers : Registered(worker[v]) \cap Parts(p) = {}
  BY Zenon DEF Owned
<1>2. \A q \in plugins' : Parts(q) \subseteq components'
  BY Zenon DEF Owned
<1>3. \A q, r \in plugins' : q # r => Parts(q) \cap Parts(r) = {}
  BY <1>1, Zenon DEF Owned
<1>4. \A v \in Workers : Registered(worker[v]) \subseteq components'
  BY Zenon DEF Owned
<1>5. \A v \in Workers, q \in plugins' : Registered(worker[v]) \cap Parts(q) = {}
  BY <1>1, Zenon DEF Owned
<1>6. \A u, v \in Workers : u # v => Registered(worker[u]) \cap Registered(worker[v]) = {}
  BY Zenon DEF Owned
<1> QED
  BY <1>2, <1>3, <1>4, <1>5, <1>6, Zenon DEF Owned

\* A plugin is unregistered, with its components.
LEMMA OwnedLess ==
  ASSUME Owned, NEW w \in Workers, Stay(w), Registered(worker'[w]) = {},
         NEW p \in plugins, components' = components \ Parts(p), plugins' = plugins \ {p}
  PROVE  Owned'
<1>1. ASSUME NEW v \in Workers PROVE Registered(worker'[v]) \subseteq Registered(worker[v])
  BY Zenon DEF Stay
<1>2. \A q \in plugins' : Parts(q) \subseteq components'
  BY Zenon DEF Owned
<1>3. \A q, r \in plugins' : q # r => Parts(q) \cap Parts(r) = {}
  BY Zenon DEF Owned
<1>4. ASSUME NEW v \in Workers PROVE Registered(worker'[v]) \subseteq components'
  <2>1. Registered(worker[v]) \subseteq components /\ Registered(worker[v]) \cap Parts(p) = {}
    BY Zenon DEF Owned
  <2> QED
    BY <1>1, <2>1, Zenon
<1>5. \A v \in Workers, q \in plugins' : Registered(worker'[v]) \cap Parts(q) = {}
  BY <1>1, Zenon DEF Owned
<1>6. \A u, v \in Workers : u # v => Registered(worker'[u]) \cap Registered(worker'[v]) = {}
  BY <1>1, Zenon DEF Owned
<1> QED
  BY <1>2, <1>3, <1>4, <1>5, <1>6, Zenon DEF Owned

\* A step of one worker that leaves the registry alone.
LEMMA WholeKept ==
  ASSUME Whole, NEW w \in Workers, Stay(w), UNCHANGED registry, Registered(worker'[w]) = {}
  PROVE  Whole'
<1>1. components' = components /\ plugins' = plugins /\ parted' = parted
  BY Zenon DEF registry
<1> QED
  BY <1>1, OwnedKept, Zenon DEF Whole

\* A call that begins keeps the plugins whole.
LEMMA WholeRequest ==
  ASSUME Types, Whole, NEW w \in Workers, Request(w) PROVE Whole'
<1>1. ASSUME NEW id \in Ids, NEW b \in Bodies, Save(w, id, b) PROVE Whole'
  <2>1. /\ Stay(w) /\ UNCHANGED <<others, pool, files>>
        /\ worker'[w].pc \in {"load", "reload"}
    BY <1>1, SaveStep
  <2>2. Registered(worker'[w]) = {}
    BY <2>1, NotRegistering
  <2> QED
    BY <2>1, <2>2, WholeKept, Zenon DEF others
<1>2. ASSUME NEW id \in Ids, Del(w, id) PROVE Whole'
  <2>1. Stay(w) /\ worker'[w].pc = "stop" /\ UNCHANGED <<others, pool, files>>
    BY <1>2, DelStep, Zenon
  <2>2. Registered(worker'[w]) = {}
    BY <2>1, NotRegistering
  <2> QED
    BY <2>1, <2>2, WholeKept, Zenon DEF others
<1>3. ASSUME StopAll(w) PROVE Whole'
  <2>1. Stay(w) /\ worker'[w].pc = "range" /\ UNCHANGED <<others, pool, files>>
    BY <1>3, StopAllStep, Zenon
  <2>2. Registered(worker'[w]) = {}
    BY <2>1, NotRegistering
  <2> QED
    BY <2>1, <2>2, WholeKept, Zenon DEF others
<1>4. ASSUME NEW p \in Plugins, RegisterPlugin(w, p) PROVE Whole'
  <2>1. /\ Stay(w) /\ UNCHANGED <<rules, registry>>
        /\ \/ worker'[w] = Idle
           \/ worker'[w].pc = "register" /\ worker'[w].body = p /\ worker'[w].todo = Provides[p]
    BY <1>4, RegisterPluginStep, Zenon
  <2>2. Registered(worker'[w]) = {}
    <3>1. CASE worker'[w] = Idle
      BY <3>1, IdleRec, NotRegistering
    <3>2. CASE worker'[w].pc = "register" /\ worker'[w].body = p /\ worker'[w].todo = Provides[p]
      BY <3>2, Zenon DEF Registered
    <3> QED
      BY <2>1, <3>1, <3>2, Zenon
  <2> QED
    BY <2>1, <2>2, WholeKept, Zenon
<1>5. ASSUME NEW x \in plugins \cup components, Unregister(w, x) PROVE Whole'
  <2>1. /\ Stay(w) /\ worker'[w] = Idle /\ parted' = (parted \/ x \in components)
        /\ components' = components \ (IF x \in plugins THEN Range(Provides[x]) ELSE {x})
        /\ plugins' = plugins \ {x}
    BY <1>5, UnregisterStep, Zenon
  <2>2. Registered(worker'[w]) = {}
    BY <2>1, IdleRec, NotRegistering
  <2>3. CASE parted \/ x \in components
    BY <2>1, <2>3, Zenon DEF Whole
  <2>4. CASE ~parted /\ x \notin components
    <3>1. x \in plugins /\ Owned /\ components' = components \ Parts(x)
      BY <1>5, <2>1, <2>4, Zenon DEF Whole, Parts
    <3>2. Owned'
      BY <2>1, <2>2, <3>1, OwnedLess, Zenon
    <3> QED
      BY <3>2, Zenon DEF Whole
  <2> QED
    BY <2>3, <2>4, Zenon
<1>6. ASSUME \E n \in DebugNodes : OnDebug(w, n) \/ GetToPage(w, n) PROVE Whole'
  <2>1. Stay(w) /\ worker'[w].pc \in {"idle", "record", "push", "sort"} /\ UNCHANGED notDebug
    BY <1>6, DebugStep, Zenon
  <2>2. Registered(worker'[w]) = {}
    BY <2>1, NotRegistering
  <2> QED
    BY <2>1, <2>2, WholeKept, Zenon DEF notDebug
<1> QED
  BY <1>1, <1>2, <1>3, <1>4, <1>5, <1>6, Zenon DEF Request, PostDsl

\* The steps of a call for a chain, or with debug data, are not at "register".
LEMMA Elsewhere ==
  ASSUME Types, NEW w \in Workers, Work(w), ~Register(w)
  PROVE  Stay(w) /\ worker'[w].pc # "register" /\ worker[w].pc # "register" /\ UNCHANGED registry
<1>1. CASE Reload(w)
  BY <1>1, ReloadStep DEF others
<1>2. CASE NewLoad(w)
  BY <1>2, NewLoadStep DEF others
<1>3. CASE NewMake(w)
  BY <1>3, MakeStep, Zenon DEF others
<1>4. CASE NewStore(w)
  BY <1>4, NewStoreStep DEF others
<1>5. CASE OpenFile(w)
  BY <1>5, OpenFileStep DEF others
<1>6. CASE WriteFile(w)
  BY <1>6, WriteFileStep, IdleRec DEF others
<1>7. CASE RangeNext(w)
  BY <1>7, RangeStep, IdleRec DEF others
<1>8. CASE Stop(w)
  BY <1>8, StopStep, Zenon DEF others
<1>9. CASE Delete(w)
  BY <1>9, DeleteStep DEF others
<1>10. CASE Record(w) \/ Add(w) \/ Sort(w)
  BY <1>10, DebugStep DEF notDebug
<1>11. CASE SaveFails(w)
  BY <1>11, SaveFailsStep, IdleRec DEF others
<1> QED
  BY <1>1, <1>2, <1>3, <1>4, <1>5, <1>6, <1>7, <1>8, <1>9, <1>10, <1>11, Zenon DEF Work

\* RegisterPlugin keeps the plugins whole.
LEMMA WholeRegister ==
  ASSUME Types, Whole, NEW w \in Workers, Register(w) PROVE Whole'
<1>1. /\ Stay(w) /\ worker[w].pc = "register" /\ parted' = parted
      /\ worker[w].body \in Plugins /\ worker[w].todo \in Seq(Components)
  <2>1. Stay(w) /\ worker[w].pc = "register" /\ UNCHANGED <<rules, calls, parted>>
    BY RegisterStep, Zenon
  <2>2. Proper(worker[w], made)
    BY Zenon DEF Types
  <2> QED
    BY <2>1, <2>2, Zenon DEF Proper
<1>2. CASE parted
  BY <1>1, <1>2, Zenon DEF Whole
<1>3. CASE ~parted
  <2>0. Owned
    BY <1>3, Zenon DEF Whole
  <2>1. CASE /\ worker[w].todo = <<>> /\ worker'[w] = Idle
             /\ plugins' = plugins \cup {worker[w].body} /\ components' = components
    <3>1. Range(worker[w].todo) = {}
      BY <2>1 DEF Range
    <3>2. Registered(worker[w]) = Parts(worker[w].body)
      BY <1>1, <3>1, Zenon DEF Registered, Parts
    <3>3. Registered(worker'[w]) = {}
      BY <2>1, IdleRec, NotRegistering
    <3> QED
      BY <1>1, <2>0, <2>1, <3>2, <3>3, OwnedStored, Zenon DEF Whole
  <2>2. CASE /\ worker[w].todo # <<>> /\ worker'[w].pc = "register" /\ worker'[w].body = worker[w].body
             /\ worker'[w].todo = Tail(worker[w].todo) /\ Head(worker[w].todo) \notin components
             /\ components' = components \cup {Head(worker[w].todo)} /\ plugins' = plugins
    <3>1. Range(worker[w].todo) = {Head(worker[w].todo)} \cup Range(Tail(worker[w].todo))
      BY <1>1, <2>2, HeadTail, Zenon
    <3>2. Registered(worker'[w]) \subseteq Registered(worker[w]) \cup {Head(worker[w].todo)}
      BY <1>1, <2>2, <3>1, Zenon DEF Registered
    <3> QED
      BY <1>1, <2>0, <2>2, <3>2, OwnedMore, Zenon DEF Whole
  <2>3. CASE worker'[w] = Idle /\ components' = components /\ plugins' = plugins
    <3>1. Registered(worker'[w]) = {}
      BY <2>3, IdleRec, NotRegistering
    <3> QED
      BY <1>1, <2>0, <2>3, <3>1, OwnedKept, Zenon DEF Whole
  <2> QED
    BY <2>1, <2>2, <2>3, RegisterStep, Zenon
<1> QED
  BY <1>2, <1>3, Zenon

\* Every step keeps the plugins whole.
LEMMA WholeStep ==
  ASSUME Types, Whole, [Next]_vars PROVE Whole'
<1>1. ASSUME NEW w \in Workers, Work(w) PROVE Whole'
  <2>1. CASE Register(w)
    BY <2>1, WholeRegister, Zenon
  <2>2. CASE ~Register(w)
    <3>1. Stay(w) /\ worker'[w].pc # "register" /\ UNCHANGED registry
      BY <1>1, <2>2, Elsewhere, Zenon
    <3> QED
      BY <3>1, NotRegistering, WholeKept, Zenon
  <2> QED
    BY <2>1, <2>2, Zenon
<1>2. CASE LoadPlugin
  <2>1. worker' = worker /\ parted' = parted
    BY <1>2, Zenon DEF LoadPlugin
  <2> DEFINE p == Head(boot.plugins)
  <2>2. CASE Fits(p)
    <3>1. components' = components \cup Parts(p) /\ plugins' = plugins \cup {p} /\ Parts(p) \cap components = {}
      BY <1>2, <2>2, Zenon DEF LoadPlugin, Fits, Registers, Parts
    <3> QED
      BY <2>1, <3>1, OwnedLoaded, Zenon DEF Whole
  <2>3. CASE ~Fits(p)
    <3>1. components' = components /\ plugins' = plugins
      BY <1>2, <2>3, Zenon DEF LoadPlugin
    <3> QED
      BY <2>1, <3>1, Zenon DEF Whole, Owned
  <2> QED
    BY <2>2, <2>3, Zenon
<1>3. CASE Crash
  <2>1. plugins' = {} /\ components' = Builtin /\ worker' = [w \in Workers |-> Idle]
    BY <1>3, Zenon DEF Crash
  <2>2. \A w \in Workers : Registered(worker'[w]) = {}
    BY <2>1, IdleRec, NotRegistering
  <2> QED
    BY <2>1, <2>2, Zenon DEF Whole, Owned
<1>4. ASSUME (\E n \in DebugNodes : Take(n)) \/ Serve \/ LoadRules \/ UNCHANGED vars
      PROVE  Whole'
  <2>1. UNCHANGED <<worker, registry>>
    BY <1>4, Zenon DEF Take, Serve, LoadRules, LoadNext, notDebug, vars
  <2>2. worker' = worker /\ components' = components /\ plugins' = plugins /\ parted' = parted
    BY <2>1, Zenon DEF registry
  <2> QED
    BY <2>2, Zenon DEF Whole, Owned
<1> QED
  BY <1>1, <1>2, <1>3, <1>4, WholeRequest, Zenon DEF Next, InitRuleGo

(***************************************************************************)
(* A plugin in the registry is whole, in every interleaving of calls that  *)
(* register and unregister plugins.                                        *)
(***************************************************************************)
THEOREM PluginsAreWhole == Spec => []PluginIsWhole
<1>1. Init => Types /\ Whole
  <2> SUFFICES ASSUME Init PROVE Whole
    BY TypesInit, Zenon
  <2>1. plugins = {} /\ \A w \in Workers : worker[w] = Idle
    BY Zenon DEF Init
  <2>2. \A w \in Workers : Registered(worker[w]) = {}
    BY <2>1, IdleRec, NotRegistering
  <2> QED
    BY <2>1, <2>2, Zenon DEF Whole, Owned
<1>2. Types /\ Whole /\ [Next]_vars => (Types /\ Whole)'
  BY TypesStep, WholeStep, Zenon
<1>3. Types /\ Whole => PluginIsWhole
  BY Zenon DEF Whole, Owned, PluginIsWhole, Parts
<1> QED
  BY <1>1, <1>2, <1>3, PTL DEF Spec

\* An engine is in the pool under one id.
OneId == \A id, od \in Ids : ruleEngines[id] # None /\ ruleEngines[id] = ruleEngines[od] => id = od

\* The worker has an engine in its hands.
HasEngine(r) == r.pc \in {"reload", "store", "stop", "delete"}

\* An engine that waits to be stored is alive, and nobody else has it.
Own ==
  \A w \in Workers : worker[w].pc = "store" =>
    /\ engine[worker[w].eng].live /\ \A id \in Ids : ruleEngines[id] # worker[w].eng
    /\ \A v \in Workers \ {w} : HasEngine(worker[v]) => worker[v].eng # worker[w].eng

\* An engine that is reloaded or stopped is in the pool under the id of the call, or not at all.
Named ==
  \A w \in Workers : worker[w].pc \in {"reload", "stop", "delete"} =>
    \A id \in Ids : ruleEngines[id] = worker[w].eng => id = worker[w].id

\* A stopped engine is about to leave the pool.
Leaves ==
  \A id \in Ids : ruleEngines[id] # None /\ ~engine[ruleEngines[id]].live =>
    \E w \in Workers : worker[w].pc = "delete" /\ worker[w].id = id

Engines == OneId /\ Own /\ Named /\ Leaves

\* An engine in the hands of a worker was made.
LEMMA HeldEngine ==
  ASSUME Types, NEW w \in Workers, HasEngine(worker[w])
  PROVE  worker[w].eng \in 1..MaxEngines /\ worker[w].eng \in 1..made
<1>1. worker[w].eng \in 1..made /\ PoolType
  BY Zenon DEF Types, Proper, HasEngine
<1> QED
  BY <1>1, Constants DEF PoolType

\* An engine of the pool was made.
LEMMA PooledEngine ==
  ASSUME Types, NEW id \in Ids, ruleEngines[id] # None
  PROVE  ruleEngines[id] \in 1..MaxEngines /\ ruleEngines[id] \in 1..made
<1>1. ruleEngines[id] \in 1..made /\ PoolType
  BY PoolOf, Zenon DEF Types
<1> QED
  BY <1>1, Constants DEF PoolType

\* A step of a worker that leaves the pool alone: it ends with no engine, or with the one
\* that the pool has under its id.
LEMMA EnginesKept ==
  ASSUME Engines, NEW w \in Workers, Stay(w), UNCHANGED pool, worker[w].pc # "delete",
         worker'[w].pc \notin {"store", "delete"},
         HasEngine(worker'[w]) => worker'[w].id \in Ids /\ worker'[w].eng = ruleEngines[worker'[w].id]
                                  /\ worker'[w].eng # None
  PROVE  Engines'
<1>1. ruleEngines' = ruleEngines /\ engine' = engine /\ \A v \in Workers : v # w => worker'[v] = worker[v]
  BY Zenon DEF pool, Stay
<1>2. OneId'
  BY <1>1, Zenon DEF OneId, Engines
<1>3. ASSUME NEW u \in Workers, worker'[u].pc = "store"
      PROVE  /\ engine[worker'[u].eng].live /\ \A id \in Ids : ruleEngines[id] # worker'[u].eng
             /\ \A v \in Workers \ {u} : HasEngine(worker'[v]) => worker'[v].eng # worker'[u].eng
  <2>1. u # w
    BY <1>3, Zenon
  <2>2. /\ worker'[u] = worker[u] /\ engine[worker[u].eng].live
        /\ \A id \in Ids : ruleEngines[id] # worker[u].eng
        /\ \A v \in Workers \ {u} : HasEngine(worker[v]) => worker[v].eng # worker[u].eng
    BY <1>1, <1>3, <2>1, Zenon DEF Engines, Own
  <2>3. ASSUME NEW v \in Workers \ {u}, HasEngine(worker'[v]) PROVE worker'[v].eng # worker'[u].eng
    <3>1. CASE v = w
      BY <2>2, <2>3, <3>1, Zenon
    <3>2. CASE v # w
      BY <1>1, <2>2, <2>3, <3>2, Zenon
    <3> QED
      BY <3>1, <3>2, Zenon
  <2> QED
    BY <2>2, <2>3, Zenon
<1>4. ASSUME NEW u \in Workers, worker'[u].pc \in {"reload", "stop", "delete"},
             NEW id \in Ids, ruleEngines[id] = worker'[u].eng
      PROVE  id = worker'[u].id
  <2>1. CASE u = w
    <3>1. HasEngine(worker'[w])
      BY <1>4, <2>1, Zenon DEF HasEngine
    <3> QED
      BY <1>4, <2>1, <3>1, Zenon DEF Engines, OneId
  <2>2. CASE u # w
    <3>1. worker'[u] = worker[u]
      BY <1>1, <2>2, Zenon
    <3>2. worker[u].pc \in {"reload", "stop", "delete"} /\ ruleEngines[id] = worker[u].eng
      BY <1>4, <3>1, Zenon
    <3>3. id = worker[u].id
      BY <3>2, Zenon DEF Engines, Named
    <3> QED
      BY <3>1, <3>3, Zenon
  <2> QED
    BY <2>1, <2>2, Zenon
<1>5. ASSUME NEW id \in Ids, ruleEngines[id] # None, ~engine[ruleEngines[id]].live
      PROVE  \E u \in Workers : worker'[u].pc = "delete" /\ worker'[u].id = id
  <2>1. PICK u \in Workers : worker[u].pc = "delete" /\ worker[u].id = id
    BY <1>5, Zenon DEF Engines, Leaves
  <2> QED
    BY <1>1, <2>1, Zenon
<1>6. Own'
  BY <1>1, <1>3, Zenon DEF Own
<1>7. Named'
  BY <1>1, <1>4, Zenon DEF Named
<1>8. Leaves'
  BY <1>1, <1>5, Zenon DEF Leaves
<1> QED
  BY <1>2, <1>6, <1>7, <1>8, Zenon DEF Engines

\* New: an engine is made, that nobody else has.
LEMMA EnginesMake ==
  ASSUME Types, Engines, NEW w \in Workers, NewMake(w) PROVE Engines'
<1>1. /\ Stay(w) /\ worker[w].pc = "make" /\ ruleEngines' = ruleEngines
      /\ \A v \in Workers : v # w => worker'[v] = worker[v]
  BY MakeStep, Zenon DEF Stay
<1>2. CASE worker'[w].pc = "open" /\ UNCHANGED <<engine, made>>
  <2>1. worker'[w].pc = "open" /\ UNCHANGED pool
    BY <1>1, <1>2, Zenon DEF pool
  <2> QED
    BY <1>1, <2>1, EnginesKept, Zenon DEF HasEngine
<1>3. CASE /\ worker'[w].pc = "store" /\ worker'[w].eng = made + 1 /\ made < MaxEngines
           /\ engine' = [engine EXCEPT ![made + 1] = [dsl |-> worker[w].body, live |-> TRUE]]
  <2>1. /\ worker'[w].pc = "store" /\ worker'[w].eng = made + 1
        /\ engine' = [engine EXCEPT ![made + 1] = [dsl |-> worker[w].body, live |-> TRUE]]
        /\ made < MaxEngines
    BY <1>3, Zenon
  <2>2. made \in Nat /\ made + 1 \in 1..MaxEngines /\ engine \in [1..MaxEngines -> [dsl : Bodies \cup {None}, live : BOOLEAN]]
    BY <2>1, Constants DEF Types, PoolType
  <2>3. engine'[made + 1].live /\ \A e \in 1..MaxEngines : e # made + 1 => engine'[e] = engine[e]
    BY <2>1, <2>2
  <2>4. ASSUME NEW id \in Ids PROVE ruleEngines[id] # made + 1
    <3>1. ruleEngines[id] \in 1..made \cup {None}
      BY PoolOf, Zenon DEF Types
    <3> QED
      BY <2>2, <3>1, Constants
  <2>5. ASSUME NEW v \in Workers, HasEngine(worker[v]) PROVE worker[v].eng # made + 1
    <3>1. worker[v].eng \in 1..made
      BY <2>5, Zenon DEF Types, Proper, HasEngine
    <3> QED
      BY <2>2, <3>1
  <2>6. OneId'
    BY <1>1, Zenon DEF OneId, Engines
  <2>7. ASSUME NEW u \in Workers, worker'[u].pc = "store"
        PROVE  /\ engine'[worker'[u].eng].live /\ \A id \in Ids : ruleEngines[id] # worker'[u].eng
               /\ \A v \in Workers \ {u} : HasEngine(worker'[v]) => worker'[v].eng # worker'[u].eng
    <3>1. CASE u = w
      BY <1>1, <2>1, <2>3, <2>4, <2>5, <3>1, Zenon
    <3>2. CASE u # w
      <4>1. worker'[u] = worker[u] /\ HasEngine(worker[u]) /\ worker[u].pc = "store"
        BY <1>1, <2>7, <3>2, Zenon DEF HasEngine
      <4>2. /\ engine[worker[u].eng].live /\ \A id \in Ids : ruleEngines[id] # worker[u].eng
            /\ \A v \in Workers \ {u} : HasEngine(worker[v]) => worker[v].eng # worker[u].eng
        BY <4>1, Zenon DEF Engines, Own
      <4>3. worker[u].eng # made + 1
        BY <2>5, <4>1, Zenon
      <4>4. ASSUME NEW v \in Workers \ {u}, HasEngine(worker'[v]) PROVE worker'[v].eng # worker[u].eng
        BY <1>1, <2>1, <4>2, <4>3, <4>4, Zenon
      <4>5. worker[u].eng \in 1..MaxEngines
        BY <4>1, HeldEngine, Zenon
      <4> QED
        BY <2>3, <4>1, <4>2, <4>3, <4>4, <4>5, Zenon
    <3> QED
      BY <3>1, <3>2, Zenon
  <2>8. ASSUME NEW u \in Workers, worker'[u].pc \in {"reload", "stop", "delete"},
               NEW id \in Ids, ruleEngines[id] = worker'[u].eng
        PROVE  id = worker'[u].id
    <3>1. u # w
      BY <2>1, <2>8
    <3> QED
      BY <1>1, <2>8, <3>1, Zenon DEF Engines, Named
  <2>9. ASSUME NEW id \in Ids, ruleEngines[id] # None, ~engine'[ruleEngines[id]].live
        PROVE  \E u \in Workers : worker'[u].pc = "delete" /\ worker'[u].id = id
    <3>0. ruleEngines[id] \in 1..MaxEngines
      BY <2>9, PooledEngine, Zenon
    <3>1. ~engine[ruleEngines[id]].live
      BY <2>3, <2>4, <2>9, <3>0, Zenon
    <3>2. PICK u \in Workers : worker[u].pc = "delete" /\ worker[u].id = id
      BY <2>9, <3>1, Zenon DEF Engines, Leaves
    <3> QED
      BY <1>1, <3>2, Zenon
  <2> QED
    BY <1>1, <2>6, <2>7, <2>8, <2>9, Zenon DEF Engines, Own, Named, Leaves
<1> QED
  BY <1>2, <1>3, MakeStep, Zenon

\* New: the engine is stored under the id of the call.
LEMMA EnginesStore ==
  ASSUME Types, Engines, NEW w \in Workers, NewStore(w) PROVE Engines'
<1> DEFINE e == worker[w].eng
           d == worker[w].id
<1>1. /\ worker[w].pc = "store" /\ worker'[w].pc = "open" /\ engine' = engine
      /\ ruleEngines' = [ruleEngines EXCEPT ![d] = e] /\ \A v \in Workers : v # w => worker'[v] = worker[v]
  BY NewStoreStep, Zenon DEF Stay
<1>2. /\ d \in Ids /\ e \in 1..made /\ ruleEngines \in [Ids -> 1..made \cup {None}]
  BY <1>1, Zenon DEF Types, Proper, PoolType
<1>3. ruleEngines'[d] = e /\ \A id \in Ids : id # d => ruleEngines'[id] = ruleEngines[id]
  BY <1>1, <1>2, Zenon
<1>4. /\ engine[e].live /\ \A id \in Ids : ruleEngines[id] # e
      /\ \A v \in Workers \ {w} : HasEngine(worker[v]) => worker[v].eng # e
  BY <1>1, Zenon DEF Engines, Own
<1> HIDE DEF e, d
<1>5. OneId'
  <2>1. ASSUME NEW id \in Ids, NEW od \in Ids, ruleEngines'[id] # None, ruleEngines'[id] = ruleEngines'[od]
        PROVE  id = od
    <3>1. CASE id = d \/ od = d
      BY <1>3, <1>4, <2>1, <3>1, Zenon
    <3>2. CASE id # d /\ od # d
      BY <1>3, <2>1, <3>2, Zenon DEF Engines, OneId
    <3> QED
      BY <3>1, <3>2, Zenon
  <2> QED
    BY <2>1, Zenon DEF OneId
<1>6. ASSUME NEW u \in Workers, HasEngine(worker'[u])
      PROVE  u # w /\ worker'[u] = worker[u] /\ HasEngine(worker[u]) /\ worker[u].eng # e
  <2>1. u # w
    BY <1>1, <1>6 DEF HasEngine
  <2> QED
    BY <1>1, <1>4, <1>6, <2>1, Zenon
<1>7. Own'
  <2>1. ASSUME NEW u \in Workers, worker'[u].pc = "store"
        PROVE  /\ engine'[worker'[u].eng].live /\ \A id \in Ids : ruleEngines'[id] # worker'[u].eng
               /\ \A v \in Workers \ {u} : HasEngine(worker'[v]) => worker'[v].eng # worker'[u].eng
    <3>1. worker'[u] = worker[u] /\ worker[u].pc = "store" /\ worker[u].eng # e
      BY <1>6, <2>1, Zenon DEF HasEngine
    <3>2. /\ engine[worker[u].eng].live /\ \A id \in Ids : ruleEngines[id] # worker[u].eng
          /\ \A v \in Workers \ {u} : HasEngine(worker[v]) => worker[v].eng # worker[u].eng
      BY <3>1, Zenon DEF Engines, Own
    <3>3. ASSUME NEW id \in Ids PROVE ruleEngines'[id] # worker[u].eng
      BY <1>3, <3>1, <3>2, Zenon
    <3>4. ASSUME NEW v \in Workers \ {u}, HasEngine(worker'[v]) PROVE worker'[v].eng # worker[u].eng
      BY <1>6, <3>2, <3>4, Zenon
    <3>5. engine'[worker[u].eng].live
      BY <1>1, <3>2, Zenon
    <3> QED
      BY <3>1, <3>3, <3>4, <3>5, Zenon
  <2> QED
    BY <2>1, Zenon DEF Own
<1>8. Named'
  <2>1. ASSUME NEW u \in Workers, worker'[u].pc \in {"reload", "stop", "delete"},
               NEW id \in Ids, ruleEngines'[id] = worker'[u].eng
        PROVE  id = worker'[u].id
    <3>1. worker'[u] = worker[u] /\ worker[u].eng # e
      BY <1>6, <2>1, Zenon DEF HasEngine
    <3> QED
      BY <1>3, <2>1, <3>1, Zenon DEF Engines, Named
  <2> QED
    BY <2>1, Zenon DEF Named
<1>9. Leaves'
  <2>1. ASSUME NEW id \in Ids, ruleEngines'[id] # None, ~engine'[ruleEngines'[id]].live
        PROVE  \E u \in Workers : worker'[u].pc = "delete" /\ worker'[u].id = id
    <3>1. ruleEngines'[id] = ruleEngines[id]
      BY <1>1, <1>3, <1>4, <2>1, Zenon
    <3>2. PICK u \in Workers : worker[u].pc = "delete" /\ worker[u].id = id
      BY <1>1, <2>1, <3>1, Zenon DEF Engines, Leaves
    <3> QED
      BY <1>1, <3>2
  <2> QED
    BY <2>1, Zenon DEF Leaves
<1> QED
  BY <1>5, <1>7, <1>8, <1>9, Zenon DEF Engines

\* An engine in the hands of w is reloaded, or stopped: w ends with no engine, or with the
\* stopped one, which it will take out of the pool.
LEMMA EnginesChange ==
  ASSUME Types, Engines, NEW w \in Workers, Reload(w) \/ Stop(w) PROVE Engines'
<1> DEFINE e == worker[w].eng
<1>1. /\ worker[w].pc \in {"reload", "stop"} /\ ruleEngines' = ruleEngines
      /\ \A v \in Workers : v # w => worker'[v] = worker[v]
      /\ worker'[w].id = worker[w].id /\ worker'[w].eng = e
  BY ReloadStep, StopStep, Zenon DEF Stay, GoesOn
<1>2. e \in 1..MaxEngines /\ engine \in [1..MaxEngines -> [dsl : Bodies \cup {None}, live : BOOLEAN]]
  <2>1. e \in 1..made /\ PoolType
    BY <1>1, Zenon DEF Types, Proper
  <2> QED
    BY <2>1, Constants DEF PoolType
<1>3. \/ worker'[w].pc = "open" /\ \A x \in 1..MaxEngines : engine'[x] = engine[x] \/ engine'[x].live
      \/ worker'[w].pc = "delete" /\ \A x \in 1..MaxEngines : x # e => engine'[x] = engine[x]
  <2>1. CASE Reload(w)
    <3>1. worker'[w].pc = "open"
      BY <2>1, ReloadStep, Zenon
    <3>2. \/ engine' = engine
          \/ \E b \in Bodies \cup {None} : engine' = [engine EXCEPT ![e] = [dsl |-> b, live |-> TRUE]]
      BY <2>1, ReloadStep, Zenon
    <3>3. CASE engine' = engine
      BY <3>1, <3>3, Zenon
    <3>4. ASSUME NEW b, engine' = [engine EXCEPT ![e] = [dsl |-> b, live |-> TRUE]]
          PROVE  \A x \in 1..MaxEngines : engine'[x] = engine[x] \/ engine'[x].live
      BY <1>2, <3>4
    <3> QED
      BY <3>1, <3>2, <3>3, <3>4, Zenon
  <2>2. CASE Stop(w)
    <3>1. worker'[w].pc = "delete" /\ engine' = [engine EXCEPT ![e].live = FALSE]
      BY <2>2, StopStep, Zenon
    <3> QED
      BY <1>2, <3>1
  <2> QED
    BY <2>1, <2>2, Zenon
<1>4. OneId'
  BY <1>1, Zenon DEF OneId, Engines
<1>5. ASSUME NEW u \in Workers, HasEngine(worker'[u])
      PROVE  HasEngine(worker[u]) /\ worker'[u].eng = worker[u].eng
  <2>1. CASE u = w
    BY <1>1, <2>1 DEF HasEngine
  <2>2. CASE u # w
    BY <1>1, <1>5, <2>2, Zenon
  <2> QED
    BY <2>1, <2>2, Zenon
<1>6. Own'
  <2>1. ASSUME NEW u \in Workers, worker'[u].pc = "store"
        PROVE  /\ engine'[worker'[u].eng].live /\ \A id \in Ids : ruleEngines'[id] # worker'[u].eng
               /\ \A v \in Workers \ {u} : HasEngine(worker'[v]) => worker'[v].eng # worker'[u].eng
    <3>1. u # w
      BY <1>3, <2>1
    <3>2. worker'[u] = worker[u] /\ worker[u].pc = "store"
      BY <1>1, <2>1, <3>1, Zenon
    <3>3. /\ engine[worker[u].eng].live /\ \A id \in Ids : ruleEngines[id] # worker[u].eng
          /\ \A v \in Workers \ {u} : HasEngine(worker[v]) => worker[v].eng # worker[u].eng
      BY <3>2, Zenon DEF Engines, Own
    <3>4. HasEngine(worker[w])
      BY <1>1 DEF HasEngine
    <3>5. worker[u].eng \in 1..MaxEngines
      BY <3>2, HeldEngine DEF HasEngine
    <3>6. engine'[worker[u].eng].live
      BY <1>3, <3>1, <3>3, <3>4, <3>5, Zenon
    <3> QED
      BY <1>1, <1>5, <3>2, <3>3, <3>6, Zenon
  <2> QED
    BY <2>1, Zenon DEF Own
<1>7. Named'
  <2>1. ASSUME NEW u \in Workers, worker'[u].pc \in {"reload", "stop", "delete"},
               NEW id \in Ids, ruleEngines'[id] = worker'[u].eng
        PROVE  id = worker'[u].id
    <3>1. CASE u = w
      <4>1. \A od \in Ids : ruleEngines[od] = e => od = worker[w].id
        BY <1>1, Zenon DEF Engines, Named
      <4> QED
        BY <1>1, <2>1, <3>1, <4>1, Zenon
    <3>2. CASE u # w
      BY <1>1, <2>1, <3>2, Zenon DEF Engines, Named
    <3> QED
      BY <3>1, <3>2, Zenon
  <2> QED
    BY <2>1, Zenon DEF Named
<1>8. Leaves'
  <2>1. ASSUME NEW id \in Ids, ruleEngines'[id] # None, ~engine'[ruleEngines'[id]].live
        PROVE  \E u \in Workers : worker'[u].pc = "delete" /\ worker'[u].id = id
    <3>1. CASE engine'[ruleEngines[id]] = engine[ruleEngines[id]]
      <4>1. PICK u \in Workers : worker[u].pc = "delete" /\ worker[u].id = id
        BY <1>1, <2>1, <3>1, Zenon DEF Engines, Leaves
      <4>2. u # w
        BY <1>1, <4>1
      <4> QED
        BY <1>1, <4>1, <4>2, Zenon
    <3>2. CASE engine'[ruleEngines[id]] # engine[ruleEngines[id]]
      <4>0. ruleEngines[id] \in 1..MaxEngines
        BY <1>1, <2>1, PooledEngine, Zenon
      <4>1. worker'[w].pc = "delete" /\ ruleEngines[id] = e
        BY <1>1, <1>3, <2>1, <3>2, <4>0, Zenon
      <4>2. id = worker[w].id
        BY <1>1, <4>1, Zenon DEF Engines, Named
      <4> QED
        BY <1>1, <4>1, <4>2, Zenon
    <3> QED
      BY <3>1, <3>2, Zenon
  <2> QED
    BY <2>1, Zenon DEF Leaves
<1> QED
  BY <1>4, <1>6, <1>7, <1>8, Zenon DEF Engines

\* Del: the id leaves the pool.
LEMMA EnginesDelete ==
  ASSUME Types, Engines, NEW w \in Workers, Delete(w) PROVE Engines'
<1> DEFINE d == worker[w].id
<1>1. /\ worker[w].pc = "delete" /\ worker'[w].pc \in {"idle", "range"} /\ engine' = engine
      /\ ruleEngines' = [ruleEngines EXCEPT ![d] = None]
      /\ \A v \in Workers : v # w => worker'[v] = worker[v]
  BY DeleteStep DEF Stay
<1>2. d \in Ids /\ ruleEngines \in [Ids -> 1..made \cup {None}] /\ \A id \in Ids : ruleEngines'[id] \in {None, ruleEngines[id]}
  <2>1. d \in Ids /\ ruleEngines \in [Ids -> 1..made \cup {None}]
    BY <1>1, Zenon DEF Types, Proper, PoolType
  <2> QED
    BY <1>1, <2>1, Zenon
<1>3. ruleEngines'[d] = None
  BY <1>1, <1>2, Zenon
<1> HIDE DEF d
<1>4. OneId'
  <2>1. ASSUME NEW id \in Ids, NEW od \in Ids, ruleEngines'[id] # None, ruleEngines'[id] = ruleEngines'[od]
        PROVE  id = od
    <3>1. ruleEngines'[id] = ruleEngines[id] /\ ruleEngines'[od] = ruleEngines[od]
      BY <1>2, <2>1, Zenon
    <3> QED
      BY <2>1, <3>1, Zenon DEF Engines, OneId
  <2> QED
    BY <2>1, Zenon DEF OneId
<1>5. ASSUME NEW u \in Workers, HasEngine(worker'[u])
      PROVE  worker'[u] = worker[u] /\ HasEngine(worker[u]) /\ worker[u].eng # None
  <2>1. u # w
    BY <1>1, <1>5 DEF HasEngine
  <2>2. worker'[u] = worker[u] /\ HasEngine(worker[u])
    BY <1>1, <1>5, <2>1, Zenon
  <2> QED
    BY <2>2, HeldEngine, Constants
<1>6. Own'
  <2>1. ASSUME NEW u \in Workers, worker'[u].pc = "store"
        PROVE  /\ engine'[worker'[u].eng].live /\ \A id \in Ids : ruleEngines'[id] # worker'[u].eng
               /\ \A v \in Workers \ {u} : HasEngine(worker'[v]) => worker'[v].eng # worker'[u].eng
    <3>1. worker'[u] = worker[u] /\ worker[u].pc = "store" /\ worker[u].eng # None
      BY <1>5, <2>1, Zenon DEF HasEngine
    <3>2. /\ engine[worker[u].eng].live /\ \A id \in Ids : ruleEngines[id] # worker[u].eng
          /\ \A v \in Workers \ {u} : HasEngine(worker[v]) => worker[v].eng # worker[u].eng
      BY <3>1, Zenon DEF Engines, Own
    <3>3. \A id \in Ids : ruleEngines'[id] # worker[u].eng
      BY <1>2, <3>1, <3>2, Zenon
    <3>4. \A v \in Workers \ {u} : HasEngine(worker'[v]) => worker'[v].eng # worker[u].eng
      BY <1>5, <3>2, Zenon
    <3> QED
      BY <1>1, <3>1, <3>2, <3>3, <3>4, Zenon
  <2> QED
    BY <2>1, Zenon DEF Own
<1>7. Named'
  <2>1. ASSUME NEW u \in Workers, worker'[u].pc \in {"reload", "stop", "delete"},
               NEW id \in Ids, ruleEngines'[id] = worker'[u].eng
        PROVE  id = worker'[u].id
    <3>1. worker'[u] = worker[u] /\ worker[u].eng # None
      BY <1>5, <2>1, Zenon DEF HasEngine
    <3>2. ruleEngines[id] = worker[u].eng
      BY <1>2, <2>1, <3>1, Zenon
    <3> QED
      BY <2>1, <3>1, <3>2, Zenon DEF Engines, Named
  <2> QED
    BY <2>1, Zenon DEF Named
<1>8. Leaves'
  <2>1. ASSUME NEW id \in Ids, ruleEngines'[id] # None, ~engine'[ruleEngines'[id]].live
        PROVE  \E u \in Workers : worker'[u].pc = "delete" /\ worker'[u].id = id
    <3>1. id # d /\ ruleEngines'[id] = ruleEngines[id]
      BY <1>2, <1>3, <2>1, Zenon
    <3>2. PICK u \in Workers : worker[u].pc = "delete" /\ worker[u].id = id
      BY <1>1, <2>1, <3>1, Zenon DEF Engines, Leaves
    <3> QED
      BY <1>1, <3>1, <3>2, Zenon DEF d
  <2> QED
    BY <2>1, Zenon DEF Leaves
<1> QED
  BY <1>4, <1>6, <1>7, <1>8, Zenon DEF Engines

\* A chain is loaded at the start: the pool has a new engine under its id.
LEMMA EnginesLoad ==
  ASSUME Types, Engines, worker' = worker, NEW d \in Ids, NEW b,
         made < MaxEngines, engine' = [engine EXCEPT ![made + 1] = [dsl |-> b, live |-> TRUE]],
         ruleEngines' = [ruleEngines EXCEPT ![d] = made + 1]
  PROVE  Engines'
<1>1. /\ made \in Nat /\ made + 1 \in 1..MaxEngines /\ engine \in [1..MaxEngines -> [dsl : Bodies \cup {None}, live : BOOLEAN]]
      /\ ruleEngines \in [Ids -> 1..made \cup {None}]
  BY Constants DEF Types, PoolType
<1>2. /\ engine'[made + 1].live /\ \A e \in 1..MaxEngines : e # made + 1 => engine'[e] = engine[e]
  BY <1>1
<1>3. ruleEngines'[d] = made + 1 /\ \A id \in Ids : id # d => ruleEngines'[id] = ruleEngines[id]
  BY <1>1, Zenon
<1>4. ASSUME NEW id \in Ids PROVE ruleEngines[id] # made + 1
  <2>1. ruleEngines[id] \in 1..made \cup {None}
    BY <1>1, Zenon
  <2> QED
    BY <1>1, <2>1, Constants
<1>5. ASSUME NEW v \in Workers, HasEngine(worker[v]) PROVE worker[v].eng # made + 1 /\ worker[v].eng \in 1..MaxEngines
  BY <1>1, <1>5, HeldEngine
<1>6. OneId'
  <2>1. ASSUME NEW id \in Ids, NEW od \in Ids, ruleEngines'[id] # None, ruleEngines'[id] = ruleEngines'[od]
        PROVE  id = od
    <3>1. CASE id = d \/ od = d
      BY <1>3, <1>4, <2>1, <3>1, Zenon
    <3>2. CASE id # d /\ od # d
      BY <1>3, <2>1, <3>2, Zenon DEF Engines, OneId
    <3> QED
      BY <3>1, <3>2, Zenon
  <2> QED
    BY <2>1, Zenon DEF OneId
<1>7. Own'
  <2>1. ASSUME NEW u \in Workers, worker[u].pc = "store"
        PROVE  /\ engine'[worker[u].eng].live /\ \A id \in Ids : ruleEngines'[id] # worker[u].eng
               /\ \A v \in Workers \ {u} : HasEngine(worker[v]) => worker[v].eng # worker[u].eng
    <3>1. worker[u].eng # made + 1 /\ worker[u].eng \in 1..MaxEngines
      BY <1>5, <2>1, Zenon DEF HasEngine
    <3>2. /\ engine[worker[u].eng].live /\ \A id \in Ids : ruleEngines[id] # worker[u].eng
          /\ \A v \in Workers \ {u} : HasEngine(worker[v]) => worker[v].eng # worker[u].eng
      BY <2>1, Zenon DEF Engines, Own
    <3> QED
      BY <1>2, <1>3, <3>1, <3>2, Zenon
  <2> QED
    BY <2>1, Zenon DEF Own
<1>8. Named'
  <2>1. ASSUME NEW u \in Workers, worker[u].pc \in {"reload", "stop", "delete"},
               NEW id \in Ids, ruleEngines'[id] = worker[u].eng
        PROVE  id = worker[u].id
    <3>1. worker[u].eng # made + 1
      BY <1>5, <2>1, Zenon DEF HasEngine
    <3> QED
      BY <1>3, <2>1, <3>1, Zenon DEF Engines, Named
  <2> QED
    BY <2>1, Zenon DEF Named
<1>9. Leaves'
  <2>1. ASSUME NEW id \in Ids, ruleEngines'[id] # None, ~engine'[ruleEngines'[id]].live
        PROVE  \E u \in Workers : worker[u].pc = "delete" /\ worker[u].id = id
    <3>1. id # d /\ ruleEngines'[id] = ruleEngines[id]
      BY <1>2, <1>3, <2>1, Zenon
    <3>2. ruleEngines[id] \in 1..MaxEngines
      BY <2>1, <3>1, PooledEngine, Zenon
    <3>3. ~engine[ruleEngines[id]].live
      BY <1>2, <1>4, <2>1, <3>1, <3>2, Zenon
    <3> QED
      BY <2>1, <3>1, <3>3, Zenon DEF Engines, Leaves
  <2> QED
    BY <2>1, Zenon DEF Leaves
<1> QED
  BY <1>6, <1>7, <1>8, <1>9, Zenon DEF Engines

\* A file is loaded at the start, or is not there, or stops the server.
LEMMA LoadNextStep ==
  ASSUME Types, LoadNext
  PROVE  /\ server = "boot" /\ boot.files # <<>> /\ Head(boot.files) \in Ids
         /\ files' = files /\ worker' = worker /\ traffic' = traffic /\ sound' = sound
         /\ components' = components
         /\ \/ server' = "dead" /\ boot' = boot /\ UNCHANGED pool /\ files[Head(boot.files)] # None
               /\ MayFailAsChain(files[Head(boot.files)])
            \/ /\ server' = server /\ boot'.files = Tail(boot.files)
               /\ UNCHANGED pool
               /\ files[Head(boot.files)] \in Bodies => Inner[files[Head(boot.files)]] = None
            \/ \E b \in Bodies :
                 /\ server' = server /\ boot'.files = Tail(boot.files)
                 /\ b = files[Head(boot.files)] /\ Inner[b] \in Ids
                 /\ made < MaxEngines /\ made' = made + 1
                 /\ engine' = [engine EXCEPT ![made + 1] = [dsl |-> b, live |-> TRUE]]
                 /\ ruleEngines' = [ruleEngines EXCEPT ![Inner[b]] = made + 1]
<1> DEFINE d == Head(boot.files)
           c == files[Head(boot.files)]
<1>1. /\ server = "boot" /\ boot.files # <<>> /\ files' = files /\ worker' = worker /\ traffic' = traffic
      /\ sound' = sound /\ components' = components
  BY Zenon DEF LoadNext, registry
<1>2. /\ boot \in [plugins : Seq(Plugins), files : Seq(Ids)] /\ files \in [Ids -> Bodies \cup {None, Torn}]
  BY Zenon DEF Types
<1>3. boot.files \in Seq(Ids)
  BY <1>2, Zenon
<1>4. d \in Ids
  BY <1>1, <1>3
<1>5. c \in Bodies \cup {None, Torn}
  BY <1>2, <1>4, Zenon
<1>6. CASE c # None /\ MayFailAsChain(c) /\ server' = "dead" /\ boot' = boot /\ UNCHANGED pool
  BY <1>1, <1>4, <1>6, Zenon
<1>7. CASE /\ c # None => DecodesAsChain(c)
           /\ boot' = [boot EXCEPT !.files = Tail(boot.files)] /\ server' = server
           /\ IF c # None /\ Inner[c] # None
              THEN NewEngine(made + 1, c) /\ ruleEngines' = [ruleEngines EXCEPT ![Inner[c]] = made + 1]
              ELSE UNCHANGED pool
  <2>1. /\ boot' = [boot EXCEPT !.files = Tail(boot.files)] /\ server' = server
        /\ IF c # None /\ Inner[c] # None
           THEN NewEngine(made + 1, c) /\ ruleEngines' = [ruleEngines EXCEPT ![Inner[c]] = made + 1]
           ELSE UNCHANGED pool
    BY <1>7, Zenon
  <2>2. boot'.files = Tail(boot.files)
    BY <1>2, <2>1, Zenon
  <2>3. CASE c # None /\ Inner[c] # None
    <3>1. c \in Bodies
      BY <1>5, <1>7, <2>3, Constants, Zenon DEF Decodes, DecodesAsChain
    <3>2. Inner[c] \in Ids
      BY <2>3, <3>1, Constants, Zenon
    <3>3. /\ made < MaxEngines /\ made' = made + 1
          /\ engine' = [engine EXCEPT ![made + 1] = [dsl |-> c, live |-> TRUE]]
          /\ ruleEngines' = [ruleEngines EXCEPT ![Inner[c]] = made + 1]
      BY <2>1, <2>3, Zenon DEF NewEngine
    <3> QED
      BY <1>1, <1>4, <2>1, <2>2, <3>1, <3>2, <3>3, Zenon
  <2>4. CASE ~(c # None /\ Inner[c] # None)
    <3>1. c \in Bodies => Inner[c] = None
      BY <2>4, Constants, Zenon
    <3>2. UNCHANGED pool
      BY <2>1, <2>4, Zenon
    <3> QED
      BY <1>1, <1>4, <2>1, <2>2, <3>1, <3>2, Zenon
  <2> QED
    BY <2>3, <2>4, Zenon
<1> QED
  BY <1>6, <1>7, Zenon DEF LoadNext

\* The steps of a worker that leave the pool alone.
LEMMA EnginesRequest ==
  ASSUME Types, Engines, NEW w \in Workers, Request(w) PROVE Engines'
<1>1. ASSUME NEW id \in Ids, NEW b \in Bodies, Save(w, id, b) PROVE Engines'
  <2>1. /\ Stay(w) /\ worker[w].pc = "idle" /\ UNCHANGED <<others, pool, files>>
        /\ ruleEngines[id] = None => worker'[w].pc = "load"
        /\ ruleEngines[id] # None => worker'[w].pc = "reload"
        /\ worker'[w].id = id /\ worker'[w].eng = ruleEngines[id]
    BY <1>1, SaveStep
  <2> QED
    BY <2>1, EnginesKept DEF HasEngine
<1>2. ASSUME NEW id \in Ids, Del(w, id) PROVE Engines'
  <2>1. /\ Stay(w) /\ worker[w].pc = "idle" /\ UNCHANGED <<others, pool, files>> /\ ruleEngines[id] # None
        /\ worker'[w].pc = "stop" /\ worker'[w].id = id /\ worker'[w].eng = ruleEngines[id]
    BY <1>2, DelStep, Zenon
  <2> QED
    BY <2>1, EnginesKept DEF HasEngine
<1>3. ASSUME StopAll(w) PROVE Engines'
  <2>1. Stay(w) /\ worker[w].pc = "idle" /\ UNCHANGED <<others, pool, files>> /\ worker'[w].pc = "range"
    BY <1>3, StopAllStep, Zenon
  <2> QED
    BY <2>1, EnginesKept DEF HasEngine
<1>4. ASSUME NEW p \in Plugins, RegisterPlugin(w, p) PROVE Engines'
  <2>1. Stay(w) /\ worker[w].pc = "idle" /\ UNCHANGED <<rules, registry>> /\ worker'[w].pc \in {"idle", "register"}
    BY <1>4, RegisterPluginStep, IdleRec
  <2> QED
    BY <2>1, EnginesKept DEF HasEngine, rules
<1>5. ASSUME NEW x, Unregister(w, x) PROVE Engines'
  <2>1. Stay(w) /\ worker[w].pc = "idle" /\ UNCHANGED rules /\ worker'[w].pc = "idle"
    BY <1>5, UnregisterStep, IdleRec, Zenon
  <2> QED
    BY <2>1, EnginesKept DEF HasEngine, rules
<1>6. ASSUME \E n \in DebugNodes : OnDebug(w, n) \/ GetToPage(w, n) PROVE Engines'
  <2>1. /\ Stay(w) /\ worker[w].pc \in {"idle", "record", "push", "sort"} /\ worker'[w].pc \in {"idle", "record", "push", "sort"}
        /\ UNCHANGED notDebug
    BY <1>6, DebugStep, Zenon
  <2> QED
    BY <2>1, EnginesKept DEF HasEngine, notDebug
<1> QED
  BY <1>1, <1>2, <1>3, <1>4, <1>5, <1>6, Zenon DEF Request, PostDsl

\* The steps of the calls keep the engines apart.
LEMMA EnginesWork ==
  ASSUME Types, Engines, NEW w \in Workers, Work(w) PROVE Engines'
<1>1. CASE NewLoad(w)
  <2>1. /\ Stay(w) /\ worker[w].pc = "load" /\ worker'[w].pc \in {"open", "make"}
        /\ UNCHANGED <<others, pool, files, calls, sound>>
    BY <1>1, NewLoadStep
  <2> QED
    BY <2>1, EnginesKept, Zenon DEF HasEngine
<1>2. CASE OpenFile(w) \/ WriteFile(w) \/ SaveFails(w)
  <2>1. /\ Stay(w) /\ worker[w].pc \in {"open", "write"} /\ worker'[w].pc \in {"write", "idle"}
        /\ UNCHANGED pool
    BY <1>2, OpenFileStep, WriteFileStep, SaveFailsStep, IdleRec
  <2> QED
    BY <2>1, EnginesKept, Zenon DEF HasEngine
<1>3. CASE RangeNext(w)
  <2>1. /\ Stay(w) /\ worker[w].pc = "range" /\ UNCHANGED pool
        /\ \/ worker'[w].pc = "idle"
           \/ \E id \in Ids :
                /\ worker'[w].pc = IF ruleEngines[id] = None THEN "range" ELSE "stop"
                /\ worker'[w].id = id /\ worker'[w].eng = ruleEngines[id]
    BY <1>3, RangeStep, IdleRec, Zenon
  <2> QED
    BY <2>1, EnginesKept DEF HasEngine
<1>4. CASE Register(w)
  <2>1. Stay(w) /\ worker[w].pc = "register" /\ UNCHANGED rules /\ worker'[w].pc \in {"idle", "register"}
    BY <1>4, RegisterStep, IdleRec
  <2> QED
    BY <2>1, EnginesKept DEF HasEngine, rules
<1>5. CASE Record(w) \/ Add(w) \/ Sort(w)
  <2>1. /\ Stay(w) /\ worker[w].pc \in {"idle", "record", "push", "sort"} /\ worker'[w].pc \in {"idle", "record", "push", "sort"}
        /\ UNCHANGED notDebug
    BY <1>5, DebugStep, Zenon
  <2> QED
    BY <2>1, EnginesKept DEF HasEngine, notDebug
<1> QED
  BY <1>1, <1>2, <1>3, <1>4, <1>5, EnginesMake, EnginesStore, EnginesChange, EnginesDelete, Zenon DEF Work

\* Every step keeps the engines apart.
LEMMA EnginesStep ==
  ASSUME Types, Engines, [Next]_vars PROVE Engines'
<1>1. CASE LoadNext
  <2>1. CASE UNCHANGED pool
    <3>1. worker' = worker
      BY <1>1, LoadNextStep, Zenon
    <3> QED
      BY <2>1, <3>1, Zenon DEF pool, Engines, OneId, Own, Named, Leaves
  <2>2. ASSUME NEW b \in Bodies, Inner[b] \in Ids, made < MaxEngines,
               engine' = [engine EXCEPT ![made + 1] = [dsl |-> b, live |-> TRUE]],
               ruleEngines' = [ruleEngines EXCEPT ![Inner[b]] = made + 1]
        PROVE  Engines'
    <3>1. worker' = worker
      BY <1>1, LoadNextStep, Zenon
    <3> QED
      BY <2>2, <3>1, EnginesLoad, Zenon
  <2> QED
    BY <1>1, <2>1, <2>2, LoadNextStep, Zenon
<1>2. CASE Crash
  <2>1. ruleEngines' = [id \in Ids |-> None] /\ \A w \in Workers : worker'[w] = Idle
    BY <1>2, Zenon DEF Crash
  <2>2. \A w \in Workers : worker'[w].pc = "idle"
    BY <2>1, IdleRec, Zenon
  <2>3. \A id \in Ids : ruleEngines'[id] = None
    BY <2>1, Zenon
  <2>4. OneId' /\ Leaves'
    BY <2>3, Zenon DEF OneId, Leaves
  <2>5. Own' /\ Named'
    BY <2>2 DEF Own, Named
  <2> QED
    BY <2>4, <2>5, Zenon DEF Engines
<1>3. ASSUME (\E n \in DebugNodes : Take(n)) \/ Serve \/ LoadPlugin \/ UNCHANGED vars
      PROVE  Engines'
  <2>1. worker' = worker /\ UNCHANGED pool
    BY <1>3, Zenon DEF Take, Serve, LoadPlugin, notDebug, vars
  <2> QED
    BY <2>1, Zenon DEF pool, Engines, OneId, Own, Named, Leaves
<1> QED
  BY <1>1, <1>2, <1>3, EnginesRequest, EnginesWork, Zenon DEF Next, InitRuleGo, LoadRules

\* The server begins without engines.
LEMMA EnginesInit == Init => Engines
<1> SUFFICES ASSUME Init PROVE Engines
  OBVIOUS
<1>1. (\A id \in Ids : ruleEngines[id] = None) /\ \A w \in Workers : worker[w] = Idle
  BY Zenon DEF Init
<1>2. \A w \in Workers : worker[w].pc = "idle"
  BY <1>1, IdleRec, Zenon
<1>3. OneId /\ Leaves
  BY <1>1, Zenon DEF OneId, Leaves
<1>4. Own /\ Named
  BY <1>2 DEF Own, Named
<1> QED
  BY <1>3, <1>4, Zenon DEF Engines

(***************************************************************************)
(* The pool hands out live engines, in every interleaving of calls that    *)
(* make, reload and stop them (New, ReloadSelf, Del, Stop).                *)
(***************************************************************************)
THEOREM PooledAreLive == Spec => []PooledIsLive
<1>1. Init => Types /\ Engines
  BY TypesInit, EnginesInit, Zenon
<1>2. Types /\ Engines /\ [Next]_vars => (Types /\ Engines)'
  BY TypesStep, EnginesStep, Zenon
<1>3. Types /\ Engines => PooledIsLive
  <2> SUFFICES ASSUME Engines, NEW id \in Ids, ruleEngines[id] # None, ~Busy(id)
               PROVE  engine[ruleEngines[id]].live
    BY Zenon DEF PooledIsLive
  <2>1. ASSUME NEW w \in Workers, worker[w].pc = "delete", worker[w].id = id PROVE FALSE
    BY <2>1 DEF Busy
  <2> QED
    BY <2>1, Zenon DEF Engines, Leaves
<1> QED
  BY <1>1, <1>2, <1>3, PTL DEF Spec

\* The call is for a chain with this id, or has it in its text.
Touches(r, id) ==
  /\ r.pc # "idle"
  /\ id = r.id \/ id \in Range(r.todo) \/ (r.body \in Bodies /\ Inner[r.body] = id)

\* The pool has a live engine with this text.
Runs(id, b) ==
  ruleEngines[id] # None /\ engine[ruleEngines[id]].dsl = b /\ engine[ruleEngines[id]].live

\* How far a call has come that saves a sound chain under its own id.
Saves(r, id) ==
  /\ server = "up" /\ r.id = id /\ r.body \in Bodies /\ Inner[r.body] = id /\ ~MayFail(r.body)
  /\ \/ r.pc \in {"load", "make"} /\ ruleEngines[id] = None
     \/ r.pc = "store" /\ ruleEngines[id] = None /\ engine[r.eng].dsl = r.body /\ engine[r.eng].live
     \/ r.pc = "reload" /\ ruleEngines[id] = r.eng
     \/ r.pc = "open" /\ Runs(id, r.body)
     \/ r.pc = "write" /\ Runs(id, r.body) /\ files[id] = Torn

\* No other file has a chain with this id in it.
Alone(id) == \A od \in Ids \ {id} : files[od] \in Bodies => Inner[files[od]] # id

\* The file has the chain, which runs, or will be loaded.
Saved(id) ==
  /\ files[id] \in Bodies /\ Inner[files[id]] = id
  /\ server = "up" => Runs(id, files[id])
  /\ server = "boot" => id \in Range(boot.files) \/ Runs(id, files[id])

Sound(id) ==
  /\ \A w \in Workers : Touches(worker[w], id) => Saves(worker[w], id)
  /\ \A v, w \in Workers : Touches(worker[v], id) /\ Touches(worker[w], id) => v = w
  /\ Alone(id)
  /\ (\A w \in Workers : ~Touches(worker[w], id)) => Saved(id)

\* Calls are made while the server is up, and of one kind.
Kinds ==
  /\ traffic = "rules" => \A w \in Workers : worker[w].pc \notin {"register", "record", "push", "sort"}
  /\ traffic # "rules" => sound = {}
  /\ server # "up" => \A w \in Workers : worker[w].pc = "idle"

SoundInv == Kinds /\ \A id \in sound : id \in Ids /\ Sound(id)

\* What decodes depends on the components alone.
LEMMA SameDecodes == ASSUME components' = components, NEW b PROVE Decodes(b)' <=> Decodes(b)
BY Zenon DEF Decodes, NewNode

\* And so does what surely decodes.
LEMMA SameFails == ASSUME components' = components, NEW b PROVE MayFail(b)' <=> MayFail(b)
BY SameDecodes, Zenon DEF MayFail

\* What a step of a worker may not do to a chain that its call is not for.
LeavesAlone(w, id) ==
  /\ Stay(w) /\ ~Touches(worker[w], id) /\ ~Touches(worker'[w], id)
  /\ server' = server /\ components' = components /\ boot' = boot
  /\ ruleEngines'[id] = ruleEngines[id] /\ files'[id] = files[id]
  /\ ruleEngines[id] # None => engine'[ruleEngines[id]] = engine[ruleEngines[id]]
  /\ \A v \in Workers \ {w} : worker[v].pc = "store" => engine'[worker[v].eng] = engine[worker[v].eng]
  /\ \A od \in Ids \ {id} : files'[od] = files[od] \/ (files'[od] \in Bodies => Inner[files'[od]] # id)

\* A chain that a step leaves alone stays sound.
LEMMA SoundKept ==
  ASSUME NEW id \in Ids, Sound(id), NEW w \in Workers, LeavesAlone(w, id)
  PROVE  Sound(id)'
<1>1. ASSUME NEW v \in Workers, Touches(worker'[v], id)
      PROVE  v # w /\ worker'[v] = worker[v]
  BY <1>1, Zenon DEF LeavesAlone, Stay
<1>2. ASSUME NEW b PROVE Runs(id, b) => Runs(id, b)'
  BY Zenon DEF Runs, LeavesAlone
<1>3. ASSUME NEW b PROVE ~MayFail(b) => ~MayFail(b)'
  BY SameFails, Zenon DEF LeavesAlone
<1>4. ASSUME NEW v \in Workers, Touches(worker'[v], id)
      PROVE  Saves(worker[v], id)'
  <2>1. worker'[v] = worker[v] /\ Saves(worker[v], id) /\ v # w
    BY <1>1, <1>4, Zenon DEF Sound
  <2>2. /\ server' = server /\ ruleEngines'[id] = ruleEngines[id] /\ files'[id] = files[id]
        /\ worker[v].pc = "store" => engine'[worker[v].eng] = engine[worker[v].eng]
    BY <2>1, Zenon DEF LeavesAlone
  <2> QED
    BY <1>2, <1>3, <2>1, <2>2, Zenon DEF Saves
<1>5. ASSUME NEW u \in Workers, NEW v \in Workers, Touches(worker'[u], id), Touches(worker'[v], id)
      PROVE  u = v
  BY <1>1, <1>5, Zenon DEF Sound
<1>6. Alone(id)'
  BY Zenon DEF Alone, Sound, LeavesAlone
<1>7. ASSUME \A v \in Workers : ~Touches(worker'[v], id) PROVE Saved(id)'
  <2>1. \A v \in Workers : ~Touches(worker[v], id)
    BY <1>7, Zenon DEF LeavesAlone, Stay
  <2>2. Saved(id)
    BY <2>1, Zenon DEF Sound
  <2>3. files'[id] = files[id] /\ server' = server /\ boot' = boot
    BY Zenon DEF LeavesAlone
  <2> QED
    BY <1>2, <2>2, <2>3, Zenon DEF Saved
<1> QED
  BY <1>4, <1>5, <1>6, <1>7, Zenon DEF Sound

\* The place of a call of the kind "rules".
Ruling(r) == r.pc \notin {"idle", "register", "record", "push", "sort"}

\* What it means that a call is not for a chain.
LEMMA NotTouched ==
  ASSUME NEW r, Ruling(r), NEW id, ~Touches(r, id)
  PROVE  id # r.id /\ id \notin Range(r.todo) /\ (r.body \in Bodies => Inner[r.body] # id)
BY Zenon DEF Touches, Ruling

\* A call that goes on is for the same chains.
LEMMA StillNot ==
  ASSUME NEW r, NEW q, NEW id \in Ids, Ruling(r), ~Touches(r, id), q.id \in {r.id, None}, q.todo = r.todo, q.body = r.body
  PROVE  ~Touches(q, id)
BY NotTouched, Constants, Zenon DEF Touches

\* An idle worker has no call for a chain.
LEMMA IdleNot == ASSUME NEW id PROVE ~Touches(Idle, id)
BY IdleRec, Zenon DEF Touches

\* The steps of a call that leave the pool alone.
LEMMA AloneKept ==
  ASSUME Types, NEW id \in Ids, NEW w \in Workers, Ruling(worker[w]), ~Touches(worker[w], id),
         NewLoad(w) \/ RangeNext(w) \/ OpenFile(w) \/ WriteFile(w) \/ SaveFails(w)
  PROVE  LeavesAlone(w, id)
<1>1. /\ Stay(w) /\ UNCHANGED others /\ UNCHANGED pool
      /\ \/ files' = files
         \/ \E b : /\ files' = [files EXCEPT ![worker[w].id] = b]
                   /\ b \in Bodies => b = worker[w].body \/ b = files[worker[w].id]
  <2>1. CASE NewLoad(w)
    BY <2>1, NewLoadStep, Zenon
  <2>2. CASE RangeNext(w)
    BY <2>2, RangeStep, Zenon
  <2>3. CASE OpenFile(w)
    BY <2>3, OpenFileStep, Constants, Zenon
  <2>4. CASE WriteFile(w)
    <3>1. PICK text \in Written(files[worker[w].id], worker[w].body) :
            files' = [files EXCEPT ![worker[w].id] = text]
      BY <2>4, WriteFileStep, Zenon
    <3>2. text \in {files[worker[w].id], worker[w].body, Torn}
      BY <3>1, WrittenText, Zenon
    <3>3. Torn \notin Bodies
      BY Constants, Zenon
    <3>4. text \in Bodies => text = worker[w].body \/ text = files[worker[w].id]
      BY <3>2, <3>3, Zenon
    <3> QED
      BY <2>4, <3>1, <3>4, WriteFileStep, Zenon
  <2>5. CASE SaveFails(w)
    BY <2>5, SaveFailsStep, Constants, Zenon
  <2> QED
    BY <2>1, <2>2, <2>3, <2>4, <2>5, Zenon
<1>2. ~Touches(worker'[w], id)
  <2>1. CASE NewLoad(w) \/ OpenFile(w)
    <3>1. GoesOn(w)
      BY <2>1, NewLoadStep, OpenFileStep, Zenon
    <3> QED
      BY <3>1, StillNot, Zenon DEF GoesOn
  <2>2. CASE WriteFile(w) \/ SaveFails(w)
    BY <2>2, WriteFileStep, SaveFailsStep, IdleNot, Zenon
  <2>3. CASE RangeNext(w)
    <3>1. CASE worker'[w] = Idle
      BY <3>1, IdleNot, Zenon
    <3>2. CASE /\ worker[w].todo # <<>> /\ worker'[w].id = Head(worker[w].todo)
               /\ worker'[w].todo = Tail(worker[w].todo) /\ worker'[w].body = worker[w].body
      <4>1. worker[w].todo \in Seq(Ids)
        BY <2>3, RangeStep, Zenon DEF Types, Proper
      <4>2. Range(worker[w].todo) = {Head(worker[w].todo)} \cup Range(Tail(worker[w].todo))
        BY <3>2, <4>1, HeadTail, Zenon
      <4> QED
        BY <3>2, <4>2, NotTouched, Zenon DEF Touches
    <3> QED
      BY <2>3, <3>1, <3>2, RangeStep, Zenon
  <2> QED
    BY <2>1, <2>2, <2>3, Zenon
<1>3. server' = server /\ boot' = boot /\ components' = components /\ ruleEngines' = ruleEngines /\ engine' = engine
  BY <1>1, Zenon DEF others, registry, pool
<1>4. /\ files'[id] = files[id]
      /\ \A od \in Ids \ {id} : files'[od] = files[od] \/ (files'[od] \in Bodies => Inner[files'[od]] # id)
  <2>1. id # worker[w].id /\ (worker[w].body \in Bodies => Inner[worker[w].body] # id)
    BY NotTouched, Zenon
  <2>2. CASE files' = files
    BY <2>2, Zenon
  <2>3. ASSUME NEW b, files' = [files EXCEPT ![worker[w].id] = b],
               b \in Bodies => b = worker[w].body \/ b = files[worker[w].id]
        PROVE  /\ files'[id] = files[id]
               /\ \A od \in Ids \ {id} : files'[od] = files[od] \/ (files'[od] \in Bodies => Inner[files'[od]] # id)
    <3>1. files \in [Ids -> Bodies \cup {None, Torn}]
      BY Zenon DEF Types
    <3>2. \A od \in Ids : files'[od] = IF od = worker[w].id THEN b ELSE files[od]
      BY <2>3, <3>1, Zenon
    <3>3. files'[id] = files[id]
      BY <2>1, <3>2, Zenon
    <3>4. CASE b = files[worker[w].id]
      BY <3>2, <3>3, <3>4, Zenon
    <3>5. CASE b \in Bodies => b = worker[w].body
      BY <2>1, <3>2, <3>3, <3>5, Zenon
    <3> QED
      BY <2>3, <3>4, <3>5, Zenon
  <2>4. CASE files' # files
    <3>1. PICK b : /\ files' = [files EXCEPT ![worker[w].id] = b]
                   /\ b \in Bodies => b = worker[w].body \/ b = files[worker[w].id]
      BY <1>1, <2>4, Zenon
    <3> QED
      BY <2>3, <3>1, Zenon
  <2> QED
    BY <2>2, <2>4, Zenon
<1> QED
  BY <1>1, <1>2, <1>3, <1>4, Zenon DEF LeavesAlone

\* The steps of a call that change the pool under its id, or an engine of its own.
LEMMA AlonePool ==
  ASSUME Types, Engines, NEW id \in Ids, NEW w \in Workers, Ruling(worker[w]), ~Touches(worker[w], id),
         Reload(w) \/ NewMake(w) \/ NewStore(w) \/ Stop(w) \/ Delete(w)
  PROVE  LeavesAlone(w, id)
<1>0. id # worker[w].id /\ PoolType
  BY NotTouched, Zenon DEF Types
<1>1. Stay(w) /\ UNCHANGED others /\ files' = files /\ ~Touches(worker'[w], id)
  <2>1. CASE Reload(w) \/ NewStore(w) \/ Stop(w)
    <3>1. Stay(w) /\ UNCHANGED others /\ files' = files /\ GoesOn(w)
      BY <2>1, ReloadStep, NewStoreStep, StopStep, Zenon
    <3> QED
      BY <3>1, StillNot, Zenon DEF GoesOn
  <2>2. CASE NewMake(w)
    <3>1. /\ Stay(w) /\ UNCHANGED others /\ files' = files /\ worker'[w].id = worker[w].id
          /\ worker'[w].body = worker[w].body /\ worker'[w].todo = worker[w].todo
      BY <2>2, MakeStep, Zenon
    <3> QED
      BY <3>1, StillNot, Zenon
  <2>3. CASE Delete(w)
    <3>1. /\ Stay(w) /\ UNCHANGED others /\ files' = files /\ worker'[w].id = None
          /\ worker'[w].body = worker[w].body /\ worker'[w].todo = worker[w].todo
      BY <2>3, DeleteStep, Zenon
    <3> QED
      BY <3>1, StillNot, Zenon
  <2> QED
    BY <2>1, <2>2, <2>3, Zenon
<1>2. ruleEngines'[id] = ruleEngines[id]
  <2>1. CASE NewStore(w) \/ Delete(w)
    <3>1. \E e : ruleEngines' = [ruleEngines EXCEPT ![worker[w].id] = e]
      BY <2>1, NewStoreStep, DeleteStep, Zenon
    <3> QED
      BY <1>0, <3>1, Zenon DEF PoolType
  <2>2. CASE Reload(w) \/ NewMake(w) \/ Stop(w)
    BY <2>2, ReloadStep, MakeStep, StopStep, Zenon
  <2> QED
    BY <2>1, <2>2, Zenon
<1>3. \E e : /\ \A x \in 1..MaxEngines : x # e => engine'[x] = engine[x]
             /\ ruleEngines[id] # None => ruleEngines[id] # e
             /\ \A v \in Workers \ {w} : worker[v].pc = "store" => worker[v].eng # e
  <2>1. CASE NewStore(w) \/ Delete(w)
    <3>1. engine' = engine
      BY <2>1, NewStoreStep, DeleteStep, Zenon
    <3>2. /\ ruleEngines[id] # None => ruleEngines[id] # None
          /\ \A v \in Workers \ {w} : worker[v].pc = "store" => worker[v].eng # None
      BY HeldEngine, Constants DEF HasEngine
    <3> QED
      BY <3>1, <3>2, Zenon
  <2>2. CASE Reload(w) \/ Stop(w)
    <3> DEFINE e == worker[w].eng
    <3>1. worker[w].pc \in {"reload", "stop"} /\ HasEngine(worker[w])
      BY <2>2, ReloadStep, StopStep, Zenon DEF HasEngine
    <3>2. ruleEngines[id] # e
      BY <1>0, <3>1, Zenon DEF Engines, Named
    <3>3. \A v \in Workers \ {w} : worker[v].pc = "store" => worker[v].eng # e
      BY <3>1, Zenon DEF Engines, Own
    <3>4. e \in 1..MaxEngines /\ engine \in [1..MaxEngines -> [dsl : Bodies \cup {None}, live : BOOLEAN]]
      BY <1>0, <3>1, HeldEngine, Zenon DEF PoolType
    <3>5. engine' = engine \/ \E r : engine' = [engine EXCEPT ![e] = r]
      BY <2>2, ReloadStep, StopStep, Zenon
    <3>6. \A x \in 1..MaxEngines : x # e => engine'[x] = engine[x]
      BY <3>4, <3>5, Zenon
    <3> QED
      BY <3>2, <3>3, <3>6, Zenon
  <2>3. CASE NewMake(w)
    <3>1. engine' = engine \/ \E r : engine' = [engine EXCEPT ![made + 1] = r]
      BY <2>3, MakeStep, Zenon
    <3>2. made \in Nat /\ engine \in [1..MaxEngines -> [dsl : Bodies \cup {None}, live : BOOLEAN]]
      BY <1>0, Constants DEF PoolType
    <3>3. \A x \in 1..MaxEngines : x # made + 1 => engine'[x] = engine[x]
      BY <3>1, <3>2, Zenon
    <3>4. ruleEngines[id] # None => ruleEngines[id] # made + 1
      BY <3>2, PooledEngine
    <3>5. \A v \in Workers \ {w} : worker[v].pc = "store" => worker[v].eng # made + 1
      BY <3>2, HeldEngine DEF HasEngine
    <3> QED
      BY <3>3, <3>4, <3>5, Zenon
  <2> QED
    BY <2>1, <2>2, <2>3, Zenon
<1>4. /\ ruleEngines[id] # None => engine'[ruleEngines[id]] = engine[ruleEngines[id]]
      /\ \A v \in Workers \ {w} : worker[v].pc = "store" => engine'[worker[v].eng] = engine[worker[v].eng]
  <2>1. /\ ruleEngines[id] # None => ruleEngines[id] \in 1..MaxEngines
        /\ \A v \in Workers \ {w} : worker[v].pc = "store" => worker[v].eng \in 1..MaxEngines
    BY PooledEngine, HeldEngine, Zenon DEF HasEngine
  <2> QED
    BY <1>3, <2>1, Zenon
<1>5. server' = server /\ boot' = boot /\ components' = components
  BY <1>1, Zenon DEF others, registry
<1> QED
  BY <1>1, <1>2, <1>4, <1>5, Zenon DEF LeavesAlone

\* The call that saves the chain goes on, or ends.
LEMMA SoundOn ==
  ASSUME NEW id \in Ids, Sound(id), NEW w \in Workers, Stay(w), Touches(worker[w], id), Alone(id)',
         Saves(worker[w], id)' \/ (worker'[w] = Idle /\ Saved(id)')
  PROVE  Sound(id)'
<1>1. ASSUME NEW v \in Workers, v # w PROVE ~Touches(worker'[v], id)
  BY <1>1, Zenon DEF Stay, Sound
<1>2. CASE Saves(worker[w], id)'
  <2>1. Touches(worker'[w], id)
    <3>1. worker'[w].pc \in {"load", "make", "store", "reload", "open", "write"} /\ worker'[w].id = id
      BY <1>2, Zenon DEF Saves
    <3> QED
      BY <3>1 DEF Touches
  <2> QED
    BY <1>1, <1>2, <2>1, Zenon DEF Sound
<1>3. CASE worker'[w] = Idle /\ Saved(id)'
  BY <1>1, <1>3, IdleNot, Zenon DEF Sound
<1> QED
  BY <1>2, <1>3, Zenon

\* A file of the chain itself is written.
LEMMA AloneOwn ==
  ASSUME Types, NEW id \in Ids, Alone(id), files' = files \/ \E b : files' = [files EXCEPT ![id] = b]
  PROVE  Alone(id)'
<1>1. files \in [Ids -> Bodies \cup {None, Torn}]
  BY Zenon DEF Types
<1>2. \A od \in Ids \ {id} : files'[od] = files[od]
  BY <1>1, Zenon
<1> QED
  BY <1>2, Zenon DEF Alone

\* The steps of the call that saves a sound chain keep it sound.
LEMMA SoundSaving ==
  ASSUME Types, Engines, NEW id \in Ids, Sound(id), NEW w \in Workers, Touches(worker[w], id), Work(w),
         components' = components, server' = server, id \in sound'
  PROVE  Sound(id)'
<1> DEFINE r == worker[w]
           b == worker[w].body
<1>1. Saves(worker[w], id) /\ Alone(id)
  BY Zenon DEF Sound
<1>2. /\ server = "up" /\ r.id = id /\ b \in Bodies /\ Inner[b] = id /\ ~MayFail(b)
      /\ r.pc \in {"load", "make", "store", "reload", "open", "write"}
  BY <1>1, Zenon DEF Saves
<1>3. (\A c : ~MayFail(c) => ~MayFail(c)') /\ b # NotJson /\ b \notin NodeBodies /\ server' = "up"
  <2>1. b \notin NodeBodies
    BY <1>2, Constants, Zenon
  <2>2. b # NotJson
    BY <1>2, Zenon DEF MayFail, Decodes
  <2>3. \A c : ~MayFail(c) => ~MayFail(c)'
    BY SameFails, Zenon
  <2> QED
    BY <1>2, <2>1, <2>2, <2>3, Zenon
<1>4. PoolType
  BY Zenon DEF Types
<1>5. CASE NewLoad(w)
  <2>1. /\ Stay(w) /\ GoesOn(w) /\ r.pc = "load" /\ UNCHANGED pool /\ files' = files
        /\ ruleEngines[r.id] = None => worker'[w].pc = "make"
    BY <1>5, NewLoadStep, Zenon
  <2>2. ruleEngines[id] = None /\ ruleEngines' = ruleEngines
    BY <1>1, <2>1, Zenon DEF Saves, pool
  <2>3. Saves(worker[w], id)'
    BY <1>2, <1>3, <2>1, <2>2, Zenon DEF Saves, GoesOn
  <2> QED
    BY <1>1, <2>1, <2>3, AloneOwn, SoundOn, Zenon
<1>6. CASE NewMake(w)
  <2>1. /\ Stay(w) /\ r.pc = "make" /\ ruleEngines' = ruleEngines /\ files' = files
        /\ worker'[w].id = r.id /\ worker'[w].body = b
        /\ made < MaxEngines /\ worker'[w].pc = "store" /\ worker'[w].eng = made + 1
        /\ engine' = [engine EXCEPT ![made + 1] = [dsl |-> b, live |-> TRUE]]
    BY <1>2, <1>6, MakeStep, Zenon DEF MayFailAsChain
  <2>2. ruleEngines[id] = None
    BY <1>1, <2>1, Zenon DEF Saves
  <2>3. made + 1 \in 1..MaxEngines /\ engine \in [1..MaxEngines -> [dsl : Bodies \cup {None}, live : BOOLEAN]]
    BY <1>4, <2>1, NextEngine, Zenon
  <2>4. engine'[made + 1].dsl = b /\ engine'[made + 1].live
    BY <2>1, <2>3, Zenon
  <2>5. Saves(worker[w], id)'
    BY <1>2, <1>3, <2>1, <2>2, <2>4, Zenon DEF Saves
  <2> QED
    BY <1>1, <2>1, <2>5, AloneOwn, SoundOn, Zenon
<1>7. CASE NewStore(w)
  <2>1. /\ Stay(w) /\ GoesOn(w) /\ r.pc = "store" /\ worker'[w].pc = "open" /\ files' = files
        /\ engine' = engine /\ ruleEngines' = [ruleEngines EXCEPT ![r.id] = r.eng]
    BY <1>7, NewStoreStep, Zenon
  <2>2. engine[r.eng].dsl = b /\ engine[r.eng].live
    BY <1>1, <2>1, Zenon DEF Saves
  <2>3. r.eng \in 1..made
    BY <2>1, HeldEngine DEF HasEngine
  <2>4. ruleEngines'[id] = r.eng /\ r.eng # None
    <3>1. r.eng # None
      BY <2>3, Constants
    <3> QED
      BY <1>2, <1>4, <2>1, <3>1, Zenon DEF PoolType
  <2>5. Runs(id, b)'
    BY <2>1, <2>2, <2>4, Zenon DEF Runs, GoesOn
  <2>6. Saves(worker[w], id)'
    BY <1>2, <1>3, <2>1, <2>5, Zenon DEF Saves, GoesOn
  <2> QED
    BY <1>1, <2>1, <2>6, AloneOwn, SoundOn, Zenon
<1>8. CASE Reload(w)
  <2>1. /\ Stay(w) /\ GoesOn(w) /\ r.pc = "reload" /\ worker'[w].pc = "open" /\ files' = files
        /\ ruleEngines' = ruleEngines
        /\ engine' = [engine EXCEPT ![r.eng] = [dsl |-> b, live |-> TRUE]]
    BY <1>2, <1>3, <1>8, ReloadStep, Zenon
  <2>2. ruleEngines[id] = r.eng
    BY <1>1, <2>1, Zenon DEF Saves
  <2>3. r.eng \in 1..made /\ r.eng \in 1..MaxEngines
    BY <2>1, HeldEngine, Zenon DEF HasEngine
  <2>4. r.eng # None /\ engine'[r.eng].dsl = b /\ engine'[r.eng].live
    <3>1. r.eng # None
      BY <2>3, Constants
    <3>2. engine \in [1..MaxEngines -> [dsl : Bodies \cup {None}, live : BOOLEAN]]
      BY <1>4, Zenon DEF PoolType
    <3> QED
      BY <2>1, <2>3, <3>1, <3>2
  <2>5. Runs(id, b)'
    BY <2>1, <2>2, <2>4, Zenon DEF Runs, GoesOn
  <2>6. Saves(worker[w], id)'
    BY <1>2, <1>3, <2>1, <2>5, Zenon DEF Saves, GoesOn
  <2> QED
    BY <1>1, <2>1, <2>6, AloneOwn, SoundOn, Zenon
<1>9. CASE OpenFile(w)
  <2>1. /\ Stay(w) /\ GoesOn(w) /\ r.pc = "open" /\ worker'[w].pc = "write" /\ UNCHANGED pool
        /\ files' = [files EXCEPT ![r.id] = Torn]
    BY <1>9, OpenFileStep, Zenon
  <2>2. Runs(id, b)
    BY <1>1, <2>1, Zenon DEF Saves
  <2>3. Runs(id, b)'
    BY <2>1, <2>2, Zenon DEF Runs, GoesOn, pool
  <2>4. files'[id] = Torn
    BY <1>2, <2>1, Zenon DEF Types
  <2>5. Saves(worker[w], id)'
    BY <1>2, <1>3, <2>1, <2>3, <2>4, Zenon DEF Saves, GoesOn
  <2> QED
    BY <1>1, <1>2, <2>1, <2>5, AloneOwn, SoundOn, Zenon
<1>10. CASE WriteFile(w)
  <2>1. /\ Stay(w) /\ worker'[w] = Idle /\ r.pc = "write" /\ UNCHANGED pool
        /\ \E text \in Written(files[r.id], b) : files' = [files EXCEPT ![r.id] = text]
    BY <1>10, WriteFileStep, Zenon
  <2>2. Runs(id, b) /\ files[id] = Torn
    BY <1>1, <2>1 DEF Saves
  <2>3. ruleEngines' = ruleEngines /\ engine' = engine
    BY <2>1, Zenon DEF pool
  <2>4. files' = [files EXCEPT ![r.id] = b]
    <3>1. Written(files[r.id], b) = {b}
      BY <1>2, <1>3, <2>2, Constants, Zenon DEF Written
    <3> QED
      BY <2>1, <3>1, Zenon
  <2>5. files'[id] = b
    BY <1>2, <2>4, Zenon DEF Types
  <2>6. Saved(id)'
    BY <1>2, <1>3, <2>2, <2>3, <2>5, Zenon DEF Saved, Runs
  <2> QED
    BY <1>1, <1>2, <2>1, <2>4, <2>6, AloneOwn, SoundOn, Zenon
<1>11. ~RangeNext(w) /\ ~Stop(w) /\ ~Delete(w) /\ ~Register(w) /\ ~Record(w) /\ ~Add(w) /\ ~Sort(w)
  BY <1>2 DEF RangeNext, Stop, Delete, Register, Record, Add, Sort
<1>12. ~SaveFails(w)
  BY <1>2, SaveFailsStep, Zenon
<1> QED
  BY <1>5, <1>6, <1>7, <1>8, <1>9, <1>10, <1>11, <1>12, Zenon DEF Work

Apart == {"register", "record", "push", "sort"}

\* Where a call can be after a step that takes it on.
LEMMA WorkIs ==
  ASSUME Types, NEW w \in Workers, Work(w)
  PROVE  /\ Stay(w) /\ worker[w].pc # "idle" /\ UNCHANGED <<traffic, server, boot>> /\ sound' \subseteq sound
         /\ worker[w].pc \notin Apart => worker'[w].pc \notin Apart /\ components' = components
<1>1. CASE Reload(w)
  <2>1. Stay(w) /\ UNCHANGED others /\ sound' = sound /\ worker[w].pc = "reload" /\ worker'[w].pc = "open"
    BY <1>1, ReloadStep, Zenon
  <2> QED
    BY <2>1 DEF others, registry, Apart
<1>2. CASE NewLoad(w)
  <2>1. Stay(w) /\ UNCHANGED others /\ sound' = sound /\ worker[w].pc = "load" /\ worker'[w].pc \in {"open", "make"}
    BY <1>2, NewLoadStep
  <2> QED
    BY <2>1 DEF others, registry, Apart
<1>3. CASE NewMake(w)
  <2>1. Stay(w) /\ UNCHANGED others /\ sound' = sound /\ worker[w].pc = "make" /\ worker'[w].pc \in {"open", "store"}
    BY <1>3, MakeStep, Zenon
  <2> QED
    BY <2>1 DEF others, registry, Apart
<1>4. CASE NewStore(w)
  <2>1. Stay(w) /\ UNCHANGED others /\ sound' = sound /\ worker[w].pc = "store" /\ worker'[w].pc = "open"
    BY <1>4, NewStoreStep, Zenon
  <2> QED
    BY <2>1 DEF others, registry, Apart
<1>5. CASE OpenFile(w)
  <2>1. Stay(w) /\ UNCHANGED others /\ sound' = sound /\ worker[w].pc = "open" /\ worker'[w].pc = "write"
    BY <1>5, OpenFileStep, Zenon
  <2> QED
    BY <2>1 DEF others, registry, Apart
<1>6. CASE WriteFile(w)
  <2>1. Stay(w) /\ UNCHANGED others /\ sound' = sound /\ worker[w].pc = "write" /\ worker'[w].pc = "idle"
    BY <1>6, WriteFileStep, IdleRec, Zenon
  <2> QED
    BY <2>1 DEF others, registry, Apart
<1>7. CASE RangeNext(w)
  <2>1. Stay(w) /\ UNCHANGED others /\ sound' = sound /\ worker[w].pc = "range" /\ worker'[w].pc \in {"idle", "range", "stop"}
    BY <1>7, RangeStep, IdleRec, Zenon
  <2> QED
    BY <2>1 DEF others, registry, Apart
<1>8. CASE Stop(w)
  <2>1. Stay(w) /\ UNCHANGED others /\ sound' = sound /\ worker[w].pc = "stop" /\ worker'[w].pc = "delete"
    BY <1>8, StopStep, Zenon
  <2> QED
    BY <2>1 DEF others, registry, Apart
<1>9. CASE Delete(w)
  <2>1. Stay(w) /\ UNCHANGED others /\ sound' = sound /\ worker[w].pc = "delete" /\ worker'[w].pc \in {"idle", "range"}
    BY <1>9, DeleteStep, Zenon
  <2> QED
    BY <2>1 DEF others, registry, Apart
<1>10. CASE Register(w)
  <2>1. Stay(w) /\ UNCHANGED rules /\ worker[w].pc = "register"
    BY <1>10, RegisterStep, Zenon
  <2> QED
    BY <2>1 DEF rules, Apart
<1>11. CASE Record(w) \/ Add(w) \/ Sort(w)
  <2>1. Stay(w) /\ UNCHANGED notDebug /\ worker[w].pc \in {"record", "push", "sort"}
    BY <1>11, DebugStep, Zenon DEF Record, Add, Sort
  <2> QED
    BY <2>1 DEF notDebug, Apart
<1>12. CASE SaveFails(w)
  <2>1. /\ Stay(w) /\ UNCHANGED others /\ sound' \subseteq sound /\ worker[w].pc \in {"open", "write"}
        /\ worker'[w].pc = "idle"
    BY <1>12, SaveFailsStep, IdleRec, Zenon
  <2> QED
    BY <2>1 DEF others, registry, Apart
<1> QED
  BY <1>1, <1>2, <1>3, <1>4, <1>5, <1>6, <1>7, <1>8, <1>9, <1>10, <1>11, <1>12, Zenon DEF Work

\* What a call that begins may be, and what it leaves as it is.
LEMMA RequestIs ==
  ASSUME Types, NEW w \in Workers, Request(w)
  PROVE  /\ Stay(w) /\ worker[w].pc = "idle" /\ server = "up" /\ UNCHANGED <<traffic, server, boot>>
         /\ traffic = "rules" => worker'[w].pc \notin Apart /\ components' = components
         /\ traffic # "rules" => sound' = sound
         /\ traffic = "rules" => \/ \E id \in Ids, b \in Bodies : Save(w, id, b)
                                 \/ \E id \in Ids : Del(w, id)
                                 \/ StopAll(w)
<1>1. ASSUME NEW id \in Ids, NEW b \in Bodies, Save(w, id, b)
      PROVE  /\ Stay(w) /\ worker[w].pc = "idle" /\ server = "up" /\ traffic = "rules"
             /\ UNCHANGED <<traffic, server, boot, components>> /\ worker'[w].pc \notin Apart
  <2>1. /\ Stay(w) /\ worker[w].pc = "idle" /\ server = "up" /\ traffic = "rules" /\ UNCHANGED others
        /\ worker'[w].pc \in {"load", "reload"}
    BY <1>1, SaveStep
  <2> QED
    BY <2>1 DEF others, registry, Apart
<1>2. ASSUME NEW id \in Ids, Del(w, id)
      PROVE  /\ Stay(w) /\ worker[w].pc = "idle" /\ server = "up" /\ traffic = "rules"
             /\ UNCHANGED <<traffic, server, boot, components>> /\ worker'[w].pc \notin Apart
  <2>1. /\ Stay(w) /\ worker[w].pc = "idle" /\ server = "up" /\ traffic = "rules" /\ UNCHANGED others
        /\ worker'[w].pc = "stop"
    BY <1>2, DelStep, Zenon
  <2> QED
    BY <2>1 DEF others, registry, Apart
<1>3. ASSUME StopAll(w)
      PROVE  /\ Stay(w) /\ worker[w].pc = "idle" /\ server = "up" /\ traffic = "rules"
             /\ UNCHANGED <<traffic, server, boot, components>> /\ worker'[w].pc \notin Apart
  <2>1. /\ Stay(w) /\ worker[w].pc = "idle" /\ server = "up" /\ traffic = "rules" /\ UNCHANGED others
        /\ worker'[w].pc = "range"
    BY <1>3, StopAllStep, Zenon
  <2> QED
    BY <2>1 DEF others, registry, Apart
<1>4. ASSUME (\E p \in Plugins : RegisterPlugin(w, p)) \/ (\E x \in plugins \cup components : Unregister(w, x))
      PROVE  /\ Stay(w) /\ worker[w].pc = "idle" /\ server = "up" /\ traffic # "rules"
             /\ UNCHANGED <<traffic, server, boot, sound>>
  <2>1. Stay(w) /\ worker[w].pc = "idle" /\ server = "up" /\ traffic = "plugins" /\ UNCHANGED rules
    BY <1>4, RegisterPluginStep, UnregisterStep, Zenon
  <2> QED
    BY <2>1 DEF rules
<1>5. ASSUME \E n \in DebugNodes : OnDebug(w, n) \/ GetToPage(w, n)
      PROVE  /\ Stay(w) /\ worker[w].pc = "idle" /\ server = "up" /\ traffic # "rules"
             /\ UNCHANGED <<traffic, server, boot, sound>>
  <2>1. worker[w].pc = "idle" /\ UNCHANGED notDebug
    BY <1>5, Zenon DEF OnDebug, GetToPage
  <2>2. Stay(w) /\ server = "up" /\ traffic = "debug"
    BY <1>5, <2>1, DebugStep, Zenon
  <2> QED
    BY <2>1, <2>2 DEF notDebug
<1> QED
  BY <1>1, <1>2, <1>3, <1>4, <1>5, Zenon DEF Request, PostDsl

\* Every step keeps the calls of one kind, and made while the server is up.
LEMMA KindsStep ==
  ASSUME Types, Kinds, [Next]_vars PROVE Kinds'
<1>1. ASSUME NEW w \in Workers, Stay(w), traffic' = traffic, server' = server, server = "up",
             traffic = "rules" => worker'[w].pc \notin Apart, traffic # "rules" => sound' \subseteq sound
      PROVE  Kinds'
  BY <1>1, Zenon DEF Kinds, Stay, Apart
<1>2. ASSUME NEW w \in Workers, Request(w) PROVE Kinds'
  BY <1>1, <1>2, RequestIs, Zenon
<1>3. ASSUME NEW w \in Workers, Work(w) PROVE Kinds'
  <2>1. /\ Stay(w) /\ worker[w].pc # "idle" /\ UNCHANGED <<traffic, server, boot>> /\ sound' \subseteq sound
        /\ worker[w].pc \notin Apart => worker'[w].pc \notin Apart
    BY <1>3, WorkIs, Zenon
  <2>2. server = "up" /\ (traffic = "rules" => worker[w].pc \notin Apart)
    BY <2>1, Zenon DEF Kinds, Apart
  <2> QED
    BY <1>1, <2>1, <2>2, Zenon
<1>4. CASE LoadPlugin \/ LoadRules
  <2>1. worker' = worker /\ server = "boot" /\ traffic' = traffic /\ sound' = sound
    BY <1>4, LoadStep, Zenon
  <2>2. server # "up"
    BY <2>1
  <2> QED
    BY <2>1, <2>2, Zenon DEF Kinds
<1>5. CASE Crash
  <2>1. /\ traffic' = traffic /\ sound' \subseteq sound /\ \A w \in Workers : worker'[w] = Idle
    BY <1>5, Zenon DEF Crash
  <2>2. \A w \in Workers : worker'[w].pc = "idle"
    BY <2>1, IdleRec, Zenon
  <2>3. traffic' # "rules" => sound' = {}
    BY <2>1, Zenon DEF Kinds
  <2> QED
    BY <2>2, <2>3 DEF Kinds
<1>6. ASSUME (\E n \in DebugNodes : Take(n)) \/ UNCHANGED vars PROVE Kinds'
  <2>1. worker' = worker /\ traffic' = traffic /\ sound' = sound /\ server' = server
    BY <1>6, Zenon DEF Take, notDebug, vars
  <2> QED
    BY <2>1, Zenon DEF Kinds
<1>7. CASE Serve
  <2>1. worker' = worker /\ traffic' = traffic /\ sound' = sound /\ server' = "up"
    BY <1>7, Zenon DEF Serve
  <2> QED
    BY <2>1, Zenon DEF Kinds
<1> QED
  BY <1>2, <1>3, <1>4, <1>5, <1>6, <1>7, Zenon DEF Next, InitRuleGo

\* A call that begins for other chains leaves this one alone.
LEMMA AloneRequest ==
  ASSUME NEW id, NEW w \in Workers, Stay(w), worker[w].pc = "idle", UNCHANGED <<others, pool, files>>,
         ~Touches(worker'[w], id)
  PROVE  LeavesAlone(w, id)
<1>1. /\ server' = server /\ boot' = boot /\ components' = components /\ ruleEngines' = ruleEngines
      /\ engine' = engine /\ files' = files
  BY Zenon DEF others, registry, pool
<1> QED
  BY <1>1, Zenon DEF LeavesAlone, Touches

\* A call that saves a sound chain, and meets no other.
LEMMA SoundBegins ==
  ASSUME Types, NEW id \in Ids, NEW b \in Bodies, NEW w \in Workers, Save(w, id, b),
         ~Contended(w, id), ~MayFail(b), Inner[b] = id
  PROVE  Sound(id)'
<1>1. /\ Stay(w) /\ server = "up" /\ UNCHANGED <<others, pool, files>>
      /\ ruleEngines[id] = None => worker'[w].pc = "load"
      /\ ruleEngines[id] # None => worker'[w].pc = "reload"
      /\ worker'[w].id = id /\ worker'[w].body = b /\ worker'[w].eng = ruleEngines[id]
  BY SaveStep
<1>2. /\ server' = server /\ components' = components /\ ruleEngines' = ruleEngines
      /\ files' = files
  BY <1>1, Zenon DEF others, registry, pool
<1>3. ASSUME NEW v \in Workers, v # w PROVE ~Touches(worker'[v], id)
  <2>1. ~Touches(worker[v], id)
    BY <1>3, Zenon DEF Contended, Touches
  <2> QED
    BY <1>1, <1>3, <2>1, Zenon DEF Stay
<1>4. Alone(id)'
  BY <1>2, Zenon DEF Contended, Alone
<1>5. ~MayFail(b)'
  BY <1>2, SameFails, Zenon
<1>6. Saves(worker[w], id)'
  <2>1. /\ server' = "up" /\ worker'[w].id = id /\ worker'[w].body \in Bodies
        /\ Inner[worker'[w].body] = id /\ ~MayFail(worker[w].body)'
    BY <1>1, <1>2, <1>5, Zenon DEF MayFail, Decodes, NewNode
  <2>2. CASE ruleEngines[id] = None
    <3>1. worker'[w].pc \in {"load", "make"} /\ ruleEngines'[id] = None
      BY <1>1, <1>2, <2>2, Zenon
    <3> QED
      BY <2>1, <3>1, Zenon DEF Saves
  <2>3. CASE ruleEngines[id] # None
    <3>1. worker'[w].pc = "reload" /\ ruleEngines'[id] = worker'[w].eng
      BY <1>1, <1>2, <2>3, Zenon
    <3> QED
      BY <2>1, <3>1, Zenon DEF Saves
  <2> QED
    BY <2>2, <2>3, Zenon
<1>7. Touches(worker'[w], id)
  <2>1. worker'[w].pc # "idle" /\ worker'[w].id = id
    BY <1>1
  <2> QED
    BY <2>1, Zenon DEF Touches
<1> QED
  BY <1>3, <1>4, <1>6, <1>7, Zenon DEF Sound

\* A call that begins keeps the chains sound that stay in the set.
LEMMA SoundRequest ==
  ASSUME Types, SoundInv, NEW w \in Workers, Request(w), NEW id \in sound'
  PROVE  id \in Ids /\ Sound(id)'
<1>1. CASE traffic # "rules"
  BY <1>1, RequestIs, Zenon DEF SoundInv, Kinds
<1>2. ASSUME id \in sound, LeavesAlone(w, id) PROVE id \in Ids /\ Sound(id)'
  BY <1>2, SoundKept, Zenon DEF SoundInv
<1>3. ASSUME NEW od \in Ids, NEW b \in Bodies, Save(w, od, b) PROVE id \in Ids /\ Sound(id)'
  <2>1. /\ Stay(w) /\ worker[w].pc = "idle" /\ UNCHANGED <<others, pool, files>>
        /\ worker'[w].id = od /\ worker'[w].body = b /\ worker'[w].todo = <<>>
    BY <1>3, SaveStep
  <2>2. sound' = IF Contended(w, od) \/ MayFail(b) \/ Inner[b] # od THEN sound \ {od, Inner[b]} ELSE sound \cup {od}
    BY <1>3, Zenon DEF Save
  <2>3. CASE id \in sound /\ id # od /\ id # Inner[b]
    <3>1. Range(worker'[w].todo) = {}
      BY <2>1 DEF Range
    <3>2. ~Touches(worker'[w], id)
      BY <2>1, <2>3, <3>1, Zenon DEF Touches
    <3> QED
      BY <1>2, <2>1, <2>3, <3>2, AloneRequest, Zenon
  <2>4. CASE id = od /\ ~Contended(w, od) /\ ~MayFail(b) /\ Inner[b] = od
    BY <1>3, <2>4, SoundBegins, Zenon
  <2> QED
    BY <2>2, <2>3, <2>4, Zenon
<1>4. ASSUME NEW od \in Ids, Del(w, od) PROVE id \in Ids /\ Sound(id)'
  <2>1. /\ Stay(w) /\ worker[w].pc = "idle" /\ UNCHANGED <<others, pool, files>>
        /\ worker'[w].id = od /\ worker'[w].body = None /\ worker'[w].todo = <<>>
    BY <1>4, DelStep, Zenon
  <2>2. id \in sound /\ id # od
    BY <1>4, Zenon DEF Del
  <2>3. Range(worker'[w].todo) = {}
    BY <2>1 DEF Range
  <2>4. ~Touches(worker'[w], id)
    BY <2>1, <2>2, <2>3, Constants, Zenon DEF Touches
  <2> QED
    BY <1>2, <2>1, <2>2, <2>4, AloneRequest, Zenon
<1>5. ASSUME StopAll(w) PROVE id \in Ids /\ Sound(id)'
  BY <1>5, StopAllStep, Zenon
<1> QED
  BY <1>1, <1>3, <1>4, <1>5, RequestIs, Zenon

\* The steps of the calls keep the sound chains sound.
LEMMA SoundWork ==
  ASSUME Types, Engines, SoundInv, NEW w \in Workers, Work(w), NEW id \in sound'
  PROVE  id \in Ids /\ Sound(id)'
<1>1. /\ Stay(w) /\ worker[w].pc # "idle" /\ server' = server /\ sound' \subseteq sound
      /\ worker[w].pc \notin Apart => components' = components
  BY WorkIs, Zenon
<1>2. id \in Ids /\ Sound(id) /\ worker[w].pc \notin Apart
  BY <1>1, Zenon DEF SoundInv, Kinds, Apart
<1>3. CASE Touches(worker[w], id)
  BY <1>1, <1>2, <1>3, SoundSaving, Zenon
<1>4. CASE ~Touches(worker[w], id)
  <2>1. Ruling(worker[w])
    BY <1>1, <1>2, Zenon DEF Ruling, Apart
  <2>2. ~Register(w) /\ ~Record(w) /\ ~Add(w) /\ ~Sort(w)
    BY <1>2, Zenon DEF Register, Record, Add, Sort, Apart
  <2>3. LeavesAlone(w, id)
    BY <1>2, <1>4, <2>1, <2>2, AloneKept, AlonePool, Zenon DEF Work
  <2> QED
    BY <1>2, <2>3, SoundKept, Zenon
<1> QED
  BY <1>3, <1>4, Zenon

\* A step that no call makes: the files stay, and no call is for the chain.
LEMMA SoundStill ==
  ASSUME NEW id \in Ids, Alone(id), files' = files, \A w \in Workers : worker'[w].pc = "idle", Saved(id)'
  PROVE  Sound(id)'
<1>1. \A w \in Workers : ~Touches(worker'[w], id)
  BY Zenon DEF Touches
<1>2. Alone(id)'
  BY Zenon DEF Alone
<1> QED
  BY <1>1, <1>2, Zenon DEF Sound

\* A crash leaves the files, from which the chains are loaded again.
LEMMA SoundCrash ==
  ASSUME Types, SoundInv, Crash, NEW id \in sound'
  PROVE  id \in Ids /\ Sound(id)'
<1>1. /\ server' = "boot" /\ boot' = GetFilePaths /\ files' = files /\ id \in sound
      /\ \A w \in Workers : worker'[w] = Idle /\ worker[w].id # id
  BY Zenon DEF Crash
<1>2. id \in Ids /\ Sound(id)
  BY <1>1, Zenon DEF SoundInv
<1>3. \A w \in Workers : ~Touches(worker[w], id)
  BY <1>1, <1>2, Zenon DEF Sound, Saves
<1>4. Saved(id) /\ Alone(id)
  BY <1>2, <1>3, Zenon DEF Sound
<1>5. boot'.files = RuleFiles
  BY <1>1, Zenon DEF GetFilePaths
<1>6. id \in Range(boot'.files)
  BY <1>2, <1>5, ServerAssumption, Zenon
<1>7. server' # "up"
  BY <1>1
<1>8. Saved(id)'
  BY <1>1, <1>4, <1>6, <1>7, Zenon DEF Saved
<1>9. \A w \in Workers : worker'[w].pc = "idle"
  BY <1>1, IdleRec, Zenon
<1> QED
  BY <1>1, <1>2, <1>4, <1>8, <1>9, SoundStill, Zenon

\* Load: a sound chain is still to be loaded, or runs.
LEMMA SoundLoad ==
  ASSUME Types, SoundInv, LoadNext, NEW id \in sound'
  PROVE  id \in Ids /\ Sound(id)'
<1> DEFINE d == Head(boot.files)
<1>1. /\ server = "boot" /\ boot.files # <<>> /\ d \in Ids
      /\ files' = files /\ worker' = worker /\ sound' = sound
  BY LoadNextStep, Zenon
<1>2. server # "up"
  BY <1>1
<1>3. id \in Ids /\ Sound(id) /\ \A w \in Workers : worker[w].pc = "idle"
  BY <1>1, <1>2, Zenon DEF SoundInv, Kinds
<1>4. Alone(id) /\ Saved(id)
  BY <1>3, Zenon DEF Sound, Touches
<1>5. /\ files[id] \in Bodies /\ Inner[files[id]] = id
      /\ id \in Range(boot.files) \/ Runs(id, files[id])
  BY <1>1, <1>4, Zenon DEF Saved
<1>6. boot.files \in Seq(Ids)
  <2>1. boot \in [plugins : Seq(Plugins), files : Seq(Ids)]
    BY Zenon DEF Types
  <2> QED
    BY <2>1, Zenon
<1>7. Range(boot.files) = {d} \cup Range(Tail(boot.files))
  BY <1>1, <1>6, HeadTail, Zenon
<1>8. ASSUME server' = "dead" \/ (server' = "boot" /\ (id \in Range(boot'.files) \/ Runs(id, files[id])'))
      PROVE  id \in Ids /\ Sound(id)'
  <2>1. server' # "up" /\ (server' = "boot" => id \in Range(boot'.files) \/ Runs(id, files[id])')
    BY <1>8
  <2>2. Saved(id)'
    BY <1>1, <1>5, <2>1, Zenon DEF Saved, Runs
  <2> QED
    BY <1>1, <1>3, <1>4, <2>2, SoundStill, Zenon
<1>9. CASE server' = server /\ boot'.files = Tail(boot.files) /\ UNCHANGED pool
           /\ (files[d] \in Bodies => Inner[files[d]] = None)
  <2>1. d # id
    BY <1>3, <1>5, <1>9, Constants, Zenon
  <2>2. Runs(id, files[id]) => Runs(id, files[id])'
    BY <1>1, <1>9, Zenon DEF Runs, pool
  <2> QED
    BY <1>1, <1>5, <1>7, <1>8, <1>9, <2>1, <2>2, Zenon
<1>10. ASSUME NEW b \in Bodies,
              server' = server, boot'.files = Tail(boot.files), b = files[d], Inner[b] \in Ids,
              made < MaxEngines, engine' = [engine EXCEPT ![made + 1] = [dsl |-> b, live |-> TRUE]],
              ruleEngines' = [ruleEngines EXCEPT ![Inner[b]] = made + 1]
       PROVE  id \in Ids /\ Sound(id)'
  <2>1. /\ made \in Nat /\ made + 1 \in 1..MaxEngines
        /\ engine \in [1..MaxEngines -> [dsl : Bodies \cup {None}, live : BOOLEAN]]
        /\ ruleEngines \in [Ids -> 1..made \cup {None}]
    BY <1>10, Constants DEF Types, PoolType
  <2>2. /\ engine'[made + 1].live /\ engine'[made + 1].dsl = b
        /\ \A e \in 1..MaxEngines : e # made + 1 => engine'[e] = engine[e]
    BY <1>10, <2>1
  <2>3. /\ ruleEngines'[Inner[b]] = made + 1
        /\ \A od \in Ids : od # Inner[b] => ruleEngines'[od] = ruleEngines[od]
    BY <1>10, <2>1, Zenon
  <2>4. made + 1 # None
    BY <2>1, Constants
  <2>5. CASE d = id
    <3>1. b = files[id] /\ Inner[b] = id
      BY <1>5, <1>10, <2>5, Zenon
    <3>2. Runs(id, b)'
      BY <2>2, <2>3, <2>4, <3>1, Zenon DEF Runs
    <3>3. Runs(id, files[id])'
      BY <1>1, <3>1, <3>2, Zenon DEF Runs
    <3> QED
      BY <1>1, <1>8, <1>10, <3>3, Zenon
  <2>6. CASE d # id
    <3>1. Inner[b] # id
      BY <1>1, <1>4, <1>10, <2>6, Zenon DEF Alone
    <3>2. ASSUME Runs(id, files[id]) PROVE Runs(id, files[id])'
      <4>1. ruleEngines[id] # None
        BY <3>2, Zenon DEF Runs
      <4>2. ruleEngines[id] \in 1..MaxEngines /\ ruleEngines[id] \in 1..made
        BY <1>3, <4>1, PooledEngine, Zenon
      <4>3. ruleEngines[id] # made + 1
        BY <2>1, <4>2
      <4>4. ruleEngines'[id] = ruleEngines[id] /\ engine'[ruleEngines[id]] = engine[ruleEngines[id]]
        BY <1>3, <2>2, <2>3, <3>1, <4>2, <4>3, Zenon
      <4> QED
        BY <1>1, <3>2, <4>4, Zenon DEF Runs
    <3> QED
      BY <1>1, <1>5, <1>7, <1>8, <1>10, <2>6, <3>2, Zenon
  <2> QED
    BY <2>5, <2>6, Zenon
<1> QED
  BY <1>8, <1>9, <1>10, LoadNextStep, Zenon

\* The plugins are loaded, and the server is up when every chain is loaded.
LEMMA SoundStart ==
  ASSUME Types, SoundInv, LoadPlugin \/ Serve, NEW id \in sound'
  PROVE  id \in Ids /\ Sound(id)'
<1>1. /\ server = "boot" /\ boot'.files = boot.files /\ UNCHANGED pool
      /\ files' = files /\ worker' = worker /\ sound' = sound
      /\ server' = "boot" \/ (server' = "up" /\ boot.files = <<>>)
  <2>1. CASE LoadPlugin
    <3>1. boot' = [boot EXCEPT !.plugins = Tail(@)] /\ boot \in [plugins : Seq(Plugins), files : Seq(Ids)]
      BY <2>1, Zenon DEF LoadPlugin, Types
    <3>2. boot'.files = boot.files
      BY <3>1, Zenon
    <3> QED
      BY <2>1, <3>2, Zenon DEF LoadPlugin
  <2>2. CASE Serve
    BY <2>2, Zenon DEF Serve
  <2> QED
    BY <2>1, <2>2, Zenon
<1>2. server # "up"
  BY <1>1
<1>3. id \in Ids /\ Sound(id) /\ \A w \in Workers : worker[w].pc = "idle"
  BY <1>1, <1>2, Zenon DEF SoundInv, Kinds
<1>4. Alone(id) /\ Saved(id)
  BY <1>3, Zenon DEF Sound, Touches
<1>5. Runs(id, files[id]) => Runs(id, files[id])'
  BY <1>1, Zenon DEF Runs, pool
<1>6. /\ server' = "boot" => id \in Range(boot'.files) \/ Runs(id, files[id])'
      /\ server' = "up" => Runs(id, files[id])'
  <2>1. id \in Range(boot.files) \/ Runs(id, files[id])
    BY <1>1, <1>4, Zenon DEF Saved
  <2>2. boot.files = <<>> => Range(boot.files) = {}
    BY DEF Range
  <2>3. server' = "up" => server' # "boot"
    OBVIOUS
  <2> QED
    BY <1>1, <1>5, <2>1, <2>2, <2>3, Zenon
<1>7. Saved(id)'
  BY <1>1, <1>4, <1>6, Zenon DEF Saved, Runs
<1> QED
  BY <1>1, <1>3, <1>4, <1>7, SoundStill, Zenon

\* Every step keeps the sound chains sound.
LEMMA SoundStep ==
  ASSUME Types, Engines, SoundInv, [Next]_vars PROVE SoundInv'
<1>1. Kinds'
  BY KindsStep, Zenon DEF SoundInv
<1>2. ASSUME NEW id \in sound' PROVE id \in Ids /\ Sound(id)'
  <2>1. ASSUME NEW w \in Workers, Request(w) \/ Work(w) PROVE id \in Ids /\ Sound(id)'
    BY <1>2, <2>1, SoundRequest, SoundWork, Zenon
  <2>2. CASE InitRuleGo \/ Serve \/ Crash
    BY <1>2, <2>2, SoundLoad, SoundStart, SoundCrash, Zenon DEF InitRuleGo, LoadRules
  <2>3. ASSUME (\E n \in DebugNodes : Take(n)) \/ UNCHANGED vars
        PROVE  id \in Ids /\ Sound(id)'
    <3>1. UNCHANGED <<files, worker, sound, server, boot, pool, components>>
      BY <2>3, Zenon DEF Take, notDebug, vars, registry, pool
    <3>2. id \in Ids /\ Sound(id)
      BY <1>2, <3>1, Zenon DEF SoundInv
    <3>3. \A b : MayFail(b)' <=> MayFail(b)
      BY <3>1, SameFails, Zenon
    <3> QED
      BY <3>1, <3>2, <3>3, Zenon DEF Sound, Alone, Saved, Saves, Runs, pool
  <2> QED
    BY <2>1, <2>2, <2>3, Zenon DEF Next
<1> QED
  BY <1>1, <1>2, Zenon DEF SoundInv

(***************************************************************************)
(* What is saved is what runs, also after a restart (saveDsl, Load), in    *)
(* every interleaving of the calls and with any number of restarts.        *)
(***************************************************************************)
THEOREM SavedRuns == Spec => []SavedIsRun
<1>1. Init => Types /\ Engines /\ SoundInv
  <2> SUFFICES ASSUME Init PROVE SoundInv
    BY TypesInit, EnginesInit, Zenon
  <2>1. sound = {} /\ \A w \in Workers : worker[w] = Idle
    BY Zenon DEF Init
  <2>2. \A w \in Workers : worker[w].pc = "idle"
    BY <2>1, IdleRec, Zenon
  <2> QED
    BY <2>1, <2>2 DEF SoundInv, Kinds
<1>2. Types /\ Engines /\ SoundInv /\ [Next]_vars => (Types /\ Engines /\ SoundInv)'
  BY TypesStep, EnginesStep, SoundStep, Zenon
<1>3. Types /\ Engines /\ SoundInv => SavedIsRun
  <2> SUFFICES ASSUME SoundInv, NEW id \in sound, server = "up", ~Busy(id)
               PROVE  GetDsl(id) # None /\ GetDsl(id) = files[id]
    BY Zenon DEF SavedIsRun
  <2>1. Sound(id)
    BY Zenon DEF SoundInv
  <2>2. \A w \in Workers : ~Touches(worker[w], id)
    BY <2>1, Zenon DEF Sound, Saves, Busy, Touches
  <2>3. files[id] \in Bodies /\ Runs(id, files[id])
    BY <2>1, <2>2, Zenon DEF Sound, Saved
  <2> QED
    BY <2>3, Constants, Zenon DEF Runs, GetDsl, Get, DSL
<1> QED
  BY <1>1, <1>2, <1>3, PTL DEF Spec
=============================================================================
