------------------------------- MODULE Server -------------------------------
(***************************************************************************)
(* The example server (examples/server/server.go) on the pool of engines   *)
(* (rulego.go) and the registry of components (registry.go): requests save *)
(* and delete rule chains, plugins are registered and unregistered, nodes  *)
(* record debug data that requests read, and the process dies and is       *)
(* started again from the files that it has written.                       *)
(*                                                                         *)
(* A body is the text of a rule chain, or of a node: Inner is the id of    *)
(* the chain in it, Uses the components that it needs.  Text that is not   *)
(* JSON is formatted to nothing.  An engine's own reload is in RuleChain;  *)
(* here it takes the body or refuses it.  A save for a node has the text   *)
(* of a node, and any other save that of a chain.                          *)
(***************************************************************************)
EXTENDS Naturals, Sequences, FiniteSets, Functions, TLC

CONSTANTS
  Ids, RuleFiles,  \* ids of rule chains, and their files in the order of their names
  Bodies, Inner, Uses, NodeBodies,
  NotJson,       \* a body that is not JSON
  Malformed,     \* JSON that is no chain or node, or has a configuration that Init refuses
  Remote,        \* bodies with a component whose Init may not reach its broker or database
  Plugins, PluginFiles, Provides, Builtin,  \* plugins, their files in the order of their
                 \* names, the components that each has, and those of the program
  Broken,        \* files that are no plugins: they do not open, or lack the symbol
  DebugNodes,    \* nodes in debug mode, of one chain
  Workers,       \* goroutines that serve requests
  MaxCalls, MaxEngines, MaxRecords, MaxCrashes,  \* bounds
  QueueSize,     \* MaxSize of FixedQueue
  None,
  Torn           \* what is in a file without text, or with a part of one, or of two

\* The listings are of files of the chains and plugins there are, and every chain has a
\* place in its listing; the text of a node has no id of a chain in it.
ASSUME ServerAssumption ==
  /\ None \notin Nat \cup Ids \cup Bodies /\ Torn \notin Bodies /\ Cardinality(Ids) \in Nat
  /\ RuleFiles \in Seq(Ids) /\ Ids \subseteq Range(RuleFiles) /\ PluginFiles \in Seq(Plugins)
  /\ Inner \in [Bodies -> Ids \cup {None}]
  /\ NodeBodies \subseteq Bodies \ {NotJson} /\ \A b \in NodeBodies : Inner[b] = None
  /\ \A p \in Plugins : Provides[p] \in Seq(Range(Provides[p]))
  /\ MaxEngines \in Nat

Components == Builtin \cup UNION {Range(Provides[p]) : p \in Plugins}

VARIABLES
  traffic,       \* what the clients ask for: "rules", "plugins" or "debug"
  server, boot,  \* "boot", "up" or "dead"; the plugins and files still to load
  components, plugins,
  ruleEngines, engine, made,   \* the pool, the engine objects and their number
  files,
  worker,
  calls, crashes,
  sound,         \* chains whose last save was of a sound chain, on its own
  parted,        \* a component was unregistered on its own
  data, records  \* the queues of the nodes, and the number of records made

registry == <<components, plugins, parted>>
pool == <<ruleEngines, engine, made>>
debug == <<data, records>>
vars == <<traffic, server, boot, registry, pool, files, worker, calls, crashes, sound, debug>>

\* GetFilePaths: the files of a folder, in the order of their names.
GetFilePaths == [plugins |-> PluginFiles, files |-> RuleFiles]

Idle == [pc |-> "idle", id |-> None, body |-> None, eng |-> None, todo |-> <<>>]

Init ==
  /\ traffic \in {"rules", "plugins", "debug"}
  /\ server = "boot" /\ boot = GetFilePaths
  /\ components = Builtin /\ plugins = {} /\ parted = FALSE
  /\ ruleEngines = [id \in Ids |-> None]
  /\ engine = [e \in 1..MaxEngines |-> [dsl |-> None, live |-> FALSE]] /\ made = 0
  /\ files = [id \in Ids |-> None]
  /\ worker = [w \in Workers |-> Idle]
  /\ calls = 0 /\ crashes = 0 /\ sound = {}
  /\ data = [n \in DebugNodes |-> None] /\ records = 0

Goto(w, pc) == worker' = [worker EXCEPT ![w].pc = pc]

Done(w) == worker' = [worker EXCEPT ![w] = Idle]

Call(w, what, rec) ==
  /\ server = "up" /\ traffic = what /\ worker[w].pc = "idle" /\ calls < MaxCalls
  /\ calls' = calls + 1
  /\ worker' = [worker EXCEPT ![w] = rec]

\* RuleComponentRegistry.NewNode: no error.
NewNode(c) == c \in components

\* RuleComponentRegistry.Register: no error.
Registers(c) == c \notin components

\* PluginComponentRegistry.Init: the file opens and has a registry; then none of its
\* components may be there yet.
Opens(p) == p \notin Broken
Fits(p) == Opens(p) /\ \A c \in Range(Provides[p]) : Registers(c)

\* DecodeRuleChain of a chain, DecodeRuleNode of a node: it is one, every component is
\* registered, and its Init takes the configuration; or it is not, or a peer is not there.
Decodes(b) == b \notin Malformed \cup {NotJson, Torn} /\ \A c \in Uses[b] : NewNode(c)
MayFail(b) == ~Decodes(b) \/ b \in Remote

\* DecodeRuleChain of any text: that of a node is a chain without nodes.
DecodesAsChain(b) == b \in NodeBodies \/ Decodes(b)
MayFailAsChain(b) == b \notin NodeBodies /\ MayFail(b)

\* RuleGo.Get.
Get(id) == ruleEngines[id]

\* RuleEngine.DSL: nothing once the engine is stopped.
DSL(e) == IF engine[e].live THEN engine[e].dsl ELSE None

\* getDsl, of a chain.
GetDsl(id) == IF Get(id) = None THEN None ELSE DSL(Get(id))
-----------------------------------------------------------------------------
(* Starting: initRuleGo loads the plugins, then the rule chains.           *)

\* loadPlugins: an error is logged, and the next plugin is tried.
LoadPlugin ==
  /\ server = "boot" /\ boot.plugins # <<>>
  /\ boot' = [boot EXCEPT !.plugins = Tail(@)]
  /\ LET p == Head(boot.plugins)
     IN IF Fits(p)
        THEN components' = components \cup Range(Provides[p]) /\ plugins' = plugins \cup {p}
        ELSE UNCHANGED <<components, plugins>>
  /\ UNCHANGED <<traffic, parted, server, pool, files, worker, calls, crashes, sound, debug>>

\* A new engine object e.
NewEngine(e, b) ==
  /\ made < MaxEngines
  /\ e = made + 1 /\ made' = e
  /\ engine' = [engine EXCEPT ![e] = [dsl |-> b, live |-> TRUE]]

\* Load, of the next file: New with no id stores under the id that the chain has in it,
\* if it has one; the server stops over a file that does not decode.
LoadNext ==
  /\ server = "boot" /\ boot.files # <<>>
  /\ LET b == files[Head(boot.files)]
     IN \/ /\ b # None /\ MayFailAsChain(b)
           /\ server' = "dead" /\ UNCHANGED <<boot, pool>>
        \/ /\ b # None => DecodesAsChain(b)
           /\ boot' = [boot EXCEPT !.files = Tail(@)]
           /\ IF b # None /\ Inner[b] # None
              THEN NewEngine(made + 1, b) /\ ruleEngines' = [ruleEngines EXCEPT ![Inner[b]] = made + 1]
              ELSE UNCHANGED pool
           /\ UNCHANGED server
  /\ UNCHANGED <<traffic, registry, files, worker, calls, crashes, sound, debug>>

\* loadRules: Load, and an error is fatal.
LoadRules == LoadNext

\* Mutant: the rule chains are loaded before the plugins.
LoadAtOnce == LoadPlugin \/ LoadRules

\* initRuleGo: the plugins, and then the rule chains.
InitRuleGo == LoadPlugin \/ (boot.plugins = <<>> /\ LoadRules)

\* main: the endpoints are started.
Serve ==
  /\ server = "boot" /\ boot.plugins = <<>> /\ boot.files = <<>>
  /\ server' = "up"
  /\ UNCHANGED <<traffic, boot, registry, pool, files, worker, calls, crashes, sound, debug>>

\* The process dies; only its files are left.
Crash ==
  /\ server = "up" /\ crashes < MaxCrashes
  /\ crashes' = crashes + 1
  /\ server' = "boot" /\ boot' = GetFilePaths
  /\ components' = Builtin /\ plugins' = {} /\ parted' = FALSE
  /\ ruleEngines' = [id \in Ids |-> None]
  /\ engine' = [e \in 1..MaxEngines |-> [dsl |-> None, live |-> FALSE]] /\ made' = 0
  /\ worker' = [w \in Workers |-> Idle]
  /\ sound' = sound \ {worker[w].id : w \in Workers}
  /\ data' = [n \in DebugNodes |-> None] /\ records' = 0
  /\ UNCHANGED <<traffic, files, calls>>
-----------------------------------------------------------------------------
(* saveDsl.                                                                *)

others == <<traffic, server, boot, registry, crashes, debug>>

\* A call for id by another worker is under way, or a chain with this id in it has been,
\* or is being, saved under another id.
Contended(w, id) ==
  \/ \E v \in Workers \ {w} : worker[v].pc # "idle" /\
       id \in {worker[v].id} \cup Range(worker[v].todo) \cup {Inner[b] : b \in Bodies \cap {worker[v].body}}
  \/ \E other \in Ids \ {id} : files[other] \in Bodies /\ Inner[files[other]] = id

\* saveDsl: Get.
Save(w, id, b) ==
  /\ Call(w, "rules", [Idle EXCEPT !.id = id, !.body = b, !.eng = Get(id),
                                   !.pc = IF Get(id) = None THEN "load" ELSE "reload"])
  /\ sound' = IF Contended(w, id) \/ MayFail(b) \/ Inner[b] # id THEN sound \ {id, Inner[b]} ELSE sound \cup {id}
  /\ UNCHANGED <<others, pool, files>>

\* saveDsl: ReloadSelf or ReloadChild; its error is overwritten.  A stopped engine is
\* started by ReloadSelf, and refuses ReloadChild.
Reload(w) ==
  /\ worker[w].pc = "reload"
  /\ LET e == worker[w].eng
         b == worker[w].body
     IN \/ /\ Decodes(b) /\ (b \in NodeBodies => engine[e].live)
           /\ engine' = [engine EXCEPT ![e] = [dsl |-> IF b \in NodeBodies THEN @.dsl ELSE b, live |-> TRUE]]
        \/ /\ MayFail(b) \/ (b \in NodeBodies /\ ~engine[e].live)
           /\ UNCHANGED engine
  /\ Goto(w, "open")
  /\ UNCHANGED <<others, ruleEngines, made, files, calls, sound>>

\* New: Load again; somebody else's engine is returned as it is.
NewLoad(w) ==
  /\ worker[w].pc = "load"
  /\ Goto(w, IF ruleEngines[worker[w].id] # None THEN "open" ELSE "make")
  /\ UNCHANGED <<others, pool, files, calls, sound>>

\* Mutant: the engine is stored before it has its chain.
StoreFirst(w) ==
  /\ worker[w].pc = "make" /\ made < MaxEngines
  /\ made' = made + 1
  /\ ruleEngines' = [ruleEngines EXCEPT ![worker[w].id] = made + 1]
  /\ engine' = [engine EXCEPT ![made + 1] = [dsl |-> worker[w].body, live |-> DecodesAsChain(worker[w].body)]]
  /\ Goto(w, "open")
  /\ UNCHANGED <<others, files, calls, sound>>

\* New: newRuleEngine.
NewMake(w) ==
  /\ worker[w].pc = "make"
  /\ \/ /\ DecodesAsChain(worker[w].body) /\ NewEngine(made + 1, worker[w].body)
        /\ worker' = [worker EXCEPT ![w].pc = "store", ![w].eng = made + 1]
     \/ MayFailAsChain(worker[w].body) /\ Goto(w, "open") /\ UNCHANGED <<engine, made>>
  /\ UNCHANGED <<others, ruleEngines, files, calls, sound>>

\* New: Store.
NewStore(w) ==
  /\ worker[w].pc = "store"
  /\ ruleEngines' = [ruleEngines EXCEPT ![worker[w].id] = worker[w].eng]
  /\ Goto(w, "open")
  /\ UNCHANGED <<others, engine, made, files, calls, sound>>

\* SaveFile: the file is truncated ...
OpenFile(w) ==
  /\ worker[w].pc = "open"
  /\ files' = [files EXCEPT ![worker[w].id] = Torn]
  /\ Goto(w, "write")
  /\ UNCHANGED <<others, pool, calls, sound>>

\* Mutant: the text that was in the engine is saved.
WriteOld(w) ==
  /\ worker[w].pc = "write"
  /\ files' = [files EXCEPT ![worker[w].id] =
                 IF worker[w].eng # None THEN engine[worker[w].eng].dsl ELSE Torn]
  /\ Done(w)
  /\ UNCHANGED <<others, pool, calls, sound>>

\* What the file may have after the text is written: another save may have written since
\* the file was truncated, and the end of a longer text stays.  json.Format makes nothing
\* of what is not JSON, and nothing is written.
Written(old, b) == IF b = NotJson THEN {old} ELSE {b} \cup (IF old \in Bodies \ {b} THEN {Torn} ELSE {})

\* ... and written.
WriteFile(w) ==
  /\ worker[w].pc = "write"
  /\ \E text \in Written(files[worker[w].id], worker[w].body) :
       files' = [files EXCEPT ![worker[w].id] = text]
  /\ Done(w)
  /\ UNCHANGED <<others, pool, calls, sound>>

\* SaveFile returns an error: the file was not opened, or not all of the text written.
SaveFails(w) ==
  /\ worker[w].pc \in {"open", "write"}
  /\ \/ UNCHANGED files
     \/ worker[w].pc = "write" /\ files' = [files EXCEPT ![worker[w].id] = Torn]
  /\ sound' = sound \ {worker[w].id}
  /\ Done(w)
  /\ UNCHANGED <<others, pool, calls>>
-----------------------------------------------------------------------------
(* Del and Stop.                                                           *)

\* Del: Load.
Del(w, id) ==
  /\ ruleEngines[id] # None
  /\ Call(w, "rules", [Idle EXCEPT !.id = id, !.eng = ruleEngines[id], !.pc = "stop"])
  /\ sound' = sound \ {id}
  /\ UNCHANGED <<others, pool, files>>

\* Stop: Range over the pool.
StopAll(w) ==
  /\ \E order \in Injection(1..Cardinality(Ids), Ids) : Call(w, "rules", [Idle EXCEPT !.pc = "range", !.todo = order])
  /\ sound' = {}
  /\ UNCHANGED <<others, pool, files>>

RangeNext(w) ==
  /\ worker[w].pc = "range"
  /\ IF worker[w].todo = <<>> THEN Done(w)
     ELSE LET id == Head(worker[w].todo)
          IN worker' = [worker EXCEPT ![w].id = id, ![w].todo = Tail(@), ![w].eng = ruleEngines[id],
                                      ![w].pc = IF ruleEngines[id] = None THEN "range" ELSE "stop"]
  /\ UNCHANGED <<others, pool, files, calls, sound>>

\* Del, Stop: the engine is stopped ...
Stop(w) ==
  /\ worker[w].pc = "stop"
  /\ engine' = [engine EXCEPT ![worker[w].eng].live = FALSE]
  /\ Goto(w, "delete")
  /\ UNCHANGED <<others, ruleEngines, made, files, calls, sound>>

\* ... and whatever the pool has under the id is deleted.
Delete(w) ==
  /\ worker[w].pc = "delete"
  /\ ruleEngines' = [ruleEngines EXCEPT ![worker[w].id] = None]
  /\ worker' = [worker EXCEPT ![w].pc = IF worker[w].todo = <<>> THEN "idle" ELSE "range",
                              ![w].id = None, ![w].eng = None]
  /\ UNCHANGED <<others, engine, made, files, calls, sound>>
-----------------------------------------------------------------------------
(* The registry.                                                           *)

rules == <<traffic, server, boot, pool, files, crashes, sound, debug>>

\* RegisterPlugin: no component of it may be there yet; read without the lock.
RegisterPlugin(w, p) ==
  /\ Call(w, "plugins", IF Fits(p)
                        THEN [Idle EXCEPT !.body = p, !.todo = Provides[p], !.pc = "register"] ELSE Idle)
  /\ UNCHANGED <<rules, registry>>

\* Mutant: the plugin is stored before its components are registered.
RegisteredFirst(w) ==
  /\ worker[w].pc = "register"
  /\ plugins' = plugins \cup {worker[w].body}
  /\ LET c == Head(worker[w].todo)
     IN components' = components \cup {c} /\
        IF ~Registers(c) \/ Len(worker[w].todo) = 1 THEN Done(w)
        ELSE worker' = [worker EXCEPT ![w].todo = Tail(@)]
  /\ UNCHANGED <<rules, calls, parted>>

\* RegisterPlugin: Register, one component after the other, until one is refused; then
\* the plugin is stored.
Register(w) ==
  /\ worker[w].pc = "register"
  /\ IF worker[w].todo = <<>>
     THEN plugins' = plugins \cup {worker[w].body} /\ Done(w) /\ UNCHANGED components
     ELSE LET c == Head(worker[w].todo)
          IN /\ components' = components \cup {c}
             /\ IF Registers(c) THEN worker' = [worker EXCEPT ![w].todo = Tail(@)] ELSE Done(w)
             /\ UNCHANGED plugins
  /\ UNCHANGED <<rules, calls, parted>>

\* Unregister of a plugin, with its components, or of one component.
Unregister(w, x) ==
  /\ Call(w, "plugins", Idle)
  /\ components' = components \ (IF x \in plugins THEN Range(Provides[x]) ELSE {x})
  /\ plugins' = plugins \ {x}
  /\ parted' = (parted \/ x \in components)
  /\ UNCHANGED rules
-----------------------------------------------------------------------------
(* The debug data of the nodes of a chain.                                 *)

notDebug == <<traffic, server, boot, registry, pool, files, calls, crashes, sound>>

\* Debug.onDebug: a task for the pool.
OnDebug(w, n) ==
  /\ server = "up" /\ traffic = "debug" /\ worker[w].pc = "idle"
  /\ worker' = [worker EXCEPT ![w].pc = "record", ![w].id = n]
  /\ UNCHANGED <<notDebug, debug>>

\* config.OnDebug: a record with the time.
Record(w) ==
  /\ worker[w].pc = "record" /\ records < MaxRecords
  /\ records' = records + 1
  /\ worker' = [worker EXCEPT ![w].pc = "push", ![w].eng = records + 1]
  /\ UNCHANGED <<notDebug, data>>

\* FixedQueue.Push: a full queue loses its first item.
Push(items, r) == (IF Len(items) = QueueSize THEN Tail(items) ELSE items) \o <<r>>

\* NodeDebugData.Add: a queue is made for the first record.
NodeAdd(n, r) == data' = [data EXCEPT ![n] = Push(IF @ = None THEN <<>> ELSE @, r)]

\* RuleChainDebugData.Add.
Add(w) ==
  /\ worker[w].pc = "push"
  /\ NodeAdd(worker[w].id, worker[w].eng)
  /\ Done(w)
  /\ UNCHANGED <<notDebug, records>>

\* NodeDebugData.Get: there are items.
Holds(n) == server = "up" /\ traffic = "debug" /\ data[n] \notin {None, <<>>}

\* Clear of a node, of a chain, and of a queue.
NodeClear(n) == data' = [data EXCEPT ![n] = None]
ChainClear == data' = [m \in DebugNodes |-> None]
QueueClear(n) == data' = [data EXCEPT ![n] = <<>>]

\* FixedQueue.Pop.
Pop(n) == data' = [data EXCEPT ![n] = Tail(@)]

Take(n) ==
  /\ Holds(n)
  /\ NodeClear(n) \/ ChainClear \/ QueueClear(n) \/ Pop(n)
  /\ UNCHANGED <<notDebug, worker, records>>

\* GetToPage: the items of the queue itself are sorted, the last record first, ...
GetToPage(w, n) ==
  /\ Holds(n) /\ worker[w].pc = "idle"
  /\ worker' = [worker EXCEPT ![w].pc = "sort", ![w].id = n]
  /\ UNCHANGED <<notDebug, debug>>

\* ... neighbours that are in the wrong order change places, one pair at a time and
\* without the lock.
Sort(w) ==
  /\ worker[w].pc = "sort"
  /\ LET n == worker[w].id
         items == IF data[n] = None THEN <<>> ELSE data[n]
         Wrong == {i \in 1..(Len(items) - 1) : items[i] < items[i + 1]}
     IN \/ /\ \E i \in Wrong : data' = [data EXCEPT ![n] = [@ EXCEPT ![i] = items[i + 1], ![i + 1] = items[i]]]
           /\ UNCHANGED worker
        \/ Wrong = {} /\ Done(w) /\ UNCHANGED data
  /\ UNCHANGED <<notDebug, records>>

Work(w) ==
  \/ Reload(w) \/ NewLoad(w) \/ NewMake(w) \/ NewStore(w) \/ OpenFile(w) \/ WriteFile(w)
  \/ SaveFails(w) \/ RangeNext(w) \/ Stop(w) \/ Delete(w) \/ Register(w) \/ Record(w) \/ Add(w) \/ Sort(w)

\* The route of createSaveDslRouter.
PostDsl(w) == \E id \in Ids, b \in Bodies : Save(w, id, b)

Request(w) ==
  \/ PostDsl(w) \/ \E id \in Ids : Del(w, id)
  \/ \E p \in Plugins : RegisterPlugin(w, p)
  \/ \E x \in plugins \cup components : Unregister(w, x)
  \/ StopAll(w) \/ \E n \in DebugNodes : OnDebug(w, n) \/ GetToPage(w, n)

Next ==
  \/ InitRuleGo \/ Serve \/ Crash
  \/ \E n \in DebugNodes : Take(n)
  \/ \E w \in Workers : Request(w) \/ Work(w)

Spec == Init /\ [][Next]_vars
-----------------------------------------------------------------------------
Suffixes(s) == {SubSeq(s, n, Len(s)) : n \in 1..(Len(s) + 1)}

TypeOK ==
  /\ server \in {"boot", "up", "dead"} /\ boot.plugins \in Suffixes(PluginFiles) /\ boot.files \in Suffixes(RuleFiles)
  /\ components \subseteq Components /\ plugins \subseteq Plugins
  /\ ruleEngines \in [Ids -> 1..made \cup {None}]
  /\ engine \in [1..MaxEngines -> [dsl : Bodies \cup {None}, live : BOOLEAN]]
  /\ files \in [Ids -> Bodies \cup {None, Torn}]
  /\ sound \subseteq Ids
  /\ \A n \in DebugNodes : data[n] # None =>
       Len(data[n]) <= QueueSize /\ Range(data[n]) \subseteq 1..records /\ IsInjective(data[n])

Busy(id) == \E w \in Workers : worker[w].pc # "idle" /\ id \in {worker[w].id} \cup Range(worker[w].todo)

(***************************************************************************)
(* The pool hands out live engines (New, Del, Stop of rulego.go): an       *)
(* engine in the pool has its rule chain, except while a call that stops   *)
(* it is under way.                                                        *)
(***************************************************************************)
PooledIsLive ==
  \A id \in Ids : ruleEngines[id] # None /\ ~Busy(id) => engine[ruleEngines[id]].live

(***************************************************************************)
(* What is saved is what runs, also after a restart (saveDsl, Load): once  *)
(* a sound chain has been saved under its own id, by a call that met no    *)
(* other, the engine of the server that is up has the text of the file,    *)
(* until a chain with the same id in it is saved under another id.         *)
(***************************************************************************)
SavedIsRun ==
  \A id \in sound : server = "up" /\ ~Busy(id) =>
    GetDsl(id) # None /\ GetDsl(id) = files[id]

(***************************************************************************)
(* What is saved does not keep the server from starting again              *)
(* (initRuleGo, loadRules, which ends the program over an error): once a   *)
(* sound chain has been saved under its own id, by a call that met no      *)
(* other and came to its end, its file is never the one at which a start   *)
(* stops, whatever plugins the chain needs and other calls save.           *)
(***************************************************************************)
SavedStarts == server = "dead" => Head(boot.files) \notin sound

(***************************************************************************)
(* A plugin in the registry is whole (RegisterPlugin, Unregister): all of  *)
(* its components are registered, although two plugins with a component in *)
(* common may be registered at the same time, as long as no component is   *)
(* unregistered on its own.                                                *)
(***************************************************************************)
PluginIsWhole == ~parted => \A p \in plugins : Range(Provides[p]) \subseteq components

(***************************************************************************)
(* What FixedQueue.Push documents (node_debug_data.go:186): a full queue   *)
(* removes its oldest record, so that no record goes while one made before *)
(* it stays.  Not so: records are pushed by concurrent tasks, and          *)
(* GetToPage turns the queue around.                                       *)
(***************************************************************************)
DropsOldest ==
  [][\A n \in DebugNodes : data[n] # None /\ data'[n] # None =>
       \A old, new \in Range(data[n]) :
         old < new /\ old \in Range(data'[n]) => new \in Range(data'[n])]_data
=============================================================================
