# Verification of the RuleGo rule engine

TLA+ models of the concurrent parts of RuleGo, TLC configurations that check
them on small instances, and TLAPS proofs of the main results for every
instance. `PROJECT.json` is the index: components, runs, mutants, the map from
definitions to source lines, findings, hazards and theorems.

## The system

RuleGo runs messages through *rule chains*. A chain is a graph of *nodes*
(components) whose edges are labelled with relation types. A node gets a message
and a *rule context* and answers by calling `TellNext`, `TellSuccess` or
`TellFailure` on the context, which starts every node that the relation leads
to, each in a goroutine of its own.

| part | source | state | what makes it hard |
|---|---|---|---|
| rule context | engine.go | tree of contexts, waiting counters, completion flag | counters changed by many goroutines, panics, rejected tasks |
| rule engine, chain, node | engine.go, chain.go, node.go, parser.go | nodes, routes, relation cache, aspects | hot reload while messages run, cache filled outside the lock |
| engine pool | rulego.go | map of engines | check-then-store, delete racing create |
| worker pool | pool/workerpool.go | ready stack, worker count, stop flag | submit, release, clean and stop interleave |
| component registry | registry.go | map of components and plugins | plugin registered in several steps |
| delay node | components/action/delay_node.go | pending messages, timers | limit checked before the insert, overwrite mode |
| group nodes | components/action/group_action_node.go, components/filter/group_filter_node.go | counters, result channel | callbacks racing each other and a timeout |
| skip-fallback aspect | aspect/skip_fallback_aspect.go | error counter and time per node | after-advice of the fallback itself counts as an error |
| JS engine | components/js/js_engine.go | pool of VMs, timeout goroutine | a late interrupt meets the next execution |
| endpoints | endpoint/ | routers, servers, connections | routers changed while requests run, answers written by other goroutines |
| MQTT and net clients | components/mqtt/client.go, components/external/net_node.go | handlers, connection, heartbeat | reconnection, write after disconnect |
| aspects | api/types/config.go, aspect/ | their order | advice that answers for a node, or stops it |
| other nodes | components/ | configuration only | what they tell: nothing, once, or several times |
| example server | examples/server/ | files, engines, debug data | crashes between two writes, a file that no longer loads |

## Modules

### RuleContext

The core: one message on its way through one chain. The variables are the fields
of `DefaultRuleContext` (`waitingCount`, `onAllNodeCompletedDone`, parent, self)
and the positions of the goroutines. A context is named `<<parent, k>>`, so the
tree is part of the names. `TellNext(c)` starts the node of a context,
`TellChild` and `TellEnd` are the iterations of the loops of `tell`, `Recover` is
the deferred function of `tellNext`, `OnEnd`, `ChildDone`, `LoadDone` and
`StoreDone` are the steps of a goroutine that ends a branch and climbs to the
root, `Return` is the receive from the channel in `OnMsgAndWait`. Each atomic
operation is a step of its own. What a node does is a *script*: its tells, each
with a list of relation types, and whether it panics after them.

`NodeScripts` is the catalogue of scripts: for each component the set of scripts
its `OnMsg` can follow, by the outcomes that the component tells apart (an error, a
verdict, the step at which a service fails, the number of items or events). The delay
and group nodes are in it by what they tell, which `DelayNode` and `GroupNode` show in
detail, and a chain used as a node (`SubChain`, chain.go:239) by what `TellFlow` tells
without callbacks.
`ExecuteAroundAop` puts the around advice in front of a script: every advice runs,
in the order of `GetAspects`, and the node runs after them unless one said no.
`MCRuleContext` composes the two: a chain whose nodes are each any component of a
kind, the clients under the built-in aspects and the streams under those of a
program.

| run | what it shows |
|---|---|
| `context` | no completion is lost, `onEnd` comes before the report to the parent, completion is exact for messages that meet only nodes that tell once and lead to one node, and for branching ones with two named exceptions, and the caller returns unless a node tells nothing or the pool rejects a task |
| `returns_early` | (violation) with two next nodes `OnMsgAndWait` can return before the second one has run |

`BranchesExact` is about messages that branch. `MCRuleContext` keeps a history variable,
`irregular`, which is set when a node tells more than once (or tells and panics) and when
`childDone` brings the counter of a context to zero while `tell` is still on its way
through the list of next nodes, the cause of `returns_early`. As long as it is not set,
completion comes at most once, and after every node and every `onEnd`, however many
branches there are and whichever panic. The two exceptions are what the code does; the
property says that there is no third.

A second completion closes a closed channel, which panics in the goroutine that does it
(engine.go:586); `StoreDone` counts it instead and lets the goroutine end.

Bounds: a chain of seven nodes without cycles, so a message makes finitely many
steps and no counter needs a cap; the switch tells up to two relations and one of
them leads to two nodes, so counters are shared by siblings and by repeated tells.
`MaxItems` is 1: an iteration still tells twice (the item and the end), and two
items take TLC past five minutes. Fairness is weak fairness of the goroutines'
steps: Go's scheduler runs every goroutine that can run.

`CompletedOnce` states engine.go:53 (`onAllNodeCompleted` is "只执行一次", executed once)
and does not hold: put in place of `ReturnsAfterAllNodes` in `RuleContextEarly.cfg`, TLC
shows two branches that both load the flag before either stores it; the second call
closes a closed channel. Two disagreements are outside the scripts, which have no
message content: `executeAroundAop` keeps the message that `Before` and `Around`
return to itself, so the node gets the one from before them, against
api/types/aspect.go:52 and :70; and the end callbacks of a sub chain write the metadata
of the merged message outside the mutex (flow_node.go:78).

### RuleContextProofs

`NothingLost` proves `Spec => []NoLostCompletion` for every chain, script and
pool. `NoLostCompletion` is not inductive: it speaks of contexts whose branches
have all come back, and a step cannot tell why the counter has the value it has.
The inductive invariant `IInv` adds `Counting` (the counter of a context is at
most the number of children that have not reported, and a context that was
brought down to zero has told its parent), `Routing` (a goroutine on its way up is
at its own context or at the parent of the one it comes from) and `AtRoot` (what
reaches the root leads to the callback). One lemma per group of actions shows
that a step keeps it: `SubmitStep`, `EndStep`, `PhaseStep`, `ChildDoneStep`.

`TypeCorrect` proves `Spec => []TypeOK` from the same invariant.

`OnEndComesFirst` proves `ReportedAfterOnEnd`. The property looks at contexts that
have reported; `SettledInv` adds the goroutines that are about to report, and says
that the context each comes from has children, has had its `onEnd`, or has panicked.
It needs `Routing`: a goroutine on its way up is at its own context or at the parent of
the one it comes from.

`StraightIsExact` proves `CompletionExact`. Among nodes that tell once and lead to one
node the contexts form a line, and `LineInv` says so without induction over the line:
there is one context without a child (`OneBranch` for each, and any two without a child
are the same). So there is one goroutine that ends a branch (`OneEnd`), and when it has
called the callback nothing else is left. `StraightBefore` lets the condition on the
nodes met so far be used in both states of a step. The theorems
assume what `RuleContext` assumes of its constants (the chain is a function from
nodes to sets of scripts and from nodes and relations to sequences of nodes), not that
the chain has no cycles: safety does not need it.

### WorkerPool and TaskPool

`WorkerPool` is pool/workerpool.go. A region between `Lock` and `Unlock` is one
step, and so is every channel operation: `GetReady`, `GetNew` and `Reject` are the
outcomes of `getCh`, `Send` the send in `Submit`, `Receive`, `Finish`, `Release`
and `Exit` the steps of `workerFunc`, `CleanTime`, `CleanLock`, `CleanNotify` and
`CleanSelect` those of the cleaner, `StopClose` and `StopLock` those of `Stop`.
`TaskPool` says what the engine needs of a pool: a task is rejected, or accepted
and run once and to its end, with a bounded number unfinished. `RunsOnce` is the
refinement of `TaskPool`, its fairness included, by `WorkerPool`.

`CleanLock` cuts the workers that are idle too long off the front of the ready list;
`Obsolete` is the code's binary search for their number, over `IdleTimes`. The step asks
for a number within the list, since the slice expression panics otherwise. That the
search stays within it, and on sorted times counts right, is `SearchCounts` of
`MCWorkerPool`, which TLC evaluates for all lists of up to 5 times; the proofs do not
show it, they hold whatever number within the list is cut.

`WorkerPoolProofs`: `WorkersAreNotShared` (`OneHolder`) and `CountIsExact`
(`CountIsLive`), for any number of tasks and workers. `OneHolder` alone is not
inductive: who owns a worker has to be said for every place a reference can be, the
cleaner's scratch list included, which is empty except while it notifies.
`ImplementsTaskPool` is the safety part of the refinement, step by step: each step of
the pool is a step of `TaskPool` or changes nothing there.

| run | what it shows |
|---|---|
| `pool` | a worker that waits has exactly one holder (ready list, Submit, cleaner or its channel), `workersCount` is the number of workers, the pool implements `TaskPool`, and all workers exit after `Stop` |

Bounds: at most two workers (of three channels, so that a channel can rest in
`workerChanPool` while another is used) and three tasks, which make rejection, reuse
and both lengths of the cleaner's list possible. The clock goes far enough for a
worker to become idle and be cleaned. The capacity of the channels is a constant,
but makes no difference: by `OneHolder` nobody sends to a worker that is not
receiving. Fairness is weak fairness of each worker, of a pending send, and of the cleaner and of
`Stop` once they have begun; nobody is forced to submit, to stop, or to let time
pass.

### GroupNode

One message in the group action node or the group filter node. The callbacks of
the group run concurrently, and each atomic operation of a callback is a step
(`Check`, `Count`, `MatchOne`, `Decide`, `LastOne`, `Complete`, `SendVerdict`);
`Select` is the wait of `OnMsg`. A behaviour says whether a node is found and what
it tells; a node that tells nothing has panicked.

| run | what it shows |
|---|---|
| `group` | there is at most one verdict and it is earned, a failure of the group action merges all results, and `OnMsg` answers (without a timeout if all nodes tell, with one in any case) |

`Init` picks the kind of node (action, filter with or without `AllMatches`) and
whether there is a timeout; the context of the message may be cancelled in either case
(`Timeout`). Three nodes: two are enough for one callback to see the
counters of another half updated, three for a verdict while a callback is still to come. `VerdictIsRight` states group_filter_node.go:44 (`True` only if
all nodes are `True`) and does not hold: with `Confs <- AllMatches`, `Behaviours <- OneFalse` and
`Length = 2`, the callback of the node that tells `False` raises `endCount` first, and the
other one can see all nodes ended and send `True`. It fails for the group action as well
(`mode |-> "action"` and two nodes that tell `Match`): `endCount` is raised before
`currentMatchedCount`, so two nodes match and the message goes to `Failure`, against
group_action_node.go:50.
Fairness is weak fairness of the whole system, that is, some step is taken while
one is possible; without a timeout the end of the context is not one of these steps, since
nobody has to cancel it.

`GroupNodeProofs`: `VerdictIsEarned` (`EarnedVerdict`) and `AllAreMerged` (`MergesAll`)
for groups of any length, from `GroupAssumption`. The inductive invariant `GroupInv`
relates each shared counter to the callbacks that are past the step that raises it.

### DelayNode

The delay node with messages that arrive concurrently, the timers of `TellSelf`,
and a reload that replaces the node under its timers. `OnMsg`, `Replace`,
`Length`, `SetLast`, `Insert` are the steps of handling a message, `Ack` is the
handling of the message the timer brings back.

| run | what it shows |
|---|---|
| `delay` | without overwrite and with distinct ids, queue and running timers agree; in both modes and over a reload, a timer comes for every message kept under an id, and every message that was not absorbed by an earlier one ends |

`Init` picks whether `Overwrite` is set. Three messages and a limit of two make
rejection possible. Four more properties of the module state what
delay_node.go documents and does not keep; put in `DelayNode.cfg`, TLC finds each
violated:

- `KeptUnderAnId` (delay_node.go:62, overwrite): a message that saw a pending message
  is stored under the empty id when the timer fires in between; no timer has that id, so
  it is neither removed nor routed.
- `PendingWithinLimit` (delay_node.go:51, `MaxPendingMsgs = 1`, no overwrite): messages
  that arrive together all pass the test of the limit.
- `OneKept` (delay_node.go:56, overwrite): two messages that arrive together are both
  queued.
- `DelayedSucceeds` (delay_node.go:62, no overwrite, `IdOf <- SameId`): of two copies of a
  message one tells `Failure`, because the queue is keyed by the id they share.

Time is left to the order of the steps: a timer may fire any time after it was
started. Fairness is weak fairness of the handling of each message that has
arrived, timers included, since `time.AfterFunc` fires; arrivals are not forced.

`NodeProofs` (first part): `QueuedHasTimer` (`TimerForEach`, both modes, over reloads) and
`QueueIsExact` (`QueueMatchesTimers`). The second one has the hypothesis that ids are
distinct: with `IdOf <- SameId` TLC finds it violated, for the reason given with
`DelayedSucceeds`. `LastHasTimer` is what overwriting relies on: the last pending id has a
timer, or a handler that is about to start one. `OwnMessage`, for the second theorem, says
that no timer takes the message of another.

### SkipFallbackAspect

The aspect around one node of one chain. Records are objects with numbers, because
an execution may hold a record that has left the cache. Each load, atomic operation
and locked region is a step; an execution that finds the record at its second look
counts and stamps it while it holds the lock (`Locked`).

| run | what it shows |
|---|---|
| `skip_count` | no failure is lost when the first failures of a node come together; a node is skipped only after `ErrorCountLimit` recorded failures |

`SkipEnds` states skip_fallback_aspect.go:44 (after `LimitDuration` the node is executed
again) and does not hold: the `Failure` told by a skip renews the record, so the node is
skipped after `LimitDuration` has passed since it last failed itself. TLC shows it with
`SkipEnds` as a `PROPERTY` of `SkipFallbackCount.cfg`, `ErrorCountLimit = 1`,
`LimitDuration = 1`, `MaxTime = 3`, `MaxDrops = 0` and no symmetry.

Bounds: four executions with a limit of two, one reload and an expiry. An execution
tells once. The panic path of `tellNext` is not included: it calls `After` with the
relation that led to the node, on the context of the previous node.

`NodeProofs` (third part, `Aspect == INSTANCE SkipFallbackAspect`), for any number of
executions, any limits, reloads and times: `EveryFailureCounted` (`CountsEveryFailure`)
and the action property `SkipsAreEarned` (`SkipIsEarned`). The inductive invariant is
`SkipInv`: nothing refers to a record that was not made (`RecordType`, `Found`); no record
has more errors than failures were counted, and an execution that is about to skip has
seen enough of them (`Earned`), whatever was dropped; while nothing was dropped there is
one record, which all use (`OneRecord`). An instance does not bring the assumptions of its
module, so `AspectAssumption` is a hypothesis of the two theorems. Records are numbered by
the size of the set of those there are, so the proof counts: `Sized` and `Countable` name
what it needs of `Cardinality`, and are derived at the end from the library's theorems on
finite sets.

### RuleChain

An engine with its chain while messages run. Every load makes a `RuleChainCtx` of
its own; the engine keeps its first one and `Copy` writes the new one into it. The
copied `rootRuleContext` still points to the new context, so messages that start
after a reload run on a context that no later reload changes, while messages that
started before the first reload see it happen. `Decode`, `Destroy` (node by node),
`Copy` are the steps of a reload, `ReloadChild`, `DestroyNode`, `CopyNode` those of
the reload of a node, `GetNextNodes`, `GetNodeRoutes`, `GetNodeById` and
`CacheNextNodes` those of a lookup, each between two locks.

| run | what it shows |
|---|---|
| `chain` | a message that starts after a reload runs one definition; a message runs a destroyed node only if a reload or a stop began after its start (or was under way); reloads destroy exactly the instances they replace, up to those that a failed load leaves behind |

Bounds: two messages, three definitions (a node is added and removed again) and one
reload of a node at any time. Two chain reloads are needed to tell "the engine's
context" from "the context of the message". `CacheIsCleared` states the comment at
chain.go:312 (Copy clears the cache) and does not hold: put in `RuleChain.cfg`, TLC
shows a lookup that began before the first reload and stores nodes of the old
definition into the cleared cache.

`RuleChainProofs`, for any definitions and any number of messages and reloads:
`ReloadedRunsOne` (`OneDefinition`), `LivesAreCurrent` (`LiveIsCurrent`) and
`UndisturbedRunsLive` (`QuietRunsLive`). `ChainInv` says that a context which
still holds its own definition leads to no node of another one, by its cache or by what
the messages on it have looked up (`Clean`), that a message which does not run on the
engine's context runs on one that no reload is copied into (`Apart`), and which instances
are live at each point of a reload (`Lives`).

### JsEngine

`GojaJsEngine`: executions that take a VM from a pool, each with a timer. The timer and
the execution agree over a channel that holds a 0: whoever receives it decides whether
the script is interrupted or has ended in time. goja is external: `Interrupt` sets a flag
that ends the script the VM runs, now or the next time.

| run | what it shows |
|---|---|
| `js` | no two executions share a VM and none in use is in the pool, only one side takes the 0 so nobody sends on a closed channel, and `Execute` returns although the script runs forever |

Two executions are enough for one VM to pass from one to the other with a timer of the
first still under way. Fairness is weak fairness of the executions and the timers; that
a script ends is not assumed. `OneUser` does not say that an execution is interrupted by
its own timer only: the flag of a late interrupt stays on the VM and may end the next
script that runs on it.

`NodeProofs` (second part, `Js == INSTANCE JsEngine`), for any number of executions and VMs: `VmsAreNotShared` (`OneUser`)
and `TimerDecidesAlone` (`TimerClaimsFirst`). `VmInv` adds that nobody uses a VM that is
not made yet; `TokenInv` follows the one token in the state channel of each timer.

### NetLink

The net client node against the net endpoint, over a network that breaks connections.
Time is discrete and passes only when nothing is due. `OnConnect`, `Sleep`, `OnDisconnect`
are the loop of `start`, `OnPing`, `PingWrite` the heartbeat, `OnWrite` a message;
`Accept*` and `CloseListener` are `Start` and `Close` of the endpoint, `Serve` its handler.

| run | what it shows |
|---|---|
| `net_link` | the server does not drop a client whose connection is up, a lost connection is replaced, handlers on the server end, and `Destroy` closes the connection for good |

`TimingAssumption`: the heartbeat, and the processing of a line, are shorter than the read
timeout; otherwise healthy clients are dropped. `ReadTimeout = 0`, with which the endpoint
sets no timer at all, is left out: then nothing drops a client, and a handler whose client
has vanished ends only when the network says so. Three connections: `Repaired` says nothing
of the last one, and the second loss is what shows that the timer is started again after
a reconnection. With two connections a heartbeat that stops there goes unnoticed. Fairness: goroutines run and time passes
(weak), and a dial that can succeed again and again does succeed (strong). Deadlock is
checked here. `AcceptNil` is a crash the code allows: `Close` sets the listener to nil
while `Start` is between two calls of `Accept` (net.go:246). Every connection has a
processing time of its own, since each handler is a goroutine.

`EndpointProofs` (second part, `Net == INSTANCE NetLink`): `HealthyClientStays`
(`HealthyStays`) for every heartbeat and processing time below the read timeout and any
number of connections and lines; `TimingAssumption` is its hypothesis. The property looks
at connections whose time has run out; `LinkInv` says for every connection that is up how
much time is left: nothing is on its way to the server, and then the next heartbeat comes
before the limit (`Fed`), or a line is there and the server has been busy for less than the
limit since the timer was set.

### MqttClient

The MQTT endpoint on its client: routers are added and removed before, during and after
the start, while the connection is lost and made again and `onConnected` subscribes what
it finds in the handler map. The broker and paho are external.

| run | what it shows |
|---|---|
| `mqtt` | no handler stays unsubscribed over a reconnection, no router added during the start is missed, and `RegisterHandler` returns |

Two topics, two goroutines, one loss: the goroutine of the first connection can still be
subscribing when the second one begins. Fairness: the broker is reached again (weak), and
a goroutine that waits for the mutex gets it (strong; Go's mutex does not starve). A map
read without its lock (client.go:176) is modelled by the order in which keys are met,
not by the fatal error the Go runtime may raise. Not covered by the properties: after
`Close` handlers are kept and a reconnection subscribes them again (client.go:153), and a
topic that the broker refuses is retried for ever with the mutex held.

`MqttClientProofs`, for any routers, topics, goroutines and losses: `NoSubscriptionLost`
(`HandlersSubscribed`) and `NoRouterMissed` (`AddedIsRegistered`). Both properties speak
of moments when nothing is under way; `MqttInv` says for all others who still owes the
work. A handler is delivered, or owed by a worker that is about to subscribe it or drop
it (`OwedByWorker`), or by the goroutine of this connection (`OwedByResub`); a
stored router is registered, or owed by `AddRouter` or by `Start`. `FreshInv` (the goroutine
of a connection to come has seen nothing) is what makes a new connection owe everything.
`MqttAssumption`: nil is no router and no goroutine, the main goroutine is one of them, and
the bound on the losses is a number.

### Endpoint

The table of routers of each kind of endpoint and what a request goes through: From
processes, the chain or component it leads to, waited for or not, To processes. `Init`
picks the kind. What the engine does with a message is abstracted to the number of its
ends, and to panics: that of a node of a chain completes the execution (`ChainPanics`),
before its ends or without any, that of a component ends the handler (`ComponentPanics`).
So an answer that is waited for may be missing when the handler returns; for chains that
do not panic and complete once it is there, by `ReportedAfterOnEnd`.

A key is a method and a path. `rest` turns the method into upper case when a router is
added (`KeyOf`) and takes it as it is given when one is removed; `RemoveRouter` with a
method in lower case finds nothing. A router object that is added for several methods is
one object with one disable flag, so that removing it for one method disables it for all
(rest.go:262). A router for a disabled key that is added again enables the old object.
The table of the mqtt endpoint and its handlers are in `MqttClient`; here its messages
come from any router that was ever subscribed.

| run | what it shows |
|---|---|
| `endpoint` | a key whose last call was `AddRouter` has a router of its path, which serves unless it was removed for another method; a router whose keys were all removed takes no message even on an old websocket connection; requests end, and `Close` returns |

Three routers on two paths (two compete for one path, which `rest` has under two methods
and one of them in lower case; one leads to a chain, one to a component, one to nothing),
two handlers, at most two ends. Fairness is weak fairness of the handlers and of `Close`;
chains that never end are excepted in the properties. `ServesAdded` is not about mqtt,
whose client may call a handler after it was removed.

`EndpointProofs`, for every other kind and any routers, methods, paths and handlers:
`TableFollowsCalls` (`AddedIsServed`) and the action property `RemovedTakesNothing`
(`ServesAdded`). `EndpointInv` relates the table and the disable flags to the last calls
for the keys (a disabled router was removed under a key it is stored under, one that is not
disabled was added under one), and the router of a websocket connection to the table; a
step replaces the record of one handler by one that is `Sound` (`MovedTo`).
`EndpointAssumption`: nil is no router, and the bounds are numbers.

### Server

The example server over the pool of engines and the component registry: requests save and
delete chains, plugins come and go, debug data is recorded and read, and the process
crashes and starts again from its files. `Init` picks which of the three kinds of traffic
there is; the crash can come between any two steps of a request.

| run | what it shows |
|---|---|
| `server` | engines in the pool are live, a sound chain whose save came to its end is what runs, also after a crash, and never the one at which a start stops, and a plugin in the registry is whole |

A text decodes or not (`Decodes`): it is not JSON, or JSON that is no chain or has a
configuration that the `Init` of a node refuses (`Malformed`), or it needs a component that
is not registered. A text whose `Init` needs a broker or a database (`Remote`) may decode
one time and fail another. A save truncates the file and then writes it; a crash, or an
error of `SaveFile` (`SaveFails`), in between or in the middle of the text, and two saves
of one id that overlap (`Written`), leave a file that does not parse (`Torn`).

Two ids, seven bodies (one is not JSON, one is no chain, one is a node, one needs a broker,
two need a component that may be missing), three plugin files of which one is broken and two
share a component, three calls, one crash, queues of two. The kinds of traffic are not mixed,
to keep the state space small: they meet only in the registry, so a plugin that is
unregistered while chains are saved is not covered. The properties have exceptions, which
are what the code does:

- `SavedIsRun` and `SavedStarts` are about sound chains saved under their own id by a call
  that met no other and came to its end. A refused chain is saved all the same and answered
  with 200 (server.go:436), and it stops the next start; so does the file of a save that was
  cut off, and that of a chain whose broker is away. `Save` racing `Del` can revive an engine
  outside the pool.
- `PluginIsWhole` holds until a component is unregistered on its own.

`DropsOldest` states what `FixedQueue.Push` documents (node_debug_data.go:186, a full queue
removes its oldest record) and does not hold: `GetToPage` sorts the shared items without the
lock, newest first, after which `Push` drops the newest, and tasks that record together may
push in another order. As a `PROPERTY` of `Server.cfg` TLC finds it violated. `Sort` exchanges
neighbours one pair at a time, so that a `Push` may come in the middle; races on the slice
header itself are not modelled.

Assumed of the configuration: the folder of the rules is given with a trailing slash.
`saveDsl` writes to `filepath.Dir` of it (server.go:433) and `Load` reads the folder itself, so
without the slash what is saved is not what is loaded. `Unregister` deletes from the map under
a read lock (registry.go:106); it is one step here, and the fatal error that the Go runtime
may raise for a concurrent map access is not modelled.

`ServerProofs`, for any ids, texts, plugins, components, workers, calls and crashes:

- `PluginsAreWhole` (`PluginIsWhole`). A plugin is registered component by component, and
  another call may do the same meanwhile. `Owned` says who has which component: a stored
  plugin has its own, a call that registers one has those it has come past, and no two of
  them share one.
- `PooledAreLive` (`PooledIsLive`). `Engines` says that no engine is in the pool under two
  ids (`OneId`), that an engine between `New` and its `Store` is known to nobody else (`Own`),
  that an engine which is reloaded or stopped is in the pool under the id of the call or not
  at all (`Named`), and that a stopped engine in the pool has a call that is about to take it
  out (`Leaves`).
- `SavedRuns` (`SavedIsRun`). `SoundInv` says of each chain in `sound` that at most one call
  is for it, which saves it and has come so far (`Saves`; between the two steps of
  `SaveFile` the file is torn, so that nothing of an older text is left), that no other file holds a chain
  with its id (`Alone`), and, when no call is for it, that the file has the chain, which runs
  or, while the server starts, is still to be loaded (`Saved`). A step of a worker whose call
  is for other chains leaves this one alone (`LeavesAlone`), because `Engines` keeps its hands
  off the engine; the steps of its own call are the lemma `SoundSaving`; a crash falls back on
  the file.

All three rest on `Types`, which says what a worker at each place has in its hands. The
lemmas named after an action (`SaveStep`, `NewStoreStep`, ...) state what it does to the one
worker that takes it; the proofs of the invariants use them, and not the definitions of the
actions. `ServerAssumption`: nil is no value, the listings are lists of files there are,
every chain has its place in the listing, and the text of a node holds no chain id.

### Types and deadlock

Every module but `TaskPool` and `NodeScripts` states its types as `TypeOK`; those of
`RuleContext` and `WorkerPool` are proved as theorems, and the other proof modules prove
the types they need as part of their invariants. `TypeOK` is not in the configurations; it can be added to any of
them as an invariant and holds. `CHECK_DEADLOCK FALSE` is set in every run but `net_link`:
messages, tasks, calls and reloads are finite in number, so these models stop.

## What is proved and what is only model-checked

Proved with TLAPS, for all values of the constants that meet the named assumptions:

| module | theorem | property |
|---|---|---|
| RuleContextProofs | `TypeCorrect`, `NothingLost`, `OnEndComesFirst`, `StraightIsExact` | `TypeOK`, `NoLostCompletion`, `ReportedAfterOnEnd`, `CompletionExact` |
| WorkerPoolProofs | `TypesHold`, `WorkersAreNotShared`, `CountIsExact`, `ImplementsTaskPool` | `TypeOK`, `OneHolder`, `CountIsLive`, `TaskPool` without fairness |
| GroupNodeProofs | `VerdictIsEarned`, `AllAreMerged` | `EarnedVerdict`, `MergesAll` |
| NodeProofs (DelayNode) | `QueuedHasTimer`, `QueueIsExact` | `TimerForEach`, `QueueMatchesTimers` |
| RuleChainProofs | `ReloadedRunsOne`, `LivesAreCurrent`, `UndisturbedRunsLive` | `OneDefinition`, `LiveIsCurrent`, `QuietRunsLive` |
| NodeProofs (JsEngine) | `VmsAreNotShared`, `TimerDecidesAlone` | `OneUser`, `TimerClaimsFirst` |
| NodeProofs (SkipFallbackAspect) | `EveryFailureCounted`, `SkipsAreEarned` | `CountsEveryFailure`, `SkipIsEarned` |
| EndpointProofs (Endpoint) | `TableFollowsCalls`, `RemovedTakesNothing` | `AddedIsServed`, `ServesAdded` |
| EndpointProofs (NetLink) | `HealthyClientStays` | `HealthyStays` |
| MqttClientProofs | `NoSubscriptionLost`, `NoRouterMissed` | `HandlersSubscribed`, `AddedIsRegistered` |
| ServerProofs | `PluginsAreWhole`, `PooledAreLive`, `SavedRuns` | `PluginIsWhole`, `PooledIsLive`, `SavedIsRun` |

`NodeProofs` and `EndpointProofs` hold the proofs about several modules: the first one is
extended, the others are named instances, and no theorem relates them.

TLC checks each of these inductive invariants on the instance of the component's run
(`LineInv` for the states with straight nodes only). The assumptions on the constants are
those named in the modules (`ChainAssumption`, `PoolAssumption`, `GroupAssumption`,
`DelayAssumption`, `EndpointAssumption`, `MqttAssumption`, `AspectAssumption`,
`TimingAssumption`, `ServerAssumption`): types, that nil is not one of
the values, that the first node of a chain is one of its nodes, and for the pool that the
worker objects are finitely many, at least as many as its limit, with channels of capacity
0 or 1. `QueueIsExact` alone has a further hypothesis, distinct ids.

Checked by TLC only, on the instances above:

- Liveness (`CallerReturns`, `RunsOnce` with its fairness, `WorkersExit`, `Answers`,
  `EveryMessageEnds`, `ExecuteReturns`, `Repaired`, `HandlersEnd`, `DestroyCloses`,
  `RegisterReturns`, `RequestEnds`, `CloseEnds`): TLAPS does not handle fairness and ENABLED.
- `SearchCounts`: what a binary search returns needs induction over the list.
- `SavedStarts` of `Server`: that every start registers the same components is an induction
  over the plugin files.
- `BranchesExact` of `MCRuleContext`: that the counters along a branching tree are exact is
  an induction over the tree.

No module declares a RECURSIVE operator; the binary search is a recursive function.

The disagreements described with the modules (`CompletedOnce`, `VerdictIsRight`,
`KeptUnderAnId`, `PendingWithinLimit`, `OneKept`, `DelayedSucceeds`, `SkipEnds`, `CacheIsCleared`,
`DropsOldest`) have no run of their own; each was found violated by TLC with the change of configuration
that is given there. What is said without naming a property comes from reading the code.

## What is not modelled

- Content of messages, texts and results of conversions (utils/, DSL and API types): no
  property is about them.
- `Init` of the nodes and the table of functions: configuration, set before messages run.
- The start, end and completion advice of aspects, and the messages that advice returns.
- The endpoint registry (the same map under the same lock as the component registry), the
  lists of components, and the straight-line example programs.
- In `RuleChain`: sub chains, chain ids and two reloads at once.
- In `SkipFallbackAspect`: the panic path of `tellNext`.

## Plan

Models to come: `RuleChain` with sub chains and two reloads, and the advice at the start
and the end of a chain.
