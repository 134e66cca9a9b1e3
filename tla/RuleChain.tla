----------------------------- MODULE RuleChain -----------------------------
(***************************************************************************)
(* One rule engine with its chain and nodes (engine.go, chain.go, node.go) *)
(* while messages run: hot reload of the chain or of one node, stop and    *)
(* restart, and the cache of next nodes.                                   *)
(*                                                                         *)
(* Every load of a definition makes a RuleChainCtx, numbered like the      *)
(* definition, with nodes of its own.  The engine keeps the first one it   *)
(* loads, rootRuleChainCtx, and a reload copies the new one into it.  The  *)
(* rootRuleContext that is copied along still belongs to the new one, so   *)
(* messages that start after a reload run on a context nobody changes.     *)
(*                                                                         *)
(* There is one relation type.  A message stands for one of its branches,  *)
(* and one goroutine at a time reloads and stops the engine.  Sub chains   *)
(* are left out.                                                           *)
(***************************************************************************)
EXTENDS Integers, Sequences, FiniteSets, Functions

CONSTANTS
  Msgs,
  Ids,                \* node ids
  Last,               \* the definitions are 0..Last, loaded in this order
  NodesOf,            \* ids of the nodes of each definition
  FirstOf,            \* id of the first node of each definition
  RoutesOf,           \* next ids of each node of each definition
  MaxNodeReloads,     \* bound on the number of reloads of single nodes
  Nil

Defs == 0..Last

ASSUME ChainAssumption ==
  /\ Last \in Nat /\ MaxNodeReloads \in Nat
  /\ NodesOf \in [Defs -> SUBSET Ids]
  /\ \A d \in Defs : FirstOf[d] \in NodesOf[d]
  /\ RoutesOf \in [Defs -> [Ids -> Seq(Ids)]]
  /\ Nil \notin Defs /\ Nil \notin Seq(Defs \X Ids)

VARIABLES
  rootRuleChainCtx,   \* the context of the engine, or Nil
  defOf,              \* definition whose nodes and routes a context holds
  rootOf,             \* context of the rootRuleContext of a context
  relationCache,      \* of each context, by node id
  node,               \* component instance of each node: its generation
  live,               \* instances that are initialised and not destroyed
  loads,              \* number of definitions loaded
  failed,             \* definitions whose load failed
  op,                 \* what the reloading goroutine does
  pc, loc             \* where each message is, and its local variables

vars == <<rootRuleChainCtx, defOf, rootOf, relationCache, node, live, loads, failed, op, pc, loc>>
engine == <<rootRuleChainCtx, defOf, rootOf, node, live, loads, failed, op>>

Idle == [do |-> "idle"]

NodeCtxs == UNION {{d} \X NodesOf[d] : d \in Defs}

\* The instances of the nodes of a definition.
Instances(d) == {<<n, node[n]>> : n \in {d} \X NodesOf[d]}

EmptyCache == [i \in Ids |-> Nil]

Init ==
  /\ rootRuleChainCtx = 0 /\ loads = 1
  /\ defOf = [c \in Defs |-> c]
  /\ rootOf = [c \in Defs |-> c]
  /\ relationCache = [c \in Defs |-> EmptyCache]
  /\ node = [n \in NodeCtxs |-> 0]
  /\ live = Instances(0)
  /\ op = Idle /\ failed = {}
  /\ pc = [m \in Msgs |-> "new"]
  /\ loc = [m \in Msgs |-> [c |-> 0, rc |-> 0, start |-> 0, n |-> <<0, FirstOf[0]>>,
                            rels |-> <<>>, list |-> <<>>, quiet |-> FALSE]]

\* A reload or a stop begins: no message has had a quiet time from now on.
Disturb == loc' = [m \in Msgs |-> [loc[m] EXCEPT !.quiet = FALSE]]

-----------------------------------------------------------------------------
(* Reloading and stopping.                                                 *)

\* InitRuleChainCtx fails at some node: the engine goes on with the chain it
\* has, and nobody destroys the nodes that were initialised before that one.
DecodeFails ==
  /\ op = Idle /\ loads <= Last
  /\ \E s \in SUBSET Instances(loads) : s # Instances(loads) /\ live' = live \cup s
  /\ failed' = failed \cup {loads}
  /\ loads' = loads + 1
  /\ UNCHANGED <<rootRuleChainCtx, defOf, rootOf, relationCache, node, op, pc, loc>>

\* ReloadSelf of an engine that was stopped.
InitEngine ==
  /\ op = Idle /\ rootRuleChainCtx = Nil /\ loads <= Last
  /\ rootRuleChainCtx' = loads
  /\ live' = live \cup Instances(loads)
  /\ loads' = loads + 1
  /\ UNCHANGED <<defOf, rootOf, relationCache, node, failed, op, pc, loc>>

\* ReloadSelf: the definition is decoded, its nodes are initialised.
Decode ==
  /\ op = Idle /\ rootRuleChainCtx # Nil /\ loads <= Last
  /\ live' = live \cup Instances(loads)
  /\ op' = [do |-> "reload", new |-> loads, todo |-> Instances(defOf[rootRuleChainCtx])]
  /\ loads' = loads + 1
  /\ Disturb
  /\ UNCHANGED <<rootRuleChainCtx, defOf, rootOf, relationCache, node, failed, pc>>

Stop ==
  /\ op = Idle /\ rootRuleChainCtx # Nil
  /\ op' = [do |-> "stop", todo |-> Instances(defOf[rootRuleChainCtx])]
  /\ Disturb
  /\ UNCHANGED <<rootRuleChainCtx, defOf, rootOf, relationCache, node, live, loads, failed, pc>>

\* Destroy: one node after the other, in the order of a map.
Destroy ==
  /\ op.do \in {"reload", "stop"}
  /\ \E x \in op.todo :
       /\ live' = live \ {x}
       /\ op' = [op EXCEPT !.todo = @ \ {x}]
  /\ UNCHANGED <<rootRuleChainCtx, defOf, rootOf, relationCache, node, loads, failed, pc, loc>>

\* Mutant: the root context stays the old one.
CopyKeepsRoot ==
  /\ op.do = "reload" /\ op.todo = {}
  /\ LET rc == rootRuleChainCtx
     IN /\ defOf' = [defOf EXCEPT ![rc] = defOf[op.new]]
        /\ relationCache' = [relationCache EXCEPT ![rc] = EmptyCache]
  /\ op' = Idle
  /\ UNCHANGED <<rootRuleChainCtx, rootOf, node, live, loads, failed, pc, loc>>

\* Copy: everything is taken from the new context, and the cache is cleared.
Copy ==
  /\ op.do = "reload" /\ op.todo = {}
  /\ LET rc == rootRuleChainCtx
     IN /\ defOf' = [defOf EXCEPT ![rc] = defOf[op.new]]
        /\ rootOf' = [rootOf EXCEPT ![rc] = rootOf[op.new]]
        /\ relationCache' = [relationCache EXCEPT ![rc] = EmptyCache]
  /\ op' = Idle
  /\ UNCHANGED <<rootRuleChainCtx, node, live, loads, failed, pc, loc>>

Stopped ==
  /\ op.do = "stop" /\ op.todo = {}
  /\ rootRuleChainCtx' = Nil
  /\ op' = Idle
  /\ UNCHANGED <<defOf, rootOf, relationCache, node, live, loads, failed, pc, loc>>

\* ReloadChild finds the node, and its ReloadSelf decodes the new instance.
ReloadChild ==
  /\ op = Idle /\ rootRuleChainCtx # Nil
  /\ \E i \in NodesOf[defOf[rootRuleChainCtx]] :
       LET n == <<defOf[rootRuleChainCtx], i>>
       IN /\ SumFunction(node) < MaxNodeReloads
          /\ live' = live \cup {<<n, node[n] + 1>>}
          /\ op' = [do |-> "destroyNode", n |-> n]
  /\ Disturb
  /\ UNCHANGED <<rootRuleChainCtx, defOf, rootOf, relationCache, node, loads, failed, pc>>

\* Mutant: the new instance is in place before the old one is destroyed.
DestroyNodeLate ==
  /\ op.do = "destroyNode"
  /\ live' = live \ {<<op.n, node[op.n] + 1>>}
  /\ op' = [op EXCEPT !.do = "copyNode"]
  /\ UNCHANGED <<rootRuleChainCtx, defOf, rootOf, relationCache, node, loads, failed, pc, loc>>

\* RuleNodeCtx.ReloadSelf: rn.Destroy()
DestroyNode ==
  /\ op.do = "destroyNode"
  /\ live' = live \ {<<op.n, node[op.n]>>}
  /\ op' = [op EXCEPT !.do = "copyNode"]
  /\ UNCHANGED <<rootRuleChainCtx, defOf, rootOf, relationCache, node, loads, failed, pc, loc>>

\* RuleNodeCtx.Copy
CopyNode ==
  /\ op.do = "copyNode"
  /\ node' = [node EXCEPT ![op.n] = @ + 1]
  /\ op' = Idle
  /\ UNCHANGED <<rootRuleChainCtx, defOf, rootOf, relationCache, live, loads, failed, pc, loc>>

-----------------------------------------------------------------------------
(* Messages.                                                               *)

Goto(m, l) == pc' = [pc EXCEPT ![m] = l]

\* onMsgAndWait: e.rootRuleChainCtx != nil
OnMsg(m) ==
  /\ pc[m] = "new"
  /\ Goto(m, IF rootRuleChainCtx = Nil THEN "refused" ELSE "checked")
  /\ UNCHANGED <<engine, relationCache, loc>>

\* onMsgAndWait reads e.rootRuleChainCtx again; it is Nil if Stop came between.
Start(m) ==
  /\ pc[m] = "checked"
  /\ IF rootRuleChainCtx = Nil
       THEN Goto(m, "panic") /\ UNCHANGED loc
       ELSE LET r == rootOf[rootRuleChainCtx]
            IN /\ loc' = [loc EXCEPT ![m] =
                            [c |-> r, rc |-> rootRuleChainCtx, start |-> defOf[rootRuleChainCtx],
                             n |-> <<r, FirstOf[r]>>, rels |-> <<>>, list |-> <<>>,
                             quiet |-> op = Idle]]
               /\ Goto(m, "run")
  /\ UNCHANGED <<engine, relationCache>>

\* The node has run on its instance and tells; GetNextNodes looks at the cache.
GetNextNodes(m) ==
  /\ pc[m] = "run"
  /\ LET cached == relationCache[loc[m].c][loc[m].n[2]]
     IN IF cached = Nil
          THEN Goto(m, "routes") /\ UNCHANGED loc
          ELSE Goto(m, "tell") /\ loc' = [loc EXCEPT ![m].list = cached]
  /\ UNCHANGED <<engine, relationCache>>

GetNodeRoutes(m) ==
  /\ pc[m] = "routes"
  /\ loc' = [loc EXCEPT ![m].rels = RoutesOf[defOf[loc[m].c]][loc[m].n[2]], ![m].list = <<>>]
  /\ Goto(m, "nodes")
  /\ UNCHANGED <<engine, relationCache>>

\* Mutant: the nodes are those of the engine's context.
GetNodeByIdOfEngine(m) ==
  /\ pc[m] = "nodes" /\ loc[m].rels # <<>>
  /\ LET i == Head(loc[m].rels)
         d == defOf[loc[m].rc]
     IN loc' = [loc EXCEPT ![m].rels = Tail(@),
                           ![m].list = IF i \in NodesOf[d] THEN Append(@, <<d, i>>) ELSE @]
  /\ UNCHANGED <<engine, relationCache, pc>>

\* One iteration of the loop of GetNextNodes; a node that is not there is left out.
GetNodeById(m) ==
  /\ pc[m] = "nodes" /\ loc[m].rels # <<>>
  /\ LET i == Head(loc[m].rels)
         d == defOf[loc[m].c]
     IN loc' = [loc EXCEPT ![m].rels = Tail(@),
                           ![m].list = IF i \in NodesOf[d] THEN Append(@, <<d, i>>) ELSE @]
  /\ UNCHANGED <<engine, relationCache, pc>>

\* Destroy holds the read lock of the engine's context.
ReadLocked(c) == op.do \in {"reload", "stop"} /\ op.todo # {} /\ c = rootRuleChainCtx

\* rc.Lock(), and the list is cached, whatever happened since the lookup.
CacheNextNodes(m) ==
  /\ pc[m] = "nodes" /\ loc[m].rels = <<>>
  /\ ~ReadLocked(loc[m].c)
  /\ relationCache' = [relationCache EXCEPT ![loc[m].c][loc[m].n[2]] = loc[m].list]
  /\ Goto(m, "tell")
  /\ UNCHANGED <<engine, loc>>

\* tell: the branch goes on with one of the next nodes, or ends.
Tell(m) ==
  /\ pc[m] = "tell"
  /\ \/ /\ loc[m].list = <<>>
        /\ Goto(m, "ended")
        /\ UNCHANGED loc
     \/ \E k \in DOMAIN loc[m].list :
          /\ loc' = [loc EXCEPT ![m].n = loc[m].list[k], ![m].list = <<>>]
          /\ Goto(m, "run")
  /\ UNCHANGED <<engine, relationCache>>

Reload ==
  \/ DecodeFails \/ InitEngine \/ Decode \/ Stop \/ Destroy \/ Copy \/ Stopped
  \/ ReloadChild \/ DestroyNode \/ CopyNode

Message(m) ==
  \/ OnMsg(m) \/ Start(m) \/ GetNextNodes(m) \/ GetNodeRoutes(m) \/ GetNodeById(m)
  \/ CacheNextNodes(m) \/ Tell(m)

Next == Reload \/ \E m \in Msgs : Message(m)

Spec == Init /\ [][Next]_vars
-----------------------------------------------------------------------------
\* Types of the variables.
TypeOK ==
  /\ rootRuleChainCtx \in Defs \cup {Nil}
  /\ defOf \in [Defs -> Defs] /\ rootOf \in [Defs -> Defs]
  /\ \A c \in Defs : \A i \in Ids :
       relationCache[c][i] = Nil \/ relationCache[c][i] \in Seq(NodeCtxs)
  /\ node \in [NodeCtxs -> 0..MaxNodeReloads]
  /\ live \subseteq NodeCtxs \X (0..MaxNodeReloads)
  /\ loads \in 1..Last + 1 /\ failed \subseteq 1..Last
  /\ op.do \in {"idle", "reload", "stop", "destroyNode", "copyNode"}
  /\ pc \in [Msgs -> {"new", "refused", "checked", "panic", "run", "routes", "nodes", "tell", "ended"}]
  /\ \A m \in Msgs : loc[m].c \in Defs /\ loc[m].n \in NodeCtxs /\ loc[m].list \in Seq(NodeCtxs)

(***************************************************************************)
(* A message runs only live instances if no reload and no stop began since *)
(* it started.  In particular what messages that started earlier left in a *)
(* cache after it was cleared does not reach the messages that start after *)
(* the reload (Copy, the rootRuleContext of the new context).              *)
(***************************************************************************)
QuietRunsLive ==
  \A m \in Msgs :
    pc[m] = "run" /\ loc[m].quiet => <<loc[m].n, node[loc[m].n]>> \in live

(***************************************************************************)
(* A message that started after a reload runs the nodes of one definition, *)
(* the one that was current when it started, however many reloads follow:  *)
(* its context is not the one reloads are copied into.                     *)
(***************************************************************************)
OneDefinition ==
  \A m \in Msgs :
    pc[m] \in {"run", "routes", "nodes", "tell"} /\ loc[m].c # loc[m].rc =>
      loc[m].n[1] = loc[m].start

(***************************************************************************)
(* Every instance that was initialised is destroyed when a reload or a     *)
(* stop replaces it, and none that is still in use is: between reloads the *)
(* live instances are those of the current definition, up to the ones that *)
(* a failed load left behind (ReloadSelf of chain and node, Stop).         *)
(***************************************************************************)
LiveIsCurrent ==
  op = Idle =>
    {x \in live : x[1][1] \notin failed} =
      IF rootRuleChainCtx = Nil THEN {} ELSE Instances(defOf[rootRuleChainCtx])

(***************************************************************************)
(* What Copy says of the cache (chain.go:312, "clear the cache"): after a  *)
(* reload the engine's context has no next nodes of an earlier definition. *)
(***************************************************************************)
CacheIsCleared ==
  rootRuleChainCtx # Nil =>
    \A i \in Ids :
      LET cached == relationCache[rootRuleChainCtx][i]
      IN cached # Nil =>
           \A k \in DOMAIN cached : cached[k][1] = defOf[rootRuleChainCtx]
=============================================================================
