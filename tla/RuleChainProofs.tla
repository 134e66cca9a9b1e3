--------------------------- MODULE RuleChainProofs ---------------------------
(***************************************************************************)
(* Proofs about RuleChain, for every sequence of definitions and any       *)
(* number of messages, reloads and stops.                                  *)
(***************************************************************************)
EXTENDS RuleChain, TLAPS

\* TypeOK without the bound on node reloads, and with the records in full.
Loc == [c : Defs, rc : Defs, start : Defs, n : NodeCtxs, rels : Seq(Ids),
        list : Seq(NodeCtxs), quiet : BOOLEAN]

OpType ==
  /\ op.do \in {"idle", "reload", "stop", "destroyNode", "copyNode"}
  /\ op.do = "idle" => op = Idle
  /\ op.do = "reload" => op = [do |-> "reload", new |-> op.new, todo |-> op.todo] /\ op.new \in Defs
  /\ op.do = "stop" => op = [do |-> "stop", todo |-> op.todo]
  /\ op.do \in {"destroyNode", "copyNode"} => op = [do |-> op.do, n |-> op.n] /\ op.n \in NodeCtxs

ChainType ==
  /\ rootRuleChainCtx \in Defs \cup {Nil}
  /\ defOf \in [Defs -> Defs] /\ rootOf \in [Defs -> Defs]
  /\ relationCache \in [Defs -> [Ids -> Seq(NodeCtxs) \cup {Nil}]]
  /\ node \in [NodeCtxs -> Nat]
  /\ live \subseteq NodeCtxs \X Nat
  /\ loads \in 1..Last + 1 /\ failed \subseteq Defs
  /\ OpType
  /\ pc \in [Msgs -> {"new", "refused", "checked", "panic", "run", "routes", "nodes", "tell", "ended"}]
  /\ loc \in [Msgs -> Loc]

\* A context that no reload is copied into, now or later.
Detached(c) == c < loads /\ c # rootRuleChainCtx /\ defOf[c] = c /\ rootOf[c] = c

\* The contexts: those still to come are as they were made; the engine's context has the
\* root of the definition it holds, and that one is its own or detached.
Contexts ==
  /\ \A c \in Defs : c >= loads => defOf[c] = c /\ rootOf[c] = c
  /\ op.do # "idle" => rootRuleChainCtx # Nil
  /\ rootRuleChainCtx # Nil =>
       /\ rootRuleChainCtx < loads
       /\ defOf[rootRuleChainCtx] = rootOf[rootRuleChainCtx]
       /\ rootOf[rootRuleChainCtx] = rootRuleChainCtx \/ Detached(rootOf[rootRuleChainCtx])
  /\ op.do = "reload" => Detached(op.new) /\ defOf[rootRuleChainCtx] # op.new

\* A context that still holds its own definition leads to no node of another one: not by
\* its cache, and not by what the messages that run on it have looked up.
Clean ==
  \A c \in Defs : defOf[c] = c =>
    /\ \A i \in Ids : relationCache[c][i] # Nil =>
         \A k \in DOMAIN relationCache[c][i] : relationCache[c][i][k][1] = c
    /\ \A m \in Msgs : loc[m].c = c =>
         loc[m].n[1] = c /\ \A k \in DOMAIN loc[m].list : loc[m].list[k][1] = c

\* A message that does not run on the engine's context runs on a detached one.
Apart ==
  \A m \in Msgs : loc[m].c # loc[m].rc => Detached(loc[m].c) /\ loc[m].start = loc[m].c

DefInv == ChainType /\ Contexts /\ Clean /\ Apart

\* The live instances at each point of a reload and of a stop.
Living == {x \in live : x[1][1] \notin failed}

Lives ==
  /\ \A d \in failed : d < loads
  /\ \A x \in live : x[1][1] < loads
  /\ rootRuleChainCtx # Nil => defOf[rootRuleChainCtx] \notin failed
  /\ op.do = "idle" =>
       Living = IF rootRuleChainCtx = Nil THEN {} ELSE Instances(defOf[rootRuleChainCtx])
  /\ op.do = "reload" =>
       /\ op.new \notin failed
       /\ op.todo \subseteq Instances(defOf[rootRuleChainCtx])
       /\ Living = Instances(op.new) \cup op.todo
  /\ op.do = "stop" =>
       /\ op.todo \subseteq Instances(defOf[rootRuleChainCtx])
       /\ Living = op.todo
  /\ op.do \in {"destroyNode", "copyNode"} =>
       LET old == <<op.n, node[op.n]>>
           cur == Instances(defOf[rootRuleChainCtx])
       IN /\ op.n[1] = defOf[rootRuleChainCtx]
          /\ Living = (IF op.do = "destroyNode" THEN cur ELSE cur \ {old}) \cup {<<op.n, node[op.n] + 1>>}

\* A message that has had a quiet time runs on the root of the engine's context.
Quiet ==
  \A m \in Msgs : loc[m].quiet =>
    /\ op.do = "idle" /\ rootRuleChainCtx # Nil
    /\ loc[m].c = rootOf[rootRuleChainCtx]

ChainInv == DefInv /\ Lives /\ Quiet
-----------------------------------------------------------------------------
\* A node is one of a definition.
LEMMA NodeOf ==
  /\ \A d \in Defs : \A i \in NodesOf[d] : <<d, i>> \in NodeCtxs
  /\ \A n \in NodeCtxs : n[1] \in Defs /\ n[2] \in NodesOf[n[1]] /\ n[2] \in Ids /\ n = <<n[1], n[2]>>
  /\ \A d \in Defs : <<d, FirstOf[d]>> \in NodeCtxs
BY ChainAssumption DEF NodeCtxs

\* The instances of a definition are one per node, of the current generation.
LEMMA InstanceOf ==
  ASSUME ChainType, NEW d \in Defs
  PROVE  /\ Instances(d) \subseteq NodeCtxs \X Nat
         /\ \A x \in Instances(d) : x[1][1] = d /\ x = <<x[1], node[x[1]]>>
         /\ \A n \in NodeCtxs : n[1] = d => <<n, node[n]>> \in Instances(d)
BY NodeOf DEF ChainType, Instances

\* Changing one of the local variables of a message.
LEMMA LocSet ==
  ASSUME NEW r \in Loc
  PROVE  /\ [r EXCEPT !.quiet = FALSE] \in Loc
         /\ \A l \in Seq(NodeCtxs) : [r EXCEPT !.list = l] \in Loc
         /\ \A q \in Seq(Ids), l \in Seq(NodeCtxs) : [r EXCEPT !.rels = q, !.list = l] \in Loc
         /\ \A n \in NodeCtxs, l \in Seq(NodeCtxs) : [r EXCEPT !.n = n, !.list = l] \in Loc
BY Zenon DEF Loc

\* The beginning of a reload changes nothing of a message but quiet.
LEMMA Disturbed ==
  ASSUME loc \in [Msgs -> Loc], Disturb
  PROVE  /\ loc' \in [Msgs -> Loc]
         /\ \A m \in Msgs :
              /\ loc'[m].c = loc[m].c /\ loc'[m].rc = loc[m].rc /\ loc'[m].start = loc[m].start
              /\ loc'[m].n = loc[m].n /\ loc'[m].list = loc[m].list
              /\ loc'[m].quiet = FALSE
<1>1. loc' = [m \in Msgs |-> [loc[m] EXCEPT !.quiet = FALSE]]
  BY Zenon DEF Disturb
<1>2. \A m \in Msgs : loc[m] \in Loc
  OBVIOUS
<1>3. loc' \in [Msgs -> Loc]
  BY <1>1, <1>2, LocSet, Zenon
<1>4. ASSUME NEW m \in Msgs
      PROVE  /\ loc'[m].c = loc[m].c /\ loc'[m].rc = loc[m].rc /\ loc'[m].start = loc[m].start
             /\ loc'[m].n = loc[m].n /\ loc'[m].list = loc[m].list
             /\ loc'[m].quiet = FALSE
  BY <1>1, <1>2, Zenon DEF Loc
<1> QED
  BY <1>3, <1>4, Zenon

\* Every step of a reload or a stop is well typed.
LEMMA ReloadType ==
  ASSUME ChainType, Contexts, Reload
  PROVE  ChainType'
<1> USE ChainAssumption DEF ChainType
<1>1. ASSUME DecodeFails PROVE ChainType'
  <2>1. loads \in Defs /\ loads + 1 \in 1..Last + 1
    BY <1>1 DEF DecodeFails, Defs
  <2>2. live' \subseteq NodeCtxs \X Nat
    BY <1>1, <2>1, InstanceOf DEF DecodeFails
  <2> QED
    BY <1>1, <2>1, <2>2 DEF DecodeFails, OpType
<1>2. ASSUME InitEngine PROVE ChainType'
  <2>1. loads \in Defs /\ loads + 1 \in 1..Last + 1
    BY <1>2 DEF InitEngine, Defs
  <2>2. live' \subseteq NodeCtxs \X Nat
    BY <1>2, <2>1, InstanceOf DEF InitEngine
  <2> QED
    BY <1>2, <2>1, <2>2 DEF InitEngine, OpType
<1>3. ASSUME Decode PROVE ChainType'
  <2>1. loads \in Defs /\ loads + 1 \in 1..Last + 1
    BY <1>3 DEF Decode, Defs
  <2>2. live' \subseteq NodeCtxs \X Nat
    BY <1>3, <2>1, InstanceOf DEF Decode
  <2>3. OpType'
    BY <1>3, <2>1 DEF Decode, OpType
  <2>4. loc' \in [Msgs -> Loc]
    BY <1>3, Disturbed, Zenon DEF Decode
  <2> QED
    BY <1>3, <2>1, <2>2, <2>3, <2>4 DEF Decode
<1>4. ASSUME Stop PROVE ChainType'
  <2>1. OpType'
    BY <1>4 DEF Stop, OpType
  <2>2. loc' \in [Msgs -> Loc]
    BY <1>4, Disturbed, Zenon DEF Stop
  <2> QED
    BY <1>4, <2>1, <2>2 DEF Stop
<1>5. ASSUME Destroy PROVE ChainType'
  <2>1. OpType'
    BY <1>5, Zenon DEF Destroy, OpType
  <2> QED
    BY <1>5, <2>1 DEF Destroy
<1>6. ASSUME Copy PROVE ChainType'
  <2>1. OpType'
    BY <1>6 DEF Copy, OpType, Idle
  <2>2. rootRuleChainCtx \in Defs /\ op.new \in Defs
    BY <1>6 DEF Copy, OpType, Contexts
  <2>3. EmptyCache \in [Ids -> Seq(NodeCtxs) \cup {Nil}]
    BY DEF EmptyCache
  <2> QED
    BY <1>6, <2>1, <2>2, <2>3 DEF Copy
<1>7. ASSUME Stopped PROVE ChainType'
  <2>1. OpType'
    BY <1>7 DEF Stopped, OpType, Idle
  <2> QED
    BY <1>7, <2>1 DEF Stopped
<1>8. ASSUME ReloadChild PROVE ChainType'
  <2>1. PICK i \in NodesOf[defOf[rootRuleChainCtx]] :
          LET n == <<defOf[rootRuleChainCtx], i>>
          IN live' = live \cup {<<n, node[n] + 1>>} /\ op' = [do |-> "destroyNode", n |-> n]
    BY <1>8, Zenon DEF ReloadChild
  <2>2. <<defOf[rootRuleChainCtx], i>> \in NodeCtxs
    BY <1>8, NodeOf DEF ReloadChild
  <2>3. OpType'
    BY <2>1, <2>2 DEF OpType
  <2>4. live' \subseteq NodeCtxs \X Nat
    <3> DEFINE n == <<defOf[rootRuleChainCtx], i>>
    <3>1. n \in NodeCtxs
      BY <2>2
    <3>2. live' = live \cup {<<n, node[n] + 1>>}
      BY <2>1
    <3> HIDE DEF n
    <3>3. node[n] + 1 \in Nat
      BY <3>1
    <3> QED
      BY <3>1, <3>2, <3>3
  <2>5. loc' \in [Msgs -> Loc]
    BY <1>8, Disturbed, Zenon DEF ReloadChild
  <2> QED
    BY <1>8, <2>3, <2>4, <2>5, Zenon DEF ReloadChild
<1>9. ASSUME DestroyNode PROVE ChainType'
  <2>1. OpType'
    BY <1>9 DEF DestroyNode, OpType
  <2> QED
    BY <1>9, <2>1 DEF DestroyNode
<1>10. ASSUME CopyNode PROVE ChainType'
  <2>1. OpType'
    BY <1>10 DEF CopyNode, OpType, Idle
  <2>2. op.n \in NodeCtxs
    BY <1>10 DEF CopyNode, OpType
  <2> QED
    BY <1>10, <2>1, <2>2 DEF CopyNode
<1> QED
  BY <1>1, <1>2, <1>3, <1>4, <1>5, <1>6, <1>7, <1>8, <1>9, <1>10, SMTT(30) DEF Reload

\* Every step of a message is well typed.
LEMMA MessageType ==
  ASSUME ChainType, Contexts, NEW m \in Msgs, Message(m)
  PROVE  ChainType'
<1> USE ChainAssumption DEF ChainType
<1>0. loc[m] \in Loc /\ loc[m].c \in Defs /\ loc[m].n[2] \in Ids /\ loc[m].list \in Seq(NodeCtxs)
  BY NodeOf, SMTT(30) DEF Loc
<1>a. ASSUME UNCHANGED <<engine, relationCache>>,
             pc' \in [Msgs -> {"new", "refused", "checked", "panic", "run", "routes", "nodes", "tell", "ended"}],
             loc' \in [Msgs -> Loc]
      PROVE  ChainType'
  BY <1>a DEF engine, OpType
<1>1. ASSUME OnMsg(m) PROVE ChainType'
  BY <1>1, <1>a DEF OnMsg, Goto
<1>2. ASSUME Start(m) PROVE ChainType'
  <2>1. loc' \in [Msgs -> Loc]
    <3>1. CASE rootRuleChainCtx = Nil
      BY <1>2, <3>1 DEF Start
    <3>2. CASE rootRuleChainCtx # Nil
      <4> DEFINE r == rootOf[rootRuleChainCtx]
                 e == [c |-> r, rc |-> rootRuleChainCtx, start |-> defOf[rootRuleChainCtx],
                       n |-> <<r, FirstOf[r]>>, rels |-> <<>>, list |-> <<>>,
                       quiet |-> op = Idle]
      <4>1. r \in Defs /\ rootRuleChainCtx \in Defs /\ defOf[rootRuleChainCtx] \in Defs
        BY <3>2
      <4>2. <<r, FirstOf[r]>> \in NodeCtxs
        BY <4>1, NodeOf
      <4>3. e \in Loc
        <5> HIDE DEF r
        <5> QED
          BY <4>1, <4>2 DEF Loc
      <4>4. loc' = [loc EXCEPT ![m] = e]
        BY <1>2, <3>2 DEF Start
      <4> HIDE DEF e
      <4> QED
        BY <4>3, <4>4
    <3> QED
      BY <3>1, <3>2
  <2> QED
    BY <1>2, <2>1, <1>a, Zenon DEF Start, Goto
<1>3. ASSUME GetNextNodes(m) PROVE ChainType'
  <2>1. relationCache[loc[m].c][loc[m].n[2]] \in Seq(NodeCtxs) \cup {Nil}
    BY <1>0
  <2>2. loc' \in [Msgs -> Loc]
    <3>1. CASE relationCache[loc[m].c][loc[m].n[2]] = Nil
      BY <1>3, <3>1 DEF GetNextNodes
    <3>2. CASE relationCache[loc[m].c][loc[m].n[2]] # Nil
      <4> DEFINE l == relationCache[loc[m].c][loc[m].n[2]]
      <4>1. loc' = [loc EXCEPT ![m] = [loc[m] EXCEPT !.list = l]]
        BY <1>3, <3>2 DEF GetNextNodes
      <4>2. l \in Seq(NodeCtxs)
        BY <2>1, <3>2
      <4> HIDE DEF l
      <4>3. [loc[m] EXCEPT !.list = l] \in Loc
        BY <1>0, <4>2, LocSet, Zenon
      <4> QED
        BY <4>1, <4>3
    <3> QED
      BY <3>1, <3>2
  <2> QED
    BY <1>3, <2>2, <1>a, Zenon DEF GetNextNodes, Goto
<1>4. ASSUME GetNodeRoutes(m) PROVE ChainType'
  <2>1. RoutesOf[defOf[loc[m].c]][loc[m].n[2]] \in Seq(Ids)
    BY <1>0
  <2>2. loc' \in [Msgs -> Loc]
    <3> DEFINE q == RoutesOf[defOf[loc[m].c]][loc[m].n[2]]
    <3>1. loc' = [loc EXCEPT ![m] = [loc[m] EXCEPT !.rels = q, !.list = <<>>]]
      BY <1>4, Zenon DEF GetNodeRoutes
    <3>2. q \in Seq(Ids) /\ <<>> \in Seq(NodeCtxs)
      BY <2>1
    <3> HIDE DEF q
    <3>3. [loc[m] EXCEPT !.rels = q, !.list = <<>>] \in Loc
      BY <1>0, <3>2, LocSet, Zenon
    <3> QED
      BY <3>1, <3>3
  <2> QED
    BY <1>4, <2>2, <1>a, Zenon DEF GetNodeRoutes, Goto
<1>5. ASSUME GetNodeById(m) PROVE ChainType'
  <2> DEFINE i == Head(loc[m].rels)
             d == defOf[loc[m].c]
             l == IF i \in NodesOf[d] THEN Append(loc[m].list, <<d, i>>) ELSE loc[m].list
  <2>1. d \in Defs
    BY <1>0
  <2>2. l \in Seq(NodeCtxs)
    BY <1>0, <2>1, NodeOf, SMTT(30)
  <2>3. Tail(loc[m].rels) \in Seq(Ids)
    BY <1>0, <1>5 DEF GetNodeById, Loc
  <2>4. loc' = [loc EXCEPT ![m].rels = Tail(@), ![m].list = l]
    BY <1>5 DEF GetNodeById
  <2> HIDE DEF l
  <2>5. loc' \in [Msgs -> Loc]
    BY <1>0, <2>2, <2>3, <2>4, LocSet, Zenon
  <2> QED
    BY <1>5, <2>5, <1>a, Zenon DEF GetNodeById, Goto
<1>6. ASSUME CacheNextNodes(m) PROVE ChainType'
  BY <1>0, <1>6, Zenon DEF CacheNextNodes, Goto, engine, OpType
<1>7. ASSUME Tell(m) PROVE ChainType'
  <2>1. loc' \in [Msgs -> Loc]
    <3>1. CASE loc' = loc
      BY <3>1, Zenon
    <3>2. CASE \E k \in DOMAIN loc[m].list :
                 loc' = [loc EXCEPT ![m] = [loc[m] EXCEPT !.n = loc[m].list[k], !.list = <<>>]]
      <4>1. PICK k \in DOMAIN loc[m].list :
              loc' = [loc EXCEPT ![m] = [loc[m] EXCEPT !.n = loc[m].list[k], !.list = <<>>]]
        BY <3>2, Zenon
      <4>2. loc[m].list[k] \in NodeCtxs /\ <<>> \in Seq(NodeCtxs)
        BY <1>0
      <4>3. [loc[m] EXCEPT !.n = loc[m].list[k], !.list = <<>>] \in Loc
        BY <1>0, <4>2, LocSet, Zenon
      <4> QED
        BY <4>1, <4>3
    <3> QED
      BY <1>7, <3>1, <3>2, Zenon DEF Tell
  <2> QED
    BY <1>7, <2>1, <1>a, Zenon DEF Tell, Goto
<1> QED
  BY <1>1, <1>2, <1>3, <1>4, <1>5, <1>6, <1>7 DEF Message

\* A message leaves the engine alone.
LEMMA MessageEngine ==
  ASSUME NEW m \in Msgs, Message(m)
  PROVE  UNCHANGED engine
BY Zenon DEF Message, OnMsg, Start, GetNextNodes, GetNodeRoutes, GetNodeById, CacheNextNodes, Tell

\* Every step keeps the contexts as they have to be.
LEMMA ContextsStep ==
  ASSUME ChainType, Contexts, [Next]_vars
  PROVE  Contexts'
<1>a. loads \in Nat /\ \A d \in Defs : d \in Nat
  BY ChainAssumption DEF ChainType, Defs
<1>b. OpType /\ rootRuleChainCtx \in Defs \cup {Nil} /\ Nil \notin Defs
  BY ChainAssumption DEF ChainType
<1>c. defOf \in [Defs -> Defs] /\ rootOf \in [Defs -> Defs]
  BY DEF ChainType
<1>d. loads <= Last => loads \in Defs
  BY ChainAssumption DEF ChainType, Defs
<1> USE <1>a, <1>b, <1>c, <1>d DEF Contexts, Detached
<1>1. ASSUME DecodeFails PROVE Contexts'
  BY <1>1 DEF DecodeFails, OpType, Idle
<1>2. ASSUME InitEngine PROVE Contexts'
  BY <1>2 DEF InitEngine, OpType, Idle
<1>3. ASSUME Decode PROVE Contexts'
  BY <1>3 DEF Decode, OpType, Idle
<1>4. ASSUME Stop PROVE Contexts'
  BY <1>4 DEF Stop, OpType, Idle
<1>5. ASSUME Destroy PROVE Contexts'
  BY <1>5 DEF Destroy, OpType, Idle
<1>6. ASSUME Copy PROVE Contexts'
  BY <1>6 DEF Copy, OpType, Idle
<1>7. ASSUME Stopped PROVE Contexts'
  BY <1>7 DEF Stopped, OpType, Idle
<1>8. ASSUME ReloadChild PROVE Contexts'
  BY <1>8 DEF ReloadChild, OpType, Idle
<1>9. ASSUME DestroyNode PROVE Contexts'
  BY <1>9 DEF DestroyNode, OpType, Idle
<1>10. ASSUME CopyNode PROVE Contexts'
  BY <1>10 DEF CopyNode, OpType, Idle
<1>11. ASSUME UNCHANGED engine PROVE Contexts'
  BY <1>11 DEF engine
<1>12. ASSUME UNCHANGED vars PROVE Contexts'
  BY <1>12 DEF vars
<1> QED
  BY <1>1, <1>2, <1>3, <1>4, <1>5, <1>6, <1>7, <1>8, <1>9, <1>10, <1>11, <1>12, MessageEngine, Zenon DEF Next, Reload

\* What a message may do to the cache and to its own local variables, as far as Clean is
\* concerned: it stays on its context, and where that one holds its own definition, what
\* it stores and where it goes is of that definition.
LEMMA CleanMessage ==
  ASSUME ChainType, Contexts, Clean, NEW m \in Msgs, Message(m)
  PROVE  Clean'
<1>0. /\ loc \in [Msgs -> Loc] /\ relationCache \in [Defs -> [Ids -> Seq(NodeCtxs) \cup {Nil}]]
      /\ defOf \in [Defs -> Defs] /\ rootOf \in [Defs -> Defs] /\ defOf' = defOf
      /\ rootRuleChainCtx \in Defs \cup {Nil}
  BY MessageEngine DEF ChainType, engine
<1>1. loc[m] \in Loc /\ loc[m].c \in Defs /\ loc[m].n \in NodeCtxs /\ loc[m].n[2] \in Ids
      /\ loc[m].list \in Seq(NodeCtxs)
  BY <1>0, NodeOf DEF Loc
\* It is enough to look at the new local variables and at the new entry of the cache.
<1>a. ASSUME NEW r \in Loc, loc' = [loc EXCEPT ![m] = r], relationCache' = relationCache,
             defOf[r.c] = r.c => r.n[1] = r.c /\ \A k \in DOMAIN r.list : r.list[k][1] = r.c
      PROVE  Clean'
  <2>1. \A x \in Msgs : loc'[x] = IF x = m THEN r ELSE loc[x]
    BY <1>0, <1>a
  <2> QED
    BY <1>0, <1>a, <2>1 DEF Clean
<1>b. defOf[loc[m].c] = loc[m].c =>
        loc[m].n[1] = loc[m].c /\ \A k \in DOMAIN loc[m].list : loc[m].list[k][1] = loc[m].c
  BY <1>1 DEF Clean
<1>c. ASSUME loc' = loc, relationCache' = relationCache PROVE Clean'
  BY <1>0, <1>c DEF Clean
<1>2. ASSUME OnMsg(m) PROVE Clean'
  BY <1>2, <1>c DEF OnMsg
<1>3. ASSUME Start(m) PROVE Clean'
  <2>1. CASE rootRuleChainCtx = Nil
    BY <1>3, <2>1, <1>c DEF Start
  <2>2. CASE rootRuleChainCtx # Nil
    <3> DEFINE r == rootOf[rootRuleChainCtx]
               e == [c |-> r, rc |-> rootRuleChainCtx, start |-> defOf[rootRuleChainCtx],
                     n |-> <<r, FirstOf[r]>>, rels |-> <<>>, list |-> <<>>, quiet |-> op = Idle]
    <3>1. loc' = [loc EXCEPT ![m] = e] /\ relationCache' = relationCache
      BY <1>3, <2>2 DEF Start
    <3>2. loc'[m] \in Loc
      BY MessageType DEF ChainType
    <3>3. e \in Loc
      BY <1>0, <3>1, <3>2
    <3>4. e.n[1] = e.c /\ \A k \in DOMAIN e.list : e.list[k][1] = e.c
      OBVIOUS
    <3> HIDE DEF e
    <3> QED
      BY <1>a, <3>1, <3>3, <3>4, Zenon
  <2> QED
    BY <2>1, <2>2
<1>4. ASSUME GetNextNodes(m) PROVE Clean'
  <2> DEFINE l == relationCache[loc[m].c][loc[m].n[2]]
             e == [loc[m] EXCEPT !.list = l]
  <2>1. CASE l = Nil
    BY <1>4, <2>1, <1>c DEF GetNextNodes
  <2>2. CASE l # Nil
    <3>1. loc' = [loc EXCEPT ![m] = e] /\ relationCache' = relationCache
      BY <1>4, <2>2 DEF GetNextNodes
    <3>2. l \in Seq(NodeCtxs)
      BY <1>0, <1>1, <2>2
    <3>3. e \in Loc
      BY <1>1, <3>2, LocSet, Zenon
    <3>4. e.c = loc[m].c /\ e.n = loc[m].n /\ e.list = l
      BY <1>1, Zenon DEF Loc
    <3>5. defOf[loc[m].c] = loc[m].c => \A k \in DOMAIN l : l[k][1] = loc[m].c
      BY <1>1, <2>2 DEF Clean
    <3> HIDE DEF e, l
    <3> QED
      BY <1>a, <1>b, <3>1, <3>3, <3>4, <3>5, Zenon
  <2> QED
    BY <2>1, <2>2
<1>5. ASSUME GetNodeRoutes(m) PROVE Clean'
  <2> DEFINE q == RoutesOf[defOf[loc[m].c]][loc[m].n[2]]
             e == [loc[m] EXCEPT !.rels = q, !.list = <<>>]
  <2>1. loc' = [loc EXCEPT ![m] = e] /\ relationCache' = relationCache
    BY <1>5, Zenon DEF GetNodeRoutes
  <2>2. q \in Seq(Ids) /\ <<>> \in Seq(NodeCtxs)
    BY <1>0, <1>1, ChainAssumption
  <2> HIDE DEF q
  <2>3. e \in Loc
    BY <1>1, <2>2, LocSet, Zenon
  <2>4. e.c = loc[m].c /\ e.n = loc[m].n /\ e.list = <<>>
    BY <1>1, Zenon DEF Loc
  <2>5. DOMAIN e.list = {}
    BY <2>4
  <2> HIDE DEF e
  <2> QED
    BY <1>a, <1>b, <2>1, <2>3, <2>4, <2>5, Zenon
<1>6. ASSUME GetNodeById(m) PROVE Clean'
  <2> DEFINE i == Head(loc[m].rels)
             d == defOf[loc[m].c]
             l == IF i \in NodesOf[d] THEN Append(loc[m].list, <<d, i>>) ELSE loc[m].list
             e == [loc[m] EXCEPT !.rels = Tail(loc[m].rels), !.list = l]
  <2>1. loc' = [loc EXCEPT ![m] = e] /\ relationCache' = relationCache
    BY <1>6, Zenon DEF GetNodeById
  <2>2. loc'[m] \in Loc
    BY MessageType DEF ChainType
  <2>3. e \in Loc
    BY <1>0, <2>1, <2>2
  <2>4. e.c = loc[m].c /\ e.n = loc[m].n /\ e.list = l
    BY <1>1 DEF Loc
  <2>5. d = loc[m].c => \A k \in DOMAIN l : l[k][1] = loc[m].c
    <3>1. CASE i \in NodesOf[d]
      BY <1>1, <1>b, <3>1
    <3>2. CASE i \notin NodesOf[d]
      BY <1>b, <3>2
    <3> QED
      BY <3>1, <3>2
  <2> HIDE DEF e, l
  <2> QED
    BY <1>a, <1>b, <2>1, <2>3, <2>4, <2>5, Zenon
<1>7. ASSUME CacheNextNodes(m) PROVE Clean'
  <2>1. loc' = loc /\ relationCache' = [relationCache EXCEPT ![loc[m].c][loc[m].n[2]] = loc[m].list]
    BY <1>7 DEF CacheNextNodes
  <2>2. \A c \in Defs, i \in Ids :
          relationCache'[c][i] = IF c = loc[m].c /\ i = loc[m].n[2] THEN loc[m].list
                                 ELSE relationCache[c][i]
    BY <1>0, <1>1, <2>1
  <2> QED
    BY <1>0, <1>1, <1>b, <2>1, <2>2 DEF Clean
<1>8. ASSUME Tell(m) PROVE Clean'
  <2>1. CASE UNCHANGED loc
    BY <1>8, <2>1, <1>c, Zenon DEF Tell
  <2>2. ASSUME NEW k \in DOMAIN loc[m].list,
               loc' = [loc EXCEPT ![m] = [loc[m] EXCEPT !.n = loc[m].list[k], !.list = <<>>]]
        PROVE  Clean'
    <3> DEFINE e == [loc[m] EXCEPT !.n = loc[m].list[k], !.list = <<>>]
    <3>1. loc[m].list[k] \in NodeCtxs /\ <<>> \in Seq(NodeCtxs)
      BY <1>1, <2>2
    <3>2. e \in Loc
      BY <1>1, <3>1, LocSet, Zenon
    <3>3. e.c = loc[m].c /\ e.n = loc[m].list[k] /\ e.list = <<>>
      BY <1>1, Zenon DEF Loc
    <3>4. relationCache' = relationCache
      BY <1>8 DEF Tell
    <3>5. DOMAIN e.list = {}
      BY <3>3
    <3>6. loc' = [loc EXCEPT ![m] = e]
      BY <2>2
    <3>7. defOf[loc[m].c] = loc[m].c => loc[m].list[k][1] = loc[m].c
      BY <1>b, <2>2
    <3> HIDE DEF e
    <3> QED
      BY <1>a, <3>2, <3>3, <3>4, <3>5, <3>6, <3>7, Zenon
  <2> QED
    BY <1>8, <2>1, <2>2, Zenon DEF Tell
<1> QED
  BY <1>2, <1>3, <1>4, <1>5, <1>6, <1>7, <1>8 DEF Message

\* Every step keeps the contexts that hold their own definition clean.
LEMMA CleanStep ==
  ASSUME ChainType, Contexts, Clean, [Next]_vars
  PROVE  Clean'
<1>0. loc \in [Msgs -> Loc] /\ defOf \in [Defs -> Defs] /\ OpType
  BY DEF ChainType
<1>1. ASSUME UNCHANGED <<defOf, relationCache>>, loc' = loc \/ Disturb
      PROVE  Clean'
  <2>1. \A m \in Msgs : loc'[m].c = loc[m].c /\ loc'[m].n = loc[m].n /\ loc'[m].list = loc[m].list
    BY <1>0, <1>1, Disturbed, Zenon
  <2> QED
    BY <1>1, <2>1 DEF Clean
<1>2. ASSUME Copy PROVE Clean'
  <2>1. /\ rootRuleChainCtx \in Defs /\ op.new # rootRuleChainCtx
        /\ defOf[op.new] = op.new
    BY <1>2, ChainAssumption DEF Copy, Contexts, Detached, ChainType
  <2>2. \A c \in Defs : defOf'[c] = c => c # rootRuleChainCtx /\ defOf[c] = c
    BY <1>0, <1>2, <2>1 DEF Copy
  <2>3. \A c \in Defs : c # rootRuleChainCtx => relationCache'[c] = relationCache[c]
    BY <1>2, <2>1 DEF Copy, ChainType
  <2>4. loc' = loc
    BY <1>2 DEF Copy
  <2> QED
    BY <2>2, <2>3, <2>4 DEF Clean
<1>3. ASSUME Reload PROVE Copy \/ (UNCHANGED <<defOf, relationCache>> /\ (loc' = loc \/ Disturb))
  BY <1>3 DEF Reload, DecodeFails, InitEngine, Decode, Stop, Destroy, Stopped, ReloadChild,
              DestroyNode, CopyNode
<1>4. CASE UNCHANGED vars
  BY <1>1, <1>4 DEF vars
<1> QED
  BY <1>1, <1>2, <1>3, <1>4, CleanMessage DEF Next

\* A message that has started stays on its context.
LEMMA MessageStays ==
  ASSUME loc \in [Msgs -> Loc], NEW m \in Msgs, Message(m), ~Start(m) \/ rootRuleChainCtx = Nil
  PROVE  \A x \in Msgs :
           /\ loc'[x].c = loc[x].c /\ loc'[x].rc = loc[x].rc /\ loc'[x].start = loc[x].start
           /\ loc'[x].quiet = loc[x].quiet
<1> DEFINE Same(x) == /\ loc'[x].c = loc[x].c /\ loc'[x].rc = loc[x].rc /\ loc'[x].start = loc[x].start
                      /\ loc'[x].quiet = loc[x].quiet
<1> SUFFICES \A x \in Msgs : Same(x)
  OBVIOUS
<1>1. CASE loc' = loc
  BY <1>1
<1>2. CASE GetNextNodes(m)
  <2>1. loc' = loc \/ \E l : loc' = [loc EXCEPT ![m].list = l]
    BY <1>2 DEF GetNextNodes
  <2>2. ASSUME NEW l, loc' = [loc EXCEPT ![m].list = l]
        PROVE  \A x \in Msgs : Same(x)
    BY <2>2 DEF Loc
  <2> QED
    BY <1>1, <2>1, <2>2
<1>3. CASE GetNodeRoutes(m)
  BY <1>3, Zenon DEF GetNodeRoutes, Loc
<1>4. CASE GetNodeById(m)
  <2>1. \E q, l : loc' = [loc EXCEPT ![m].rels = q, ![m].list = l]
    BY <1>4, Zenon DEF GetNodeById
  <2> QED
    BY <2>1 DEF Loc
<1>5. CASE Tell(m)
  <2>1. loc' = loc \/ \E q, l : loc' = [loc EXCEPT ![m].n = q, ![m].list = l]
    BY <1>5, Zenon DEF Tell
  <2>2. ASSUME NEW q, NEW l, loc' = [loc EXCEPT ![m].n = q, ![m].list = l]
        PROVE  \A x \in Msgs : Same(x)
    BY <2>2, Zenon DEF Loc
  <2> QED
    BY <1>1, <2>1, <2>2, Zenon
<1> QED
  BY <1>1, <1>2, <1>3, <1>4, <1>5 DEF Message, OnMsg, Start, CacheNextNodes

\* Every step leaves the messages that run on a detached context there.
LEMMA ApartStep ==
  ASSUME ChainType, Contexts, Apart, [Next]_vars
  PROVE  Apart'
<1>a. loads \in Nat /\ loads' \in Nat /\ (\A d \in Defs : d \in Nat) /\ Nil \notin Defs
  <2>1. ChainType'
    BY ReloadType, MessageType, SMTT(30) DEF Next, vars, ChainType, OpType
  <2> QED
    BY <2>1, ChainAssumption DEF ChainType, Defs
<1>b. /\ loc \in [Msgs -> Loc] /\ defOf \in [Defs -> Defs] /\ rootOf \in [Defs -> Defs] /\ OpType
      /\ rootRuleChainCtx \in Defs \cup {Nil}
      /\ \A m \in Msgs : loc[m].c \in Defs
  BY DEF ChainType, Loc
<1>1. ASSUME NEW c \in Defs, Detached(c) PROVE Detached(c)'
  <2>1. CASE UNCHANGED vars
    BY <1>1, <2>1 DEF vars, Detached
  <2>2. ASSUME NEW m \in Msgs, Message(m) PROVE Detached(c)'
    BY <1>1, <2>2, MessageEngine DEF engine, Detached
  <2>3. ASSUME Reload PROVE Detached(c)'
    BY <1>1, <1>a, <1>b, <2>3 DEF Reload, DecodeFails, InitEngine, Decode, Stop, Destroy, Copy,
          Stopped, ReloadChild, DestroyNode, CopyNode, Detached, Contexts
  <2> QED
    BY <2>1, <2>2, <2>3 DEF Next
<1>2. ASSUME \A m \in Msgs : loc'[m].c = loc[m].c /\ loc'[m].rc = loc[m].rc /\ loc'[m].start = loc[m].start
      PROVE  Apart'
  BY <1>b, <1>1, <1>2 DEF Apart
<1>3. ASSUME NEW m \in Msgs, Start(m), rootRuleChainCtx # Nil PROVE Apart'
  <2> DEFINE r == rootOf[rootRuleChainCtx]
  <2>1. loc'[m].c = r /\ loc'[m].rc = rootRuleChainCtx /\ loc'[m].start = defOf[rootRuleChainCtx]
    BY <1>b, <1>3 DEF Start
  <2>2. \A x \in Msgs \ {m} : loc'[x] = loc[x]
    BY <1>b, <1>3 DEF Start
  <2>3. r \in Defs /\ (r # rootRuleChainCtx => Detached(r) /\ defOf[rootRuleChainCtx] = r)
    BY <1>b, <1>3 DEF Contexts
  <2> HIDE DEF r
  <2>4. ASSUME NEW x \in Msgs, (loc[x].c # loc[x].rc)'
        PROVE  (Detached(loc[x].c) /\ loc[x].start = loc[x].c)'
    <3>1. CASE x = m
      <4>1. r # rootRuleChainCtx
        BY <2>1, <2>4, <3>1
      <4>2. r < loads' /\ r # rootRuleChainCtx' /\ defOf'[r] = r /\ rootOf'[r] = r
        BY <1>1, <2>3, <4>1 DEF Detached
      <4>3. loc'[x].c = r /\ loc'[x].start = r
        BY <2>1, <2>3, <3>1, <4>1
      <4> QED
        BY <4>2, <4>3 DEF Detached
    <3>2. CASE x # m
      <4>1. loc'[x] = loc[x]
        BY <2>2, <3>2
      <4>2. Detached(loc[x].c) /\ loc[x].start = loc[x].c
        BY <2>4, <4>1 DEF Apart
      <4>3. /\ loc[x].c < loads' /\ loc[x].c # rootRuleChainCtx'
            /\ defOf'[loc[x].c] = loc[x].c /\ rootOf'[loc[x].c] = loc[x].c
        BY <1>b, <1>1, <4>2 DEF Detached
      <4> QED
        BY <4>1, <4>2, <4>3 DEF Detached
    <3> QED
      BY <3>1, <3>2
  <2> QED
    BY <2>4 DEF Apart
<1>4. ASSUME NEW m \in Msgs, Message(m), ~Start(m) \/ rootRuleChainCtx = Nil
      PROVE  \A x \in Msgs : loc'[x].c = loc[x].c /\ loc'[x].rc = loc[x].rc /\ loc'[x].start = loc[x].start
  BY <1>b, <1>4, MessageStays
<1>5. ASSUME Reload
      PROVE  \A x \in Msgs : loc'[x].c = loc[x].c /\ loc'[x].rc = loc[x].rc /\ loc'[x].start = loc[x].start
  <2>1. loc' = loc \/ Disturb
    BY <1>5 DEF Reload, DecodeFails, InitEngine, Decode, Stop, Destroy, Copy, Stopped, ReloadChild,
                DestroyNode, CopyNode
  <2> QED
    BY <1>b, <2>1, Disturbed, Zenon
<1>6. CASE UNCHANGED vars
  BY <1>2, <1>6 DEF vars
<1> QED
  BY <1>2, <1>3, <1>4, <1>5, <1>6 DEF Next, Message

\* Every step of a reload or a stop initialises and destroys the right instances.
LEMMA LivesReload ==
  ASSUME ChainType, Contexts, Lives, Reload
  PROVE  Lives'
<1>a. /\ loads \in Nat /\ (loads <= Last => loads \in Defs) /\ (\A d \in Defs : d \in Nat)
      /\ Nil \notin Defs /\ rootRuleChainCtx \in Defs \cup {Nil}
  BY ChainAssumption DEF ChainType, Defs
<1>b. /\ defOf \in [Defs -> Defs] /\ node \in [NodeCtxs -> Nat] /\ live \subseteq NodeCtxs \X Nat
      /\ failed \subseteq Defs /\ OpType
  BY DEF ChainType
<1>c. \A d \in Defs : \A x \in Instances(d) : x[1][1] = d
  BY InstanceOf
<1>d. ASSUME node' = node PROVE \A d : Instances(d)' = Instances(d)
  BY <1>d DEF Instances
<1>e. rootRuleChainCtx # Nil => /\ rootRuleChainCtx \in Defs /\ defOf[rootRuleChainCtx] \in Defs
                                /\ defOf[rootRuleChainCtx] < loads
  BY <1>a, <1>b DEF Contexts, Detached
<1>f. \A x \in live : x[1][1] \in Nat /\ x[1][1] < loads
  BY <1>a, <1>b, NodeOf DEF Lives
<1>1. ASSUME DecodeFails PROVE Lives'
  <2>1. Living' = Living
    BY <1>1, <1>a, <1>b, <1>c DEF DecodeFails, Living, Lives
  <2>2. \A d : Instances(d)' = Instances(d)
    BY <1>1, <1>d DEF DecodeFails
  <2>3. \A x \in live' : x[1][1] < loads'
    BY <1>1, <1>a, <1>b, <1>c, NodeOf DEF DecodeFails, Lives
  <2>4. (\A d \in failed' : d < loads') /\ op.do = "idle"
    BY <1>1, <1>a, <1>b DEF DecodeFails, Lives, Idle
  <2>5. UNCHANGED <<op, rootRuleChainCtx, defOf>> /\ failed' = failed \cup {loads}
    BY <1>1 DEF DecodeFails
  <2> QED
    BY <1>a, <1>e, <2>1, <2>2, <2>3, <2>4, <2>5 DEF Lives
<1>2. ASSUME InitEngine PROVE Lives'
  <2>1. loads \in Defs /\ loads \notin failed /\ op.do = "idle" /\ defOf[loads] = loads
    BY <1>2, <1>a DEF InitEngine, Lives, Contexts, Idle
  <2>2. Living' = Instances(loads)
    BY <1>2, <2>1, <1>a, <1>c DEF InitEngine, Living, Lives
  <2>3. \A d : Instances(d)' = Instances(d)
    BY <1>2, <1>d DEF InitEngine
  <2>4. \A x \in live' : x[1][1] < loads'
    <3>1. live' = live \cup Instances(loads) /\ loads' = loads + 1
      BY <1>2 DEF InitEngine
    <3> QED
      BY <2>1, <3>1, <1>a, <1>c, <1>f
  <2>5. \A d \in failed' : d < loads'
    BY <1>2, <1>a, <1>b DEF InitEngine, Lives
  <2>6. UNCHANGED <<op, defOf, failed>> /\ rootRuleChainCtx' = loads
    BY <1>2 DEF InitEngine
  <2> QED
    BY <1>a, <2>1, <2>2, <2>3, <2>4, <2>5, <2>6 DEF Lives
<1>3. ASSUME Decode PROVE Lives'
  <2>1. loads \in Defs /\ loads \notin failed /\ op.do = "idle" /\ rootRuleChainCtx # Nil
    BY <1>3, <1>a DEF Decode, Lives, Idle
  <2>2. Living' = Instances(loads) \cup Instances(defOf[rootRuleChainCtx])
    BY <1>3, <2>1, <1>a, <1>c DEF Decode, Living, Lives
  <2>3. \A d : Instances(d)' = Instances(d)
    BY <1>3, <1>d DEF Decode
  <2>4. \A x \in live' : x[1][1] < loads'
    <3>1. live' = live \cup Instances(loads) /\ loads' = loads + 1
      BY <1>3 DEF Decode
    <3> QED
      BY <2>1, <3>1, <1>a, <1>c, <1>f
  <2>5. \A d \in failed' : d < loads'
    BY <1>3, <1>a, <1>b DEF Decode, Lives
  <2>6. /\ UNCHANGED <<rootRuleChainCtx, defOf, failed>>
        /\ op'.do = "reload" /\ op'.new = loads /\ op'.todo = Instances(defOf[rootRuleChainCtx])
    BY <1>3 DEF Decode
  <2>7. defOf[rootRuleChainCtx] \notin failed
    BY <2>1 DEF Lives
  <2> QED
    BY <2>1, <2>2, <2>3, <2>4, <2>5, <2>6, <2>7 DEF Lives
<1>4. ASSUME Stop PROVE Lives'
  <2>1. op.do = "idle" /\ rootRuleChainCtx # Nil /\ UNCHANGED <<rootRuleChainCtx, defOf, failed, loads, live>>
    BY <1>4 DEF Stop, Idle
  <2>2. op'.do = "stop" /\ op'.todo = Instances(defOf[rootRuleChainCtx])
    BY <1>4 DEF Stop
  <2>3. \A d : Instances(d)' = Instances(d)
    BY <1>4, <1>d DEF Stop
  <2> QED
    BY <2>1, <2>2, <2>3 DEF Lives, Living
<1>5. ASSUME Destroy PROVE Lives'
  <2>1. PICK x \in op.todo : live' = live \ {x} /\ op' = [op EXCEPT !.todo = @ \ {x}]
    BY <1>5, Zenon DEF Destroy
  <2>2. UNCHANGED <<rootRuleChainCtx, defOf, failed, loads>> /\ op.do \in {"reload", "stop"}
    BY <1>5 DEF Destroy
  <2>3. op'.do = op.do /\ op'.todo = op.todo \ {x} /\ (op.do = "reload" => op'.new = op.new /\ op.new \in Defs)
    BY <1>b, <2>1, <2>2 DEF OpType
  <2>4. \A d : Instances(d)' = Instances(d)
    BY <1>5, <1>d DEF Destroy
  <2>5. Living' = Living \ {x}
    BY <2>1, <2>2 DEF Living
  <2>6. x \in Instances(defOf[rootRuleChainCtx]) /\ rootRuleChainCtx # Nil
    BY <2>2 DEF Lives, Contexts
  <2>7. op.do = "reload" => x \notin Instances(op.new)
    BY <1>c, <1>e, <2>3, <2>6 DEF Contexts
  <2>8. /\ \A y \in live' : y[1][1] < loads'
        /\ \A d \in failed' : d < loads'
        /\ defOf'[rootRuleChainCtx'] \notin failed'
    BY <2>1, <2>2, <2>6 DEF Lives
  <2>9. CASE op.do = "reload"
    BY <2>2, <2>3, <2>4, <2>5, <2>7, <2>8, <2>9 DEF Lives
  <2>10. CASE op.do = "stop"
    BY <2>2, <2>3, <2>4, <2>5, <2>8, <2>10 DEF Lives
  <2> QED
    BY <2>2, <2>9, <2>10
<1>6. ASSUME Copy PROVE Lives'
  <2>1. /\ op.do = "reload" /\ op.todo = {} /\ op'.do = "idle"
        /\ UNCHANGED <<rootRuleChainCtx, failed, loads, live>>
        /\ rootRuleChainCtx # Nil /\ defOf[op.new] = op.new
    BY <1>6 DEF Copy, Contexts, Detached, Idle
  <2>2. \A d : Instances(d)' = Instances(d)
    BY <1>6, <1>d DEF Copy
  <2>3. defOf'[rootRuleChainCtx] = op.new
    BY <1>6, <1>b, <1>e, <2>1 DEF Copy
  <2> QED
    BY <2>1, <2>2, <2>3, Zenon DEF Lives, Living
<1>7. ASSUME Stopped PROVE Lives'
  <2>1. /\ op.do = "stop" /\ op.todo = {} /\ op'.do = "idle"
        /\ UNCHANGED <<failed, loads, live>> /\ rootRuleChainCtx' = Nil
    BY <1>7 DEF Stopped, Idle
  <2> QED
    BY <2>1 DEF Lives, Living
<1>8. ASSUME ReloadChild PROVE Lives'
  <2>1. PICK i \in NodesOf[defOf[rootRuleChainCtx]] :
          LET n == <<defOf[rootRuleChainCtx], i>>
          IN live' = live \cup {<<n, node[n] + 1>>} /\ op' = [do |-> "destroyNode", n |-> n]
    BY <1>8 DEF ReloadChild
  <2> DEFINE n == <<defOf[rootRuleChainCtx], i>>
  <2>2. op.do = "idle" /\ rootRuleChainCtx # Nil /\ UNCHANGED <<rootRuleChainCtx, defOf, failed, loads, node>>
    BY <1>8 DEF ReloadChild, Idle
  <2>3. n[1] = defOf[rootRuleChainCtx] /\ defOf[rootRuleChainCtx] \notin failed
    BY <2>2 DEF Lives
  <2>4. live' = live \cup {<<n, node[n] + 1>>} /\ op'.do = "destroyNode" /\ op'.n = n
    BY <2>1
  <2>5. \A d : Instances(d)' = Instances(d)
    BY <2>2, <1>d
  <2> HIDE DEF n
  <2>6. Living' = Living \cup {<<n, node[n] + 1>>}
    BY <2>2, <2>3, <2>4 DEF Living
  <2>7. \A x \in live' : x[1][1] < loads'
    BY <1>e, <2>2, <2>3, <2>4 DEF Lives
  <2> QED
    BY <2>2, <2>3, <2>4, <2>5, <2>6, <2>7 DEF Lives
<1>9. ASSUME DestroyNode PROVE Lives'
  <2>1. /\ op.do = "destroyNode" /\ op.n \in NodeCtxs /\ live' = live \ {<<op.n, node[op.n]>>}
        /\ op'.do = "copyNode" /\ op'.n = op.n
        /\ UNCHANGED <<rootRuleChainCtx, defOf, failed, loads, node>>
    BY <1>9, <1>b DEF DestroyNode, OpType
  <2>2. \A d : Instances(d)' = Instances(d)
    BY <2>1, <1>d
  <2>3. Living' = Living \ {<<op.n, node[op.n]>>}
    BY <2>1 DEF Living
  <2>4. <<op.n, node[op.n] + 1>> # <<op.n, node[op.n]>>
    BY <1>b, <2>1
  <2>5. \A x \in live' : x[1][1] < loads'
    BY <2>1, Zenon DEF Lives
  <2> QED
    BY <2>1, <2>2, <2>3, <2>4, <2>5 DEF Lives
<1>10. ASSUME CopyNode PROVE Lives'
  <2> DEFINE n == op.n
             d == defOf[rootRuleChainCtx]
  <2>1. /\ op.do = "copyNode" /\ n \in NodeCtxs /\ node' = [node EXCEPT ![n] = @ + 1]
        /\ op'.do = "idle" /\ rootRuleChainCtx # Nil
        /\ UNCHANGED <<rootRuleChainCtx, defOf, failed, loads, live>>
    BY <1>10, <1>b DEF CopyNode, OpType, Idle, Contexts
  <2>2. n[1] = d /\ Living = (Instances(d) \ {<<n, node[n]>>}) \cup {<<n, node[n] + 1>>}
    BY <2>1 DEF Lives
  <2>3. d \in Defs
    BY <1>e, <2>1
  <2>4. n \in {d} \X NodesOf[d]
    BY <2>1, <2>2, NodeOf
  <2>5. {d} \X NodesOf[d] \subseteq NodeCtxs
    BY <2>3, NodeOf
  <2> HIDE DEF n, d
  <2>6. \A k \in {d} \X NodesOf[d] : node'[k] = IF k = n THEN node[n] + 1 ELSE node[k]
    BY <1>b, <2>1, <2>5
  <2>7. {<<k, node'[k]>> : k \in {d} \X NodesOf[d]} =
          (Instances(d) \ {<<n, node[n]>>}) \cup {<<n, node[n] + 1>>}
    BY <2>4, <2>6 DEF Instances
  <2>8. Living' = {<<k, node'[k]>> : k \in {d} \X NodesOf[d]}
    BY <2>1, <2>2, <2>7 DEF Living
  <2> USE DEF d
  <2>9. Living' = Instances(defOf[rootRuleChainCtx])'
    BY <2>1, <2>8 DEF Instances
  <2> QED
    BY <2>1, <2>9, Zenon DEF Lives
<1> QED
  BY <1>1, <1>2, <1>3, <1>4, <1>5, <1>6, <1>7, <1>8, <1>9, <1>10 DEF Reload

\* Every step leaves the live instances as they have to be.
LEMMA LivesStep ==
  ASSUME ChainType, Contexts, Lives, [Next]_vars
  PROVE  Lives'
<1>1. ASSUME UNCHANGED engine PROVE Lives'
  <2>1. UNCHANGED <<rootRuleChainCtx, node, live, op, defOf, loads, failed>>
    BY <1>1 DEF engine
  <2>2. Living' = Living /\ \A d : Instances(d)' = Instances(d)
    BY <2>1 DEF Living, Instances
  <2> QED
    BY <2>1, <2>2 DEF Lives
<1>2. CASE UNCHANGED vars
  BY <1>1, <1>2 DEF vars, engine
<1> QED
  BY <1>1, <1>2, LivesReload, MessageEngine DEF Next

\* Every step that begins a reload or a stop ends the quiet time of all messages.
LEMMA QuietStep ==
  ASSUME ChainType, Contexts, Quiet, [Next]_vars
  PROVE  Quiet'
<1>a. loc \in [Msgs -> Loc] /\ OpType /\ Nil \notin Defs /\ rootRuleChainCtx \in Defs \cup {Nil}
  BY ChainAssumption DEF ChainType
<1>1. CASE Disturb
  BY <1>1, <1>a, Disturbed, Zenon DEF Quiet
<1>2. CASE DecodeFails
  BY <1>2 DEF DecodeFails, Quiet
<1>3. CASE InitEngine
  BY <1>3 DEF InitEngine, Quiet
<1>4. CASE op.do # "idle" /\ loc' = loc
  BY <1>4 DEF Quiet
<1>5. CASE Reload
  BY <1>5, <1>1, <1>2, <1>3, <1>4 DEF Reload, Decode, Stop, Destroy, Copy, Stopped, ReloadChild,
                                      DestroyNode, CopyNode
<1>6. ASSUME NEW m \in Msgs, Message(m), ~Start(m) \/ rootRuleChainCtx = Nil PROVE Quiet'
  <2>1. UNCHANGED engine
    BY <1>6, MessageEngine
  <2>2. \A x \in Msgs : loc'[x].c = loc[x].c /\ loc'[x].quiet = loc[x].quiet
    BY <1>a, <1>6, MessageStays
  <2> QED
    BY <2>1, <2>2 DEF engine, Quiet
<1>7. ASSUME NEW m \in Msgs, Start(m), rootRuleChainCtx # Nil PROVE Quiet'
  <2>1. /\ loc'[m].c = rootOf[rootRuleChainCtx]
        /\ loc'[m].quiet = (op = Idle)
        /\ \A x \in Msgs \ {m} : loc'[x] = loc[x]
    BY <1>a, <1>7 DEF Start
  <2>2. UNCHANGED engine
    BY <1>7, Zenon DEF Start
  <2>3. op = Idle => op.do = "idle"
    BY DEF Idle
  <2> QED
    BY <1>7, <2>1, <2>2, <2>3, Zenon DEF engine, Quiet
<1>8. CASE UNCHANGED vars
  BY <1>8 DEF vars, Quiet
<1> QED
  BY <1>5, <1>6, <1>7, <1>8 DEF Next, Message

\* The invariant holds throughout.
LEMMA ChainInvariant == Spec => []ChainInv
<1>1. ASSUME Init PROVE ChainInv
  <2> USE <1>1, ChainAssumption DEF Init
  <2>0. 0 \in Defs /\ \A d \in Defs : d \in Nat
    BY DEF Defs
  <2>1. ChainType
    <3>1. loc \in [Msgs -> Loc]
      BY <2>0, NodeOf DEF Loc
    <3>2. relationCache \in [Defs -> [Ids -> Seq(NodeCtxs) \cup {Nil}]]
      BY DEF EmptyCache
    <3>3. live \subseteq NodeCtxs \X Nat
      BY <2>0, NodeOf DEF Instances
    <3>4. OpType
      BY Zenon DEF OpType, Idle
    <3>5. loads \in 1..Last + 1
      OBVIOUS
    <3>6. node \in [NodeCtxs -> Nat] /\ defOf \in [Defs -> Defs] /\ rootOf \in [Defs -> Defs]
      OBVIOUS
    <3>7. pc \in [Msgs -> {"new", "refused", "checked", "panic", "run", "routes", "nodes", "tell", "ended"}]
      OBVIOUS
    <3>8. rootRuleChainCtx \in Defs /\ failed = {}
      BY <2>0
    <3> QED
      BY <3>1, <3>2, <3>3, <3>4, <3>5, <3>6, <3>7, <3>8, Zenon DEF ChainType
  <2>2. Contexts
    BY <2>0 DEF Contexts, Idle
  <2>3. Clean
    BY <2>0 DEF Clean, EmptyCache
  <2>4. Apart
    BY DEF Apart
  <2>5. Lives
    BY <2>0, <2>1, InstanceOf DEF Lives, Living, Idle
  <2>6. Quiet
    BY DEF Quiet
  <2> QED
    BY <2>1, <2>2, <2>3, <2>4, <2>5, <2>6 DEF ChainInv, DefInv
<1>2. ASSUME ChainInv, [Next]_vars PROVE ChainInv'
  <2>1. ChainType'
    BY <1>2, ReloadType, MessageType, Zenon DEF ChainInv, DefInv, Next, vars, ChainType, OpType
  <2> QED
    BY <1>2, <2>1, ContextsStep, CleanStep, ApartStep, LivesStep, QuietStep DEF ChainInv, DefInv
<1> QED
  BY <1>1, <1>2, PTL DEF Spec

(***************************************************************************)
(* A message that started after a reload runs one definition to the end,   *)
(* whatever definitions are loaded meanwhile and whatever they say of the  *)
(* same nodes.                                                             *)
(***************************************************************************)
THEOREM ReloadedRunsOne == Spec => []OneDefinition
<1>1. ASSUME ChainInv PROVE OneDefinition
  <2>1. \A m \in Msgs : loc[m].c \in Defs
    BY <1>1 DEF ChainInv, DefInv, ChainType, Loc
  <2>2. Clean /\ Apart
    BY <1>1, Zenon DEF ChainInv, DefInv
  <2> QED
    BY <2>1, <2>2 DEF Clean, Apart, Detached, OneDefinition
<1> QED
  BY <1>1, ChainInvariant, PTL

(***************************************************************************)
(* Reloads of chains and nodes, failed loads and stops destroy exactly the *)
(* instances that they replace.                                            *)
(***************************************************************************)
THEOREM LivesAreCurrent == Spec => []LiveIsCurrent
<1>1. ChainInv => LiveIsCurrent
  BY DEF ChainInv, Lives, Living, LiveIsCurrent, Idle
<1> QED
  BY <1>1, ChainInvariant, PTL

(***************************************************************************)
(* A message that no reload and no stop has disturbed never runs a node    *)
(* whose instance is destroyed, whatever earlier messages have cached.     *)
(***************************************************************************)
THEOREM UndisturbedRunsLive == Spec => []QuietRunsLive
<1>1. ASSUME ChainInv, NEW m \in Msgs, loc[m].quiet
      PROVE  <<loc[m].n, node[loc[m].n]>> \in live
  <2> DEFINE root == rootRuleChainCtx
  <2>1. op.do = "idle" /\ root # Nil /\ loc[m].c = rootOf[root]
    BY <1>1 DEF ChainInv, Quiet
  <2>2. root \in Defs /\ rootOf[root] \in Defs /\ loc[m].n \in NodeCtxs
    BY <1>1, <2>1 DEF ChainInv, DefInv, ChainType, Loc
  <2>3. defOf[root] = rootOf[root] /\ defOf[rootOf[root]] = rootOf[root]
    BY <1>1, <2>1 DEF ChainInv, DefInv, Contexts, Detached
  <2>4. loc[m].n[1] = rootOf[root]
    BY <1>1, <2>1, <2>2, <2>3 DEF ChainInv, DefInv, Clean
  <2>5. <<loc[m].n, node[loc[m].n]>> \in Instances(defOf[root])
    BY <1>1, <2>2, <2>3, <2>4, InstanceOf DEF ChainInv, DefInv
  <2>6. Instances(defOf[root]) \subseteq live
    BY <1>1, <2>1 DEF ChainInv, Lives, Living
  <2> QED
    BY <2>5, <2>6
<1>2. ChainInv => QuietRunsLive
  BY <1>1 DEF QuietRunsLive
<1> QED
  BY <1>2, ChainInvariant, PTL
=============================================================================
