---------------------------- MODULE MCRuleContext ----------------------------
(***************************************************************************)
(* Chains of the node components for model checking RuleContext.  Each     *)
(* node of a chain is any component of a kind.                             *)
(***************************************************************************)
EXTENDS RuleContext, NodeScripts

\* A switch that tells nothing, one relation, or two.
SwitchLists == {<<>>, <<"True">>, <<"False", "Success">>}

\* Functions that tell two relations at once, tell and then panic, tell without a
\* relation, or panic.
SomeFunctions ==
  {[tells |-> <<<<"Success", "Failure">>>>, panics |-> FALSE], [tells |-> <<<<"Success">>>>, panics |-> TRUE],
   [tells |-> <<<<>>>>, panics |-> FALSE], [tells |-> <<>>, panics |-> TRUE]}

\* The built-in aspects, and two of a program: one answers for the node and lets it go
\* on, the other may stop it without an answer.
BuiltIn == {<<Debug, SkipFallback(skips)>> : skips \in BOOLEAN}
Chatty == [order |-> 20, points |-> {"around"}, tells |-> <<<<"True">>>>, goesOn |-> TRUE]
Gate(open) == [order |-> 5, points |-> {"around"}, tells |-> <<>>, goesOn |-> open]
OfProgram == {<<>>} \cup {<<Chatty, Gate(open)>> : open \in BOOLEAN}

MixedNodes == {"filter", "switch", "client", "function", "iterator", "stream", "transform"}

MixedRoutes ==
  [n \in MixedNodes |-> [r \in Rels |->
     CASE n = "filter" /\ r = "True"  -> <<"switch">>
       [] n = "filter" /\ r = "False" -> <<"client">>
       [] n = "switch" /\ r = "True"  -> <<"iterator", "function">>
       [] n = "switch" /\ r = "False" -> <<"stream">>
       [] n = "iterator" /\ r = "True" -> <<"transform">>
       [] n \in {"client", "function", "stream"} /\ r = "Failure" -> <<"transform">>
       [] OTHER -> <<>>]]

MixedScripts ==
  [n \in MixedNodes |->
     CASE n = "filter"    -> ExprFilter \cup JsFilter \cup FieldFilter \cup GroupFilter
       [] n = "switch"    -> JsSwitch \cup MsgTypeSwitch
       [] n = "client"    -> Advised(BuiltIn, DbClient \cup MqttClientNode \cup SendEmail \cup Ssh)
       [] n = "function"  -> FunctionsNode
       [] n = "iterator"  -> Iterator
       [] n = "stream"    -> Advised(OfProgram, RestApiCall \cup Flow \cup SubChain \cup Delay \cup GroupAction)
       [] n = "transform" -> ExprTransform \cup JsTransform \cup JsLog]

-----------------------------------------------------------------------------
(* What is known to make a completion early or repeated, remembered.       *)

VARIABLE
  irregular      \* a node has told more than once, or a counter ran out too soon

trackedVars == <<vars, irregular>>

\* The rest r of a script tells one relation, or panics, or does nothing.
TellsOnce(r) ==
  /\ Len(r.tells) + (IF r.panics THEN 1 ELSE 0) <= 1
  /\ \A i \in DOMAIN r.tells : Len(r.tells[i]) <= 1

\* A node begins that tells more than once, or childDone brings the counter of a context
\* down to zero while tell is still on its way through the list of next nodes.
Irregular ==
  \/ \E c \in ctxs : st[c] = "submitted" /\ st'[c] = "running" /\ ~TellsOnce(run'[c])
  \/ \E c \in ctxs : Telling(c) /\ waitingCount'[c] < waitingCount[c] /\ waitingCount'[c] <= 0

Track == irregular' = (irregular \/ Irregular)

TrackedInit == Init /\ irregular = FALSE

\* Step /\ Track, action by action.
TrackedStep ==
  \/ \E c \in ctxs : TellNext(c) /\ Track
  \/ \E c \in ctxs : TellChild(c) /\ Track
  \/ \E c \in ctxs : TellEnd(c) /\ Track
  \/ \E c \in ctxs : Recover(c) /\ Track
  \/ \E t \in DOMAIN ends : OnEnd(t) /\ Track
  \/ \E t \in DOMAIN ends : ChildDone(t) /\ Track
  \/ \E t \in DOMAIN ends : LoadDone(t) /\ Track
  \/ \E t \in DOMAIN ends : StoreDone(t) /\ Track
  \/ Return /\ Track

TrackedNext == (OnMsgAndWait /\ Track) \/ TrackedStep

TrackedSpec == TrackedInit /\ [][TrackedNext]_trackedVars /\ WF_trackedVars(TrackedStep)

(***************************************************************************)
(* Branches are counted exactly but for two causes (tell, childReady,      *)
(* childDone): as long as no node has told more than once, and no counter  *)
(* has come to zero in the middle of the loop of tell over the next nodes, *)
(* the completion callback runs at most once whatever the branches do, and *)
(* only when every node has run, every ended branch has had its onEnd call *)
(* and no task was rejected.                                               *)
(***************************************************************************)
BranchesExact ==
  ~irregular =>
    /\ completions <= 1
    /\ completions = 1 =>
         /\ \A c \in ctxs \ {Root} : Executed(c)
         /\ \A t \in DOMAIN ends : ends[t].ph = "finished"

-----------------------------------------------------------------------------
\* Two next nodes, every node tells Success once.
PairNodes == {"first", "left", "right"}
PairRoutes ==
  [n \in PairNodes |-> [r \in Rels |->
     IF n = "first" /\ r = "Success" THEN <<"left", "right">> ELSE <<>>]]
PairScripts == [n \in PairNodes |-> {TellSuccess}]
=============================================================================
