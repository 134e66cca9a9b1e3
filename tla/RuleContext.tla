----------------------------- MODULE RuleContext -----------------------------
(***************************************************************************)
(* One message on its way through one rule chain: the tree of              *)
(* DefaultRuleContext values of engine.go, the counters by which a context *)
(* waits for its children, the end callbacks and the completion callback,  *)
(* and the caller that is blocked in OnMsgAndWait.                         *)
(*                                                                         *)
(* A context is named by its parent and by its number among the children   *)
(* of that parent, <<parent, k>>; Root is rootCtxCopy of onMsgAndWait.     *)
(* Each context other than Root is also the goroutine that runs tellNext   *)
(* for it.  The goroutines submitted by DoOnEnd, and the tail of a         *)
(* goroutine whose node has panicked, are the elements of DOMAIN ends.     *)
(*                                                                         *)
(* What a node does with the message is a script: the tells it makes, in   *)
(* order, each with its relation types (<<>> is TellNext(msg) without      *)
(* relation types), and whether it panics after them.  An around aspect    *)
(* that answers for its node, or stays silent, is one of the scripts.      *)
(***************************************************************************)
EXTENDS Integers, Sequences, FiniteSets

CONSTANTS
  Nodes,         \* the nodes of the chain
  FirstNode,     \* ruleChainCtx.GetFirstNode()
  Relations,     \* relation types
  Routes,        \* Routes[n][r]: the next nodes of n under relation r, in order
  Scripts,       \* Scripts[n]: what OnMsg of node n may do
  MayReject      \* config.Pool is set and pool.Submit may return an error

Script == [tells : Seq(Seq(Relations)), panics : BOOLEAN]

ASSUME ChainAssumption ==
  /\ FirstNode \in Nodes
  /\ Routes \in [Nodes -> [Relations -> Seq(Nodes)]]
  /\ Scripts \in [Nodes -> SUBSET Script]
  /\ MayReject \in BOOLEAN

VARIABLES
  ctxs,          \* the contexts created so far
  self,          \* ctx.self
  st,            \* where the goroutine of tellNext for the context is
  run,           \* the rest of its script, and the position in the list of next nodes
  spawned,       \* number of children created by the context
  ended,         \* number of goroutines that end a branch at the context
  waitingCount,  \* ctx.waitingCount
  ends,          \* those goroutines: where they are on the way up to Root
  onEndCalls,    \* number of onEnd calls made for the context
  reported,      \* contexts that have called childDone of their parent
  done,          \* onAllNodeCompletedDone of Root
  completions,   \* number of calls of onAllNodeCompleted
  caller         \* the goroutine in OnMsgAndWait

vars == <<ctxs, self, st, run, spawned, ended, waitingCount, ends, onEndCalls,
          reported, done, completions, caller>>

Root == <<>>

Parent(c) == c[1]

\* The outcomes of SubmitTack: a rejected task is only logged.
Accepted == IF MayReject THEN {TRUE, FALSE} ELSE {TRUE}

Extend(f, x, v) == [y \in DOMAIN f \cup {x} |-> IF y = x THEN v ELSE f[y]]

Idle == [tells |-> <<>>, panics |-> FALSE, idx |-> 0]

Init ==
  /\ ctxs = {Root}
  /\ self = [c \in {Root} |-> FirstNode]
  /\ st = [c \in {Root} |-> "root"]
  /\ run = [c \in {Root} |-> Idle]
  /\ spawned = [c \in {Root} |-> 0]
  /\ ended = [c \in {Root} |-> 0]
  /\ waitingCount = [c \in {Root} |-> 0]
  /\ ends = [t \in {} |-> Idle]
  /\ onEndCalls = [c \in {Root} |-> 0]
  /\ reported = {}
  /\ done = 0
  /\ completions = 0
  /\ caller = "idle"

-----------------------------------------------------------------------------
(* Creating contexts and submitting their goroutines.                      *)

\* SubmitTack(func() { ctx.tellNext(...) }) for the next child of c, and the
\* context that tellNext makes with NewNextNodeRuleContext.  waits is TRUE
\* when childReady() goes with it.
Submit(c, n, waits) ==
  LET d == <<c, spawned[c] + 1>>
  IN \E ok \in Accepted :
       /\ ctxs' = ctxs \cup {d}
       /\ self' = Extend(self, d, n)
       /\ st' = Extend(st, d, IF ok THEN "submitted" ELSE "dropped")
       /\ spawned' = Extend([spawned EXCEPT ![c] = @ + 1], d, 0)
       /\ ended' = Extend(ended, d, 0)
       /\ onEndCalls' = Extend(onEndCalls, d, 0)
       /\ waitingCount' =
            Extend([waitingCount EXCEPT ![c] = @ + (IF waits THEN 1 ELSE 0)], d, 0)

\* OnMsgAndWait: rootCtxCopy.TellNext(msg), which is tellFirst because Root is
\* the first context, and then the wait on the channel.
OnMsgAndWait ==
  /\ caller = "idle"
  /\ caller' = "blocked"
  /\ Submit(Root, FirstNode, FALSE)
  /\ run' = Extend(run, <<Root, spawned[Root] + 1>>, Idle)
  /\ UNCHANGED <<ends, reported, done, completions>>

\* tellNext: the node's OnMsg begins.
TellNext(c) ==
  /\ st[c] = "submitted"
  /\ \E s \in Scripts[self[c]] :
       run' = [run EXCEPT ![c] = [tells |-> s.tells, panics |-> s.panics, idx |-> 0]]
  /\ st' = [st EXCEPT ![c] = "running"]
  /\ UNCHANGED <<ctxs, self, spawned, ended, waitingCount, ends, onEndCalls,
                 reported, done, completions, caller>>

Telling(c) == st[c] = "running" /\ run[c].tells # <<>>

\* The next nodes of the relation that the loop of tell has reached.
GetNextNodes(c) ==
  LET rels == Head(run[c].tells)
  IN IF rels = <<>> THEN <<>> ELSE Routes[self[c]][Head(rels)]

\* The loop over relationTypes goes on, or tell returns to the node.
NextRelation(r) ==
  LET rels == Head(r.tells)
  IN [r EXCEPT !.idx = 0,
               !.tells = IF Len(rels) <= 1 THEN Tail(r.tells)
                         ELSE <<Tail(rels)>> \o Tail(r.tells)]

\* tell, one iteration of the loop over the next nodes: childReady, then submit.
TellChild(c) ==
  /\ Telling(c)
  /\ LET next == GetNextNodes(c)
         i == run[c].idx + 1
         r == IF i = Len(next) THEN NextRelation(run[c]) ELSE [run[c] EXCEPT !.idx = i]
     IN /\ i <= Len(next)
        /\ Submit(c, next[i], TRUE)
        /\ run' = Extend([run EXCEPT ![c] = r], <<c, spawned[c] + 1>>, Idle)
  /\ UNCHANGED <<ends, reported, done, completions, caller>>

\* A goroutine that ends a branch at c; at is where its next childDone goes.
NewEnd(c, at, ph) ==
  /\ ended' = [ended EXCEPT ![c] = @ + 1]
  /\ ends' = Extend(ends, <<c, ended[c] + 1>>, [at |-> at, from |-> c, ph |-> ph])

\* Mutant: childDone without waiting for the onEnd callback.
DoOnEndDetached(c) ==
  \E ok \in Accepted : NewEnd(c, c, IF ok THEN "childDone" ELSE "dropped")

\* DoOnEnd.  onMsgAndWait and ExecuteNode always set onEnd, so the callback and
\* childDone run in a goroutine of their own.
DoOnEnd(c) ==
  \E ok \in Accepted : NewEnd(c, c, IF ok THEN "onEnd" ELSE "dropped")

\* tell for a relation that leads nowhere, or without relation types.
TellEnd(c) ==
  /\ Telling(c)
  /\ GetNextNodes(c) = <<>>
  /\ DoOnEnd(c)
  /\ run' = [run EXCEPT ![c] = NextRelation(@)]
  /\ UNCHANGED <<ctxs, self, st, spawned, waitingCount, onEndCalls, reported,
                 done, completions, caller>>

\* Mutant: the deferred function calls childDone whether or not it has recovered
\* a panic.
RecoverAlways(c) ==
  /\ st[c] = "running"
  /\ run[c].tells = <<>>
  /\ st' = [st EXCEPT ![c] = "panicked"]
  /\ NewEnd(c, Parent(c), "childDone")
  /\ UNCHANGED <<ctxs, self, run, spawned, waitingCount, onEndCalls, reported,
                 done, completions, caller>>

\* Mutant: the deferred function forgets childDone.
RecoverSilently(c) ==
  /\ st[c] = "running"
  /\ run[c].tells = <<>>
  /\ run[c].panics
  /\ st' = [st EXCEPT ![c] = "panicked"]
  /\ UNCHANGED <<ctxs, self, run, spawned, ended, ends, waitingCount, onEndCalls,
                 reported, done, completions, caller>>

\* The recover of tellNext: childDone of the parent, and no onEnd.
Recover(c) ==
  /\ st[c] = "running"
  /\ run[c].tells = <<>>
  /\ run[c].panics
  /\ st' = [st EXCEPT ![c] = "panicked"]
  /\ NewEnd(c, Parent(c), "childDone")
  /\ UNCHANGED <<ctxs, self, run, spawned, waitingCount, onEndCalls, reported,
                 done, completions, caller>>

-----------------------------------------------------------------------------
(* Ending a branch and telling the ancestors.                              *)

\* The goroutine of DoOnEnd: ctx.onEnd(...)
OnEnd(t) ==
  /\ ends[t].ph = "onEnd"
  /\ onEndCalls' = [onEndCalls EXCEPT ![t[1]] = @ + 1]
  /\ ends' = [ends EXCEPT ![t].ph = "childDone"]
  /\ UNCHANGED <<ctxs, self, st, run, spawned, ended, waitingCount, reported,
                 done, completions, caller>>

\* Mutant: the counter is compared with == 0, although a context without children
\* goes from 0 to -1.
ClimbAtZero(e, c, n) ==
  IF n # 0 THEN [e EXCEPT !.ph = "finished"]
  ELSE IF c # Root THEN [e EXCEPT !.at = Parent(c), !.from = c]
  ELSE [e EXCEPT !.ph = "load"]

\* Mutant: childDone goes on up while one child is still waited for.
ClimbAtOne(e, c, n) ==
  IF n > 1 THEN [e EXCEPT !.ph = "finished"]
  ELSE IF c # Root THEN [e EXCEPT !.at = Parent(c), !.from = c]
  ELSE [e EXCEPT !.ph = "load"]

\* Where childDone of c continues when it leaves n children waiting: nowhere,
\* with childDone of the parent, or at Root with the completion callback, which
\* no other context has.
Climb(e, c, n) ==
  IF n > 0 THEN [e EXCEPT !.ph = "finished"]
  ELSE IF c # Root THEN [e EXCEPT !.at = Parent(c), !.from = c]
  ELSE [e EXCEPT !.ph = "load"]

\* childDone, up to the test of the new value of waitingCount.
ChildDone(t) ==
  /\ ends[t].ph = "childDone"
  /\ LET c == ends[t].at
         n == waitingCount[c] - 1
     IN /\ waitingCount' = [waitingCount EXCEPT ![c] = n]
        /\ ends' = [ends EXCEPT ![t] = Climb(@, c, n)]
        /\ reported' = IF ends[t].from = c THEN reported ELSE reported \cup {ends[t].from}
  /\ UNCHANGED <<ctxs, self, st, run, spawned, ended, onEndCalls, done,
                 completions, caller>>

\* childDone at Root: LoadInt32(&onAllNodeCompletedDone) != 1.
LoadDone(t) ==
  /\ ends[t].ph = "load"
  /\ ends' = [ends EXCEPT ![t].ph = IF done = 1 THEN "finished" ELSE "store"]
  /\ UNCHANGED <<ctxs, self, st, run, spawned, ended, waitingCount, onEndCalls,
                 reported, done, completions, caller>>

\* childDone at Root: StoreInt32(&onAllNodeCompletedDone, 1), then the callback,
\* which closes the caller's channel.  A second call panics there (close of a closed
\* channel); the model goes on and counts it, see CompletedOnce.
StoreDone(t) ==
  /\ ends[t].ph = "store"
  /\ done' = 1
  /\ completions' = completions + 1
  /\ ends' = [ends EXCEPT ![t].ph = "finished"]
  /\ UNCHANGED <<ctxs, self, st, run, spawned, ended, waitingCount, onEndCalls,
                 reported, caller>>

\* The caller's receive from the closed channel.
Return ==
  /\ caller = "blocked"
  /\ completions > 0
  /\ caller' = "returned"
  /\ UNCHANGED <<ctxs, self, st, run, spawned, ended, waitingCount, ends,
                 onEndCalls, reported, done, completions>>

Step ==
  \/ \E c \in ctxs : TellNext(c)
  \/ \E c \in ctxs : TellChild(c)
  \/ \E c \in ctxs : TellEnd(c)
  \/ \E c \in ctxs : Recover(c)
  \/ \E t \in DOMAIN ends : OnEnd(t)
  \/ \E t \in DOMAIN ends : ChildDone(t)
  \/ \E t \in DOMAIN ends : LoadDone(t)
  \/ \E t \in DOMAIN ends : StoreDone(t)
  \/ Return

Next == OnMsgAndWait \/ Step

Spec == Init /\ [][Next]_vars

\* Goroutines that can run do run.  A message makes finitely many steps, so
\* fairness of their disjunction is fairness of each of them.
FairSpec == Spec /\ WF_vars(Step)
-----------------------------------------------------------------------------
EndIds == UNION {{<<c, k>> : k \in 1..ended[c]} : c \in ctxs}

Phases == {"onEnd", "childDone", "load", "store", "finished", "dropped"}

RunState == [tells : Seq(Seq(Relations)), panics : BOOLEAN, idx : Nat]

Statuses == {"root", "submitted", "running", "panicked", "dropped"}

\* Types of the variables, and the shape of the tree of contexts.
TypeOK ==
  /\ Root \in ctxs
  /\ \A c \in ctxs : c = Root \/ \E p \in ctxs : \E k \in 1..spawned[p] : c = <<p, k>>
  /\ \A p \in ctxs : \A k \in 1..spawned[p] : <<p, k>> \in ctxs
  /\ self \in [ctxs -> Nodes]
  /\ st \in [ctxs -> Statuses]
  /\ run \in [ctxs -> RunState]
  /\ spawned \in [ctxs -> Nat]
  /\ ended \in [ctxs -> Nat]
  /\ waitingCount \in [ctxs -> Int]
  /\ ends \in [EndIds -> [at : ctxs, from : ctxs, ph : Phases]]
  /\ onEndCalls \in [ctxs -> Nat]
  /\ reported \subseteq ctxs \ {Root}
  /\ done \in {0, 1}
  /\ completions \in Nat
  /\ caller \in {"idle", "blocked", "returned"}

\* A goroutine of an ended branch is about to call childDone of c.
HeadingFor(t, c) == ends[t].at = c /\ ends[t].ph \in {"onEnd", "childDone"}

\* Every branch that c started has come back to c: its children have called
\* childDone of c, and so have the goroutines that DoOnEnd started for c itself.
BranchesBack(c) ==
  /\ spawned[c] + ended[c] > 0
  /\ \A k \in 1..spawned[c] : <<c, k>> \in reported
  /\ \A k \in 1..ended[c] : /\ ~HeadingFor(<<c, k>>, c)
                             /\ ends[<<c, k>>].ph # "dropped"

(***************************************************************************)
(* No completion is lost (childReady, childDone): once every branch of a   *)
(* context has come back, the context has told its parent, or a goroutine  *)
(* is about to; and once the first node has told Root, the completion      *)
(* callback has been called, or a goroutine is about to call it.  Without  *)
(* this the caller of OnMsgAndWait could wait forever after all nodes ran. *)
(***************************************************************************)
NoLostCompletion ==
  /\ \A c \in ctxs \ {Root} :
       BranchesBack(c) =>
         c \in reported \/ \E t \in DOMAIN ends : ends[t].from = c /\ HeadingFor(t, Parent(c))
  /\ BranchesBack(Root) =>
       completions > 0 \/ \E t \in DOMAIN ends : ends[t].ph \in {"load", "store"}

-----------------------------------------------------------------------------
(* The inductive invariant from which NoLostCompletion is proved.          *)

\* The children of c that have not called childDone of c.
Unreported(c) == {k \in 1..spawned[c] : <<c, k>> \notin reported}

\* Context c has told its parent, or a goroutine is about to.
Climbed(c) ==
  c \in reported \/ \E t \in DOMAIN ends : ends[t].from = c /\ HeadingFor(t, Parent(c))

\* childDone of c has been called.
Decremented(c) ==
  \/ \E k \in 1..spawned[c] : <<c, k>> \in reported
  \/ \E k \in 1..ended[c] : ~HeadingFor(<<c, k>>, c) /\ ends[<<c, k>>].ph # "dropped"

\* Root runs no node and is never waited for; a goroutine on its way up is at
\* its own context, or at the parent of the context it comes from.
Routing ==
  /\ st[Root] = "root"
  /\ ended[Root] = 0
  /\ waitingCount[Root] <= 0
  /\ \A t \in DOMAIN ends :
       /\ ends[t].from # Root
       /\ ends[t].ph = "onEnd" => ends[t].at = ends[t].from /\ ends[t].from = t[1]
       /\ ends[t].ph = "childDone" =>
            \/ ends[t].at = ends[t].from /\ ends[t].from = t[1]
            \/ ends[t].at = Parent(ends[t].from)

\* The counter of a context is at most the number of children still to report;
\* a context whose counter has been brought down to zero has told its parent.
Counting ==
  /\ \A c \in ctxs : waitingCount[c] <= Cardinality(Unreported(c))
  /\ \A c \in ctxs \ {Root} : Decremented(c) /\ waitingCount[c] <= 0 => Climbed(c)

\* What the first child tells Root leads to the callback.
AtRoot ==
  /\ done = 1 => completions > 0
  /\ (\E k \in 1..spawned[Root] : <<Root, k>> \in reported) =>
       completions > 0 \/ \E t \in DOMAIN ends : ends[t].ph \in {"load", "store"}

IInv == TypeOK /\ Routing /\ Counting /\ AtRoot

(***************************************************************************)
(* A branch is counted as done only after its onEnd callback (DoOnEnd): a  *)
(* context without children that has told its parent has had onEnd called  *)
(* for it, unless its node panicked.  TellFlow callers collect results in  *)
(* onEnd and read them in onAllNodeCompleted.                              *)
(***************************************************************************)
ReportedAfterOnEnd ==
  \A c \in reported :
    spawned[c] = 0 => onEndCalls[c] > 0 \/ st[c] = "panicked"

\* The goroutine of context c has nothing left to do.
Executed(c) ==
  \/ st[c] = "panicked"
  \/ st[c] = "running" /\ run[c].tells = <<>> /\ ~run[c].panics

(***************************************************************************)
(* What OnMsgAndWait documents (engine.go:537): it returns after all nodes *)
(* of the chain have been executed.                                        *)
(***************************************************************************)
ReturnsAfterAllNodes ==
  caller = "returned" => \A c \in ctxs \ {Root} : Executed(c)

(***************************************************************************)
(* What the field onAllNodeCompleted documents (engine.go:53): it is       *)
(* called once.  A second call of the one that OnMsgAndWait installs       *)
(* closes a closed channel.                                                *)
(***************************************************************************)
CompletedOnce == completions <= 1

\* Nodes that tell one relation or panic, and have at most one next node.
Straight(n) ==
  /\ \A s \in Scripts[n] :
       Len(s.tells) + (IF s.panics THEN 1 ELSE 0) <= 1 /\ \A i \in DOMAIN s.tells : Len(s.tells[i]) <= 1
  /\ \A r \in Relations : Len(Routes[n][r]) <= 1

(***************************************************************************)
(* Completion is exact for a message that meets only nodes which tell one  *)
(* relation with at most one next node (childDone, DoOnEnd): the callback  *)
(* runs at most once, and only when every node has run and every ended     *)
(* branch has had its onEnd call.                                          *)
(***************************************************************************)
CompletionExact ==
  (\A c \in ctxs : Straight(self[c])) =>
    /\ completions <= 1
    /\ completions = 1 =>
         /\ \A c \in ctxs \ {Root} : Executed(c)
         /\ \A t \in DOMAIN ends : ends[t].ph = "finished"

\* The node of context c has returned without telling anything.
Silent(c) == st[c] = "running" /\ run[c].tells = <<>> /\ ~run[c].panics /\ spawned[c] + ended[c] = 0

Rejected == "dropped" \in {st[c] : c \in ctxs} \cup {ends[t].ph : t \in DOMAIN ends}

(***************************************************************************)
(* OnMsgAndWait returns, unless a node tells nothing or the pool rejects a *)
(* task: both leave the caller waiting without a limit (engine.go:598).    *)
(***************************************************************************)
CallerReturns ==
  caller = "blocked" ~> caller = "returned" \/ Rejected \/ \E c \in ctxs : Silent(c)
=============================================================================
