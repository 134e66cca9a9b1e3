------------------------------ MODULE GroupNode ------------------------------
(***************************************************************************)
(* One message in a group node: GroupActionNode.OnMsg (mode "action") or   *)
(* GroupFilterNode.OnMsg with AllMatches (mode "all") or without ("any").  *)
(* The node executes every node of its group with ExecuteNode and          *)
(* skipTellNext, collects what they tell in callbacks that run             *)
(* concurrently, and waits for a verdict or for its context to be done.    *)
(* Each atomic operation is a step.                                        *)
(***************************************************************************)
EXTENDS Integers, Sequences, FiniteSets

CONSTANTS
  Confs,           \* the kinds of node, and whether Timeout > 0
  Length,          \* number of node ids in the configuration
  MatchNum,        \* of the configuration, before Init normalises it
  Match,           \* MatchRelationType, or True for a filter
  Relations,
  Behaviours       \* Behaviours[i]: whether node i is found, and what it tells

Ids == 1..Length

ASSUME GroupAssumption ==
  /\ Confs \subseteq [mode : {"action", "all", "any"}, timeout : BOOLEAN]
  /\ Length \in Nat /\ MatchNum \in Int
  /\ Match \in Relations /\ "Failure" \in Relations
  /\ Behaviours \in [Ids -> SUBSET [found : BOOLEAN, tells : Seq(Relations)]]

VARIABLES
  onMsg,                \* where OnMsg is: "loop", "select", or what it has told
  next,                 \* the loop over NodeIdList
  tells,                \* what the nodes of the group are still going to tell
  cb,                   \* the callbacks, by node and number
  endCount, currentMatchedCount, completed,
  msgs,                 \* indices of msgs that are filled
  c,                    \* values sent to the channel
  merged,               \* indices that were merged into wrapperMsg
  ctxDone,              \* chanCtx is done
  conf                  \* the configuration of the node

vars == <<onMsg, next, tells, cb, endCount, currentMatchedCount, completed, msgs,
          c, merged, ctxDone, conf>>

Mode == conf.mode

\* Init of the group action: MatchNum within the number of nodes.
Need == IF MatchNum <= 0 \/ MatchNum > Length THEN Length ELSE MatchNum

Init ==
  /\ conf \in Confs
  /\ onMsg = IF Length = 0 THEN "Failure" ELSE "loop"
  /\ next = 1
  /\ tells = [i \in Ids |-> <<>>]
  /\ cb = [k \in {} |-> 0]
  /\ endCount = 0 /\ currentMatchedCount = 0 /\ completed = 0
  /\ msgs = {} /\ merged = {} /\ c = <<>>
  /\ ctxDone = FALSE

\* ctx.onEnd of ExecuteNode for node i; inline when OnMsg itself calls it.
Callback(i, k, rel, inline) ==
  cb' = [x \in DOMAIN cb \cup {<<i, k>>} |->
           IF x = <<i, k>> THEN [pc |-> "check", rel |-> rel, inline |-> inline, v |-> FALSE]
           ELSE cb[x]]

\* One iteration of the loop.  A node that is not found ends at once, within
\* OnMsg, with Failure.
ExecuteNode ==
  /\ onMsg = "loop" /\ next <= Length
  /\ \A x \in DOMAIN cb : cb[x].inline => cb[x].pc = "finished"
  /\ \E b \in Behaviours[next] :
       IF b.found THEN tells' = [tells EXCEPT ![next] = b.tells] /\ UNCHANGED cb
       ELSE Callback(next, 1, "Failure", TRUE) /\ UNCHANGED tells
  /\ next' = next + 1
  /\ UNCHANGED <<onMsg, endCount, currentMatchedCount, completed, msgs, c, merged, ctxDone, conf>>

\* Node i tells: with skipTellNext that is DoOnEnd, a goroutine with the callback.
Tell(i) ==
  /\ tells[i] # <<>>
  /\ Callback(i, Len(tells[i]), Head(tells[i]), FALSE)
  /\ tells' = [tells EXCEPT ![i] = Tail(@)]
  /\ UNCHANGED <<onMsg, next, endCount, currentMatchedCount, completed, msgs, c, merged, ctxDone, conf>>

-----------------------------------------------------------------------------
(* The callback.                                                           *)

Goto(x, l) == cb' = [cb EXCEPT ![x].pc = l]

\* Mutant: only matching results are kept.
CheckMatching(x) ==
  /\ cb[x].pc = "check"
  /\ IF completed = 0
       THEN /\ Goto(x, "count")
            /\ msgs' = IF cb[x].rel = Match THEN msgs \cup {x[1]} ELSE msgs
       ELSE Goto(x, "finished") /\ UNCHANGED msgs
  /\ UNCHANGED <<onMsg, next, tells, endCount, currentMatchedCount, completed, c, merged, ctxDone, conf>>

\* completed is loaded; the action then fills msgs[index].
Check(x) ==
  /\ cb[x].pc = "check"
  /\ IF completed = 0
       THEN /\ Goto(x, "count")
            /\ msgs' = IF Mode = "action" THEN msgs \cup {x[1]} ELSE msgs
       ELSE Goto(x, "finished") /\ UNCHANGED msgs
  /\ UNCHANGED <<onMsg, next, tells, endCount, currentMatchedCount, completed, c, merged, ctxDone, conf>>

\* endCount is incremented.
Count(x) ==
  /\ cb[x].pc = "count"
  /\ endCount' = endCount + 1
  /\ Goto(x, IF Mode = "action" THEN "match" ELSE "decide")
  /\ UNCHANGED <<onMsg, next, tells, currentMatchedCount, completed, msgs, c, merged, ctxDone, conf>>

\* The action counts a matching relation.
MatchOne(x) ==
  /\ cb[x].pc = "match"
  /\ currentMatchedCount' =
       IF cb[x].rel = Match THEN currentMatchedCount + 1 ELSE currentMatchedCount
  /\ Goto(x, "decide")
  /\ UNCHANGED <<onMsg, next, tells, endCount, completed, msgs, c, merged, ctxDone, conf>>

\* The first condition: enough matches; for a filter, what this node has told.
Decided(x) ==
  CASE Mode = "action" -> currentMatchedCount >= Need
    [] Mode = "all"    -> cb[x].rel # Match
    [] Mode = "any"    -> cb[x].rel = Match

\* The verdict of the first condition; the other branch sends the opposite.
Early == Mode # "all"

\* The first condition is evaluated.
Decide(x) ==
  /\ cb[x].pc = "decide"
  /\ cb' = [cb EXCEPT ![x].pc = IF Decided(x) THEN "cas" ELSE "last", ![x].v = Early]
  /\ UNCHANGED <<onMsg, next, tells, endCount, currentMatchedCount, completed, msgs, c, merged, ctxDone, conf>>

\* Mutant: off by one in the number of ended nodes.
LastOneStrict(x) ==
  /\ cb[x].pc = "last"
  /\ cb' = IF endCount > Length
             THEN [cb EXCEPT ![x].pc = "cas", ![x].v = ~Early]
             ELSE [cb EXCEPT ![x].pc = "finished"]
  /\ UNCHANGED <<onMsg, next, tells, endCount, currentMatchedCount, completed, msgs, c, merged, ctxDone, conf>>

\* The second condition: all nodes have ended.
LastOne(x) ==
  /\ cb[x].pc = "last"
  /\ cb' = IF endCount >= Length
             THEN [cb EXCEPT ![x].pc = "cas", ![x].v = ~Early]
             ELSE [cb EXCEPT ![x].pc = "finished"]
  /\ UNCHANGED <<onMsg, next, tells, endCount, currentMatchedCount, completed, msgs, c, merged, ctxDone, conf>>

\* Mutant: completed is stored without comparing it.
CompleteStore(x) ==
  /\ cb[x].pc = "cas"
  /\ completed' = 1
  /\ Goto(x, "send")
  /\ UNCHANGED <<onMsg, next, tells, endCount, currentMatchedCount, msgs, c, merged, ctxDone, conf>>

\* CompareAndSwapInt32(&completed, 0, 1).
Complete(x) ==
  /\ cb[x].pc = "cas"
  /\ completed' = 1
  /\ Goto(x, IF completed = 0 THEN "send" ELSE "finished")
  /\ UNCHANGED <<onMsg, next, tells, endCount, currentMatchedCount, msgs, c, merged, ctxDone, conf>>

\* The action merges the results; the verdict is sent.
SendVerdict(x) ==
  /\ cb[x].pc = "send"
  /\ c' = Append(c, cb[x].v)
  /\ merged' = msgs
  /\ Goto(x, "finished")
  /\ UNCHANGED <<onMsg, next, tells, endCount, currentMatchedCount, completed, msgs, ctxDone, conf>>

-----------------------------------------------------------------------------
(* The end of OnMsg.                                                       *)

\* chanCtx is over: its deadline passes, or the context of the message, which it is made
\* from with or without a timeout, is cancelled.
Timeout ==
  /\ ~ctxDone
  /\ ctxDone' = TRUE
  /\ UNCHANGED <<onMsg, next, tells, cb, endCount, currentMatchedCount, completed, msgs, c, merged, conf>>

\* The loop is over, OnMsg waits.
Select ==
  /\ onMsg = "loop" /\ next > Length
  /\ \A x \in DOMAIN cb : cb[x].inline => cb[x].pc = "finished"
  /\ onMsg' = "select"
  /\ UNCHANGED <<next, tells, cb, endCount, currentMatchedCount, completed, msgs, c, merged, ctxDone, conf>>

\* case <-chanCtx.Done()
TellTimeout ==
  /\ onMsg = "select" /\ ctxDone
  /\ onMsg' = "Failure"
  /\ UNCHANGED <<next, tells, cb, endCount, currentMatchedCount, completed, msgs, c, merged, ctxDone, conf>>

\* case r := <-c
TellVerdict ==
  /\ onMsg = "select" /\ c # <<>>
  /\ onMsg' = IF Head(c) THEN "yes" ELSE "no"
  /\ UNCHANGED <<next, tells, cb, endCount, currentMatchedCount, completed, msgs, c, merged, ctxDone, conf>>

Steps(x) ==
  \/ Check(x) \/ Count(x) \/ MatchOne(x) \/ Decide(x) \/ LastOne(x)
  \/ Complete(x) \/ SendVerdict(x)

Next ==
  \/ ExecuteNode \/ Select \/ Timeout \/ TellTimeout \/ TellVerdict
  \/ \E i \in Ids : Tell(i)
  \/ \E x \in DOMAIN cb : Steps(x)

Spec == Init /\ [][Next]_vars

\* Goroutines that can go on do; there are finitely many steps.  Only a deadline is bound
\* to come: without a timeout chanCtx may stay open.
FairSpec == Spec /\ WF_vars(Next /\ (conf.timeout \/ UNCHANGED ctxDone))
-----------------------------------------------------------------------------
\* Types of the variables.
TypeOK ==
  /\ onMsg \in {"loop", "select", "yes", "no", "Failure"}
  /\ next \in 1..Length + 1
  /\ tells \in [Ids -> Seq(Relations)]
  /\ \A x \in DOMAIN cb :
       /\ x \in Ids \X Nat
       /\ cb[x] \in [pc : {"check", "count", "match", "decide", "last", "cas", "send", "finished"},
                     rel : Relations, inline : BOOLEAN, v : BOOLEAN]
  /\ endCount \in Nat /\ currentMatchedCount \in Nat /\ completed \in {0, 1}
  /\ msgs \subseteq Ids /\ merged \subseteq Ids
  /\ c \in Seq(BOOLEAN)
  /\ ctxDone \in BOOLEAN /\ conf \in Confs

Matching == {x \in DOMAIN cb : cb[x].rel = Match}

(***************************************************************************)
(* The channel of OnMsg has room for one value, so the callbacks send at   *)
(* most one verdict, and the verdict of the first condition is earned:     *)
(* success of the action means that MatchNum callbacks matched, False of   *)
(* an all-filter that one did not, True of an any-filter that one did.     *)
(***************************************************************************)
EarnedVerdict ==
  /\ Len(c) <= 1
  /\ c = <<Early>> =>
       CASE Mode = "action" -> Cardinality(Matching) >= Need
         [] Mode = "all"    -> Matching # DOMAIN cb
         [] Mode = "any"    -> Matching # {}

(***************************************************************************)
(* A verdict that was reached because all nodes have ended merges the      *)
(* results of all of them into the message (GroupActionNode: "等待所有节点 *)
(* 执行完成后，把所有节点结果合并"), when each node tells once.            *)
(***************************************************************************)
MergesAll ==
  Mode = "action" /\ c = <<~Early>> /\ (\A x \in DOMAIN cb : x[2] = 1) => merged = Ids

\* The node has panicked without telling.
Silent(i) == next > i /\ tells[i] = <<>> /\ \A x \in DOMAIN cb : x[1] # i

\* OnMsg tells a relation, unless it has no timeout and a node of the group never
\* tells (the select of OnMsg).
Answers ==
  <>(onMsg \in {"yes", "no", "Failure"} \/ (~conf.timeout /\ \E i \in Ids : Silent(i)))

(***************************************************************************)
(* What both nodes document: the message goes to the first relation when   *)
(* enough nodes match, and to the other one only if they do not            *)
(* (group_action_node.go:50, group_filter_node.go:44).                     *)
(***************************************************************************)
VerdictIsRight ==
  onMsg \in {"yes", "no"} /\ DOMAIN cb = Ids \X {1} =>
    ((onMsg = "yes") <=> CASE Mode = "action" -> Cardinality(Matching) >= Need
                           [] Mode = "all"    -> Matching = DOMAIN cb
                           [] Mode = "any"    -> Matching # {})
=============================================================================
