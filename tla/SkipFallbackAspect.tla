------------------------- MODULE SkipFallbackAspect -------------------------
(***************************************************************************)
(* The skip-fallback aspect of aspect/skip_fallback_aspect.go around one   *)
(* node of one chain: concurrent executions of the node, each with its     *)
(* Around advice and, when it tells Failure, its After advice, while       *)
(* reloads and the destruction of the chain drop the recorded errors.      *)
(* The records are objects: an execution may hold one that is no longer in *)
(* the cache.  0 stands for "not found".  An execution tells once.         *)
(***************************************************************************)
EXTENDS Integers, FiniteSets

CONSTANTS
  Execs,               \* executions of the node
  ErrorCountLimit, LimitDuration,
  MaxTime,             \* bound on the clock
  MaxDrops             \* bound on the number of reloads

ASSUME AspectAssumption ==
  /\ IsFiniteSet(Execs)
  /\ ErrorCountLimit \in Nat /\ LimitDuration \in Nat
  /\ MaxTime \in Nat /\ MaxDrops \in Nat

VARIABLES
  now,
  chain,        \* chainNodeErrorCache: the object of the chain
  nodeOf,       \* nodeErrorCache of each chain object: the object of the node
  err,          \* NodeError objects
  pc, loc,      \* where each execution is, the objects it holds, and whether
                \* the node itself has failed in it
  drops,        \* number of times records were dropped
  nodeError     \* when a failure of the node itself was recorded last

vars == <<now, chain, nodeOf, err, pc, loc, drops, nodeError>>

Init ==
  /\ now = 0 /\ chain = 0 /\ drops = 0 /\ nodeError = 0
  /\ nodeOf = <<>> /\ err = <<>>
  /\ pc = [x \in Execs |-> "around"]
  /\ loc = [x \in Execs |-> [c |-> 0, e |-> 0, own |-> FALSE]]

Tick ==
  /\ now < MaxTime
  /\ now' = now + 1
  /\ UNCHANGED <<chain, nodeOf, err, pc, loc, drops, nodeError>>

Goto(x, l) == pc' = [pc EXCEPT ![x] = l]

-----------------------------------------------------------------------------
(* Around.                                                                 *)

\* getChainError.
AroundChain(x) ==
  /\ pc[x] = "around"
  /\ loc' = [loc EXCEPT ![x].c = chain]
  /\ Goto(x, IF chain = 0 THEN "execute" ELSE "load")
  /\ UNCHANGED <<now, chain, nodeOf, err, drops, nodeError>>

\* getNodeError.
AroundNode(x) ==
  /\ pc[x] = "load"
  /\ LET e == nodeOf[loc[x].c]
     IN /\ loc' = [loc EXCEPT ![x].e = e]
        /\ Goto(x, IF e = 0 THEN "execute" ELSE "count")
  /\ UNCHANGED <<now, chain, nodeOf, err, drops, nodeError>>

\* Mutant: the limit is off by one.
AroundCountEarly(x) ==
  /\ pc[x] = "count"
  /\ Goto(x, IF err[loc[x].e].errorCount >= ErrorCountLimit - 1 THEN "time" ELSE "execute")
  /\ UNCHANGED <<now, chain, nodeOf, err, loc, drops, nodeError>>

\* nodeError.errorCount >= aspect.ErrorCountLimit
AroundCount(x) ==
  /\ pc[x] = "count"
  /\ Goto(x, IF err[loc[x].e].errorCount >= ErrorCountLimit THEN "time" ELSE "execute")
  /\ UNCHANGED <<now, chain, nodeOf, err, loc, drops, nodeError>>

\* More than LimitDuration has passed since the last error of the record.
Expired(x) == err[loc[x].e].lastErrorTime + LimitDuration < now

\* The record of the node is deleted, whichever it is by now.
AroundDelete(x) ==
  /\ pc[x] = "expired"
  /\ nodeOf' = [nodeOf EXCEPT ![loc[x].c] = 0]
  /\ drops' = drops + 1
  /\ Goto(x, "execute")
  /\ UNCHANGED <<now, chain, err, loc, nodeError>>

\* The limit is over.
AroundTime(x) ==
  /\ pc[x] = "time"
  /\ Expired(x)
  /\ Goto(x, "expired")
  /\ UNCHANGED <<now, chain, nodeOf, err, loc, drops, nodeError>>

\* The node is skipped: ctx.TellFailure, which runs After.
Skip(x) ==
  /\ pc[x] = "time"
  /\ ~Expired(x)
  /\ Goto(x, "after")
  /\ UNCHANGED <<now, chain, nodeOf, err, loc, drops, nodeError>>

\* The node runs and tells Failure or something else.
Execute(x) ==
  /\ pc[x] = "execute"
  /\ \/ Goto(x, "after") /\ loc' = [loc EXCEPT ![x].own = TRUE]
     \/ Goto(x, "succeeded") /\ UNCHANGED loc
  /\ UNCHANGED <<now, chain, nodeOf, err, drops, nodeError>>

-----------------------------------------------------------------------------
(* After, for Failure.                                                     *)

\* aspect.lock is held between two steps only by an execution that found the
\* record at its second look: it counts and stamps before it unlocks.
Locked == \E y \in Execs : pc[y] \in {"lockedAdd", "lockedStamp"}

\* getChainError.
AfterChain(x) ==
  /\ pc[x] = "after"
  /\ loc' = [loc EXCEPT ![x].c = chain]
  /\ Goto(x, IF chain = 0 THEN "newChain" ELSE "node")
  /\ UNCHANGED <<now, chain, nodeOf, err, drops, nodeError>>

\* Under the lock: the cache of the chain is made unless it is there by now.
AfterNewChain(x) ==
  /\ pc[x] = "newChain"
  /\ ~Locked
  /\ IF chain = 0
       THEN nodeOf' = [i \in 1..Cardinality(DOMAIN nodeOf) + 1 |->
                         IF i \in DOMAIN nodeOf THEN nodeOf[i] ELSE 0]
            /\ chain' = Cardinality(DOMAIN nodeOf) + 1
       ELSE UNCHANGED <<nodeOf, chain>>
  /\ loc' = [loc EXCEPT ![x].c = chain']
  /\ Goto(x, "node")
  /\ UNCHANGED <<now, err, drops, nodeError>>

\* getNodeError.
AfterNode(x) ==
  /\ pc[x] = "node"
  /\ LET e == nodeOf[loc[x].c]
     IN /\ loc' = [loc EXCEPT ![x].e = e]
        /\ Goto(x, IF e = 0 THEN "newNode" ELSE "add")
  /\ UNCHANGED <<now, chain, nodeOf, err, drops, nodeError>>

\* Mutant: the record is made without a second look.
AfterNewNodeBlind(x) ==
  /\ pc[x] = "newNode"
  /\ ~Locked
  /\ LET n == Cardinality(DOMAIN err) + 1
     IN /\ err' = [i \in 1..n |-> IF i < n THEN err[i]
                                   ELSE [errorCount |-> 1, lastErrorTime |-> now]]
        /\ nodeOf' = [nodeOf EXCEPT ![loc[x].c] = n]
  /\ nodeError' = IF loc[x].own THEN now ELSE nodeError
  /\ Goto(x, "recorded")
  /\ UNCHANGED <<now, chain, loc, drops>>

\* Under the lock: the record is made, with one error, unless it is there by now.
AfterNewNode(x) ==
  /\ pc[x] = "newNode"
  /\ ~Locked
  /\ LET e == nodeOf[loc[x].c]
         n == Cardinality(DOMAIN err) + 1
     IN IF e = 0
          THEN /\ err' = [i \in 1..n |-> IF i < n THEN err[i]
                                          ELSE [errorCount |-> 1, lastErrorTime |-> now]]
               /\ nodeOf' = [nodeOf EXCEPT ![loc[x].c] = n]
               /\ nodeError' = IF loc[x].own THEN now ELSE nodeError
               /\ Goto(x, "recorded")
               /\ UNCHANGED loc
          ELSE /\ loc' = [loc EXCEPT ![x].e = e]
               /\ Goto(x, "lockedAdd")
               /\ UNCHANGED <<err, nodeOf, nodeError>>
  /\ UNCHANGED <<now, chain, drops>>

\* atomic.AddInt64(&nodeError.errorCount, 1)
AfterAdd(x) ==
  /\ pc[x] \in {"add", "lockedAdd"}
  /\ err' = [err EXCEPT ![loc[x].e].errorCount = @ + 1]
  /\ Goto(x, IF pc[x] = "add" THEN "stamp" ELSE "lockedStamp")
  /\ UNCHANGED <<now, chain, nodeOf, loc, drops, nodeError>>

\* atomic.StoreInt64(&nodeError.lastErrorTime, now)
AfterStamp(x) ==
  /\ pc[x] \in {"stamp", "lockedStamp"}
  /\ err' = [err EXCEPT ![loc[x].e].lastErrorTime = now]
  /\ nodeError' = IF loc[x].own THEN now ELSE nodeError
  /\ Goto(x, "recorded")
  /\ UNCHANGED <<now, chain, nodeOf, loc, drops>>

-----------------------------------------------------------------------------
\* OnReload of the chain, and OnDestroy.
DropChain ==
  /\ drops < MaxDrops /\ chain # 0
  /\ chain' = 0
  /\ drops' = drops + 1
  /\ UNCHANGED <<now, nodeOf, err, pc, loc, nodeError>>

\* OnReload of the node.
DropNode ==
  /\ drops < MaxDrops /\ chain # 0
  /\ nodeOf' = [nodeOf EXCEPT ![chain] = 0]
  /\ drops' = drops + 1
  /\ UNCHANGED <<now, chain, err, pc, loc, nodeError>>

Around(x) ==
  \/ AroundChain(x) \/ AroundNode(x) \/ AroundCount(x) \/ AroundTime(x)
  \/ AroundDelete(x) \/ Skip(x)

After(x) ==
  \/ AfterChain(x) \/ AfterNewChain(x) \/ AfterNode(x) \/ AfterNewNode(x)
  \/ AfterAdd(x) \/ AfterStamp(x)

Next ==
  \/ Tick \/ DropChain \/ DropNode
  \/ \E x \in Execs : Around(x) \/ Execute(x) \/ After(x)

Spec == Init /\ [][Next]_vars
-----------------------------------------------------------------------------
\* Types of the variables.
TypeOK ==
  /\ now \in 0..MaxTime /\ nodeError \in 0..MaxTime
  /\ drops \in Nat
  /\ chain \in {0} \cup DOMAIN nodeOf
  /\ nodeOf \in [DOMAIN nodeOf -> {0} \cup DOMAIN err]
  /\ err \in [DOMAIN err -> [errorCount : 1..Cardinality(Execs), lastErrorTime : 0..MaxTime]]
  /\ pc \in [Execs -> {"around", "load", "count", "time", "expired", "execute", "succeeded", "after",
                       "newChain", "node", "newNode", "add", "lockedAdd", "stamp", "lockedStamp",
                       "recorded"}]
  /\ loc \in [Execs -> [c : {0} \cup DOMAIN nodeOf, e : {0} \cup DOMAIN err, own : BOOLEAN]]

Counted == {x \in Execs : pc[x] \in {"stamp", "lockedStamp", "recorded"}}

(***************************************************************************)
(* Every failure is counted exactly once, also when the first failures of  *)
(* a node come together and each finds no record: as long as no record was *)
(* dropped, the count in the cache is the number of After advices that     *)
(* have counted (After, the two checks under the lock).                    *)
(***************************************************************************)
CountsEveryFailure ==
  drops = 0 =>
    Cardinality(Counted) =
      IF chain = 0 \/ nodeOf[chain] = 0 THEN 0 ELSE err[nodeOf[chain]].errorCount

\* The node is skipped only after it has failed, or was skipped, ErrorCountLimit
\* times, whatever records are dropped and re-created meanwhile (Around).
SkipIsEarned ==
  [][\A x \in Execs : Skip(x) => Cardinality(Counted) >= ErrorCountLimit]_vars

(***************************************************************************)
(* What the aspect documents (skip_fallback_aspect.go:44): a node whose    *)
(* LimitDuration is over is executed again.  Skipping it does not run it,  *)
(* so a skip comes at most LimitDuration after an own failure of the node. *)
(***************************************************************************)
SkipEnds ==
  [][\A x \in Execs : Skip(x) => now - nodeError <= LimitDuration]_vars
=============================================================================
