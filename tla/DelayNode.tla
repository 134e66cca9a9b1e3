------------------------------ MODULE DelayNode ------------------------------
(***************************************************************************)
(* The delay node of components/action/delay_node.go: OnMsg for messages   *)
(* that arrive concurrently, the timers of TellSelf that bring each one    *)
(* back as an acknowledgement, and a reload, which replaces the node under *)
(* the timers that are running.                                            *)
(***************************************************************************)
EXTENDS Integers, FiniteSets

CONSTANTS
  Msgs,            \* arrivals of messages at the node
  Ids, IdOf,       \* their ids: copies of a message share its id
  MaxPendingMsgs,
  Overwrites,      \* the values Overwrite may have
  MaxReloads,      \* bound on the number of reloads
  None             \* no id, no message; the id ""

ASSUME DelayAssumption ==
  /\ IdOf \in [Msgs -> Ids]
  /\ MaxPendingMsgs \in Int /\ MaxReloads \in Nat
  /\ Overwrites \subseteq BOOLEAN
  /\ None \notin Msgs /\ None \notin Ids

VARIABLES
  Overwrite,           \* of the configuration
  gen,                 \* number of the node that RuleNodeCtx holds
  PendingMsgs, LastPendingMsgId,   \* of each node
  pc,                  \* where the handling of each message is
  at,                  \* the node that handles the message
  out                  \* what the context of a message has told

vars == <<Overwrite, gen, PendingMsgs, LastPendingMsgId, pc, at, out>>

Gens == 0..MaxReloads

\* Init of the node.
Limit == IF MaxPendingMsgs <= 0 THEN 1000 ELSE MaxPendingMsgs

Init ==
  /\ Overwrite \in Overwrites
  /\ gen = 0
  /\ PendingMsgs = [g \in Gens |-> [k \in Ids \cup {None} |-> None]]
  /\ LastPendingMsgId = [g \in Gens |-> None]
  /\ pc = [m \in Msgs |-> "new"]
  /\ at = [m \in Msgs |-> 0]
  /\ out = [m \in Msgs |-> None]

Pending(g) == {k \in Ids \cup {None} : PendingMsgs[g][k] # None}

\* OnMsg reads LastPendingMsgId.
OnMsg(m) ==
  /\ pc[m] = "new"
  /\ at' = [at EXCEPT ![m] = gen]
  /\ pc' = [pc EXCEPT ![m] = IF LastPendingMsgId[gen] # None THEN "overwrite" ELSE "length"]
  /\ UNCHANGED <<Overwrite, gen, PendingMsgs, LastPendingMsgId, out>>

\* The pending message is replaced, under the id that is the last one by now.
\* The context of the new message never tells.
Replace(m) ==
  /\ pc[m] = "overwrite"
  /\ PendingMsgs' = [PendingMsgs EXCEPT ![at[m]][LastPendingMsgId[at[m]]] = m]
  /\ pc' = [pc EXCEPT ![m] = "absorbed"]
  /\ UNCHANGED <<Overwrite, gen, LastPendingMsgId, at, out>>

\* len(x.PendingMsgs), between Lock and Unlock.  Over the limit, or with a delay
\* that cannot be read from the metadata, the message goes to Failure.
Length(m) ==
  /\ pc[m] = "length"
  /\ \/ /\ Cardinality(Pending(at[m])) < Limit
        /\ pc' = [pc EXCEPT ![m] = IF Overwrite THEN "last" ELSE "insert"]
     \/ pc' = [pc EXCEPT ![m] = "failed"]
  /\ UNCHANGED <<Overwrite, gen, PendingMsgs, LastPendingMsgId, at, out>>

\* x.LastPendingMsgId.Store(msg.Id), outside the lock.
SetLast(m) ==
  /\ pc[m] = "last"
  /\ LastPendingMsgId' = [LastPendingMsgId EXCEPT ![at[m]] = IdOf[m]]
  /\ pc' = [pc EXCEPT ![m] = "insert"]
  /\ UNCHANGED <<Overwrite, gen, PendingMsgs, at, out>>

\* The message is stored and TellSelf starts its timer.
Insert(m) ==
  /\ pc[m] = "insert"
  /\ PendingMsgs' = [PendingMsgs EXCEPT ![at[m]][IdOf[m]] = m]
  /\ pc' = [pc EXCEPT ![m] = "delayed"]
  /\ UNCHANGED <<Overwrite, gen, LastPendingMsgId, at, out>>

\* Mutant: the message is not deleted from the queue.
AckKeeps(m) ==
  /\ pc[m] = "delayed"
  /\ out' = [out EXCEPT ![m] = PendingMsgs[gen][IdOf[m]]]
  /\ pc' = [pc EXCEPT ![m] = IF out'[m] = None THEN "notFound" ELSE "succeeded"]
  /\ UNCHANGED <<Overwrite, gen, PendingMsgs, LastPendingMsgId, at>>

\* Mutant: LastPendingMsgId is not cleared.
AckKeepsLast(m) ==
  /\ pc[m] = "delayed"
  /\ out' = [out EXCEPT ![m] = PendingMsgs[gen][IdOf[m]]]
  /\ pc' = [pc EXCEPT ![m] = IF out'[m] = None THEN "notFound" ELSE "succeeded"]
  /\ PendingMsgs' = [PendingMsgs EXCEPT ![gen][IdOf[m]] = None]
  /\ UNCHANGED <<Overwrite, gen, LastPendingMsgId, at>>

\* Mutant: an acknowledgement without message is ignored.
AckSilent(m) ==
  /\ pc[m] = "delayed"
  /\ PendingMsgs[gen][IdOf[m]] # None
  /\ out' = [out EXCEPT ![m] = PendingMsgs[gen][IdOf[m]]]
  /\ pc' = [pc EXCEPT ![m] = "succeeded"]
  /\ PendingMsgs' = [PendingMsgs EXCEPT ![gen][IdOf[m]] = None]
  /\ LastPendingMsgId' =
       IF Overwrite THEN [LastPendingMsgId EXCEPT ![gen] = None] ELSE LastPendingMsgId
  /\ UNCHANGED <<Overwrite, gen, at>>

\* The timer of m: ctx.self.OnMsg with the acknowledgement, on the node that
\* RuleNodeCtx holds by now.
Ack(m) ==
  /\ pc[m] = "delayed"
  /\ LET p == PendingMsgs[gen][IdOf[m]]
     IN IF p # None
          THEN /\ LastPendingMsgId' =
                    IF Overwrite THEN [LastPendingMsgId EXCEPT ![gen] = None]
                    ELSE LastPendingMsgId
               /\ PendingMsgs' = [PendingMsgs EXCEPT ![gen][IdOf[m]] = None]
               /\ out' = [out EXCEPT ![m] = p]
               /\ pc' = [pc EXCEPT ![m] = "succeeded"]
          ELSE /\ pc' = [pc EXCEPT ![m] = "notFound"]
               /\ UNCHANGED <<PendingMsgs, LastPendingMsgId, out>>
  /\ UNCHANGED <<Overwrite, gen, at>>

\* RuleNodeCtx.ReloadSelf: a new node takes the place of the old one.
ReloadSelf ==
  /\ gen < MaxReloads
  /\ gen' = gen + 1
  /\ UNCHANGED <<Overwrite, PendingMsgs, LastPendingMsgId, pc, at, out>>

Handle(m) == Replace(m) \/ Length(m) \/ SetLast(m) \/ Insert(m) \/ Ack(m)

Next == (\E m \in Msgs : OnMsg(m) \/ Handle(m)) \/ ReloadSelf

Spec == Init /\ [][Next]_vars

\* Handlers that have started go on, and timers fire.
FairSpec == Spec /\ \A m \in Msgs : WF_vars(Handle(m))
-----------------------------------------------------------------------------
\* Types of the variables.
TypeOK ==
  /\ Overwrite \in BOOLEAN
  /\ gen \in Gens
  /\ PendingMsgs \in [Gens -> [Ids \cup {None} -> Msgs \cup {None}]]
  /\ LastPendingMsgId \in [Gens -> Ids \cup {None}]
  /\ pc \in [Msgs -> {"new", "overwrite", "length", "last", "insert", "delayed",
                      "absorbed", "failed", "succeeded", "notFound"}]
  /\ at \in [Msgs -> Gens]
  /\ out \in [Msgs -> Msgs \cup {None}]

\* The timers that will look for id k in node g if no reload comes before.
Timers(g, k) == {m \in Msgs : pc[m] = "delayed" /\ IdOf[m] = k /\ at[m] = g}

(***************************************************************************)
(* Without overwrite the queue and the timers agree (Insert and Ack): the  *)
(* message of every running timer of the node is in its queue, unharmed,   *)
(* and every queued message has a timer that will take it out.  So no      *)
(* acknowledgement misses its message and no message is left behind.       *)
(***************************************************************************)
QueueMatchesTimers ==
  ~Overwrite =>
  /\ \A m \in Msgs : pc[m] = "delayed" => PendingMsgs[at[m]][IdOf[m]] = m
  /\ \A k \in Pending(gen) : Timers(gen, k) # {}

(***************************************************************************)
(* With overwrite a message that entered the queue is not lost without a   *)
(* trace, as long as the node is not reloaded: under each id a timer will  *)
(* come for the message, or its handler is about to start one, or it is    *)
(* stored under the empty id (see KeptUnderAnId).                          *)
(***************************************************************************)
TimerForEach ==
  \A k \in Pending(gen) \ {None} :
    \/ Timers(gen, k) # {}
    \/ \E m \in Msgs : pc[m] = "insert" /\ IdOf[m] = k /\ at[m] = gen

(***************************************************************************)
(* Every context tells in the end, except those whose message was          *)
(* absorbed by overwriting: after a reload too, when the timer finds an    *)
(* empty queue (Ack).                                                      *)
(***************************************************************************)
EveryMessageEnds ==
  \A m \in Msgs : pc[m] # "new" ~> pc[m] \in {"absorbed", "failed", "succeeded", "notFound"}

\* What the configuration says of MaxPendingMsgs: the most messages that may be
\* pending (delay_node.go:52).
PendingWithinLimit == Cardinality(Pending(gen)) <= Limit

\* What the configuration says of Overwrite: one message is kept per period
\* (delay_node.go:56).
OneKept == Overwrite => Cardinality(Pending(gen)) <= 1

\* What the node documents: the queue is emptied by the timers of its messages
\* (delay_node.go:62), so no message is kept under the empty id, for which no
\* timer comes.
KeptUnderAnId == None \notin Pending(gen)

\* What the node documents: a message whose delay is over goes on with Success
\* (delay_node.go:62).
DelayedSucceeds == \A m \in Msgs : pc[m] # "notFound"
=============================================================================
