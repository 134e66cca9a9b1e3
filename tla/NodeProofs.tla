----------------------------- MODULE NodeProofs -----------------------------
(***************************************************************************)
(* Proofs about two nodes and about what surrounds a node, for any number  *)
(* of messages and executions: the delay node (the module that is          *)
(* extended), the JavaScript engine of the script nodes (Js) and the       *)
(* skip-fallback aspect (Aspect).  Each theorem is about the specification *)
(* of one of them; a variable that two modules name alike is one name      *)
(* here, and no theorem relates the modules.                               *)
(***************************************************************************)
EXTENDS DelayNode, TLAPS
-----------------------------------------------------------------------------
(* DelayNode: which message of the queue has a timer that will take it     *)
(* out.                                                                    *)

\* The handlers that will start a timer for id k of node g.
Inserting(g, k) == {m \in Msgs : pc[m] = "insert" /\ IdOf[m] = k /\ at[m] = g}

\* No message is at a node that does not exist yet.
Unborn ==
  /\ \A g \in Gens : g > gen =>
       LastPendingMsgId[g] = None /\ \A k \in Ids \cup {None} : PendingMsgs[g][k] = None
  /\ \A m \in Msgs : at[m] <= gen

\* Without Overwrite nothing is known as the last pending message, so no handler is on
\* the way that replaces it, and nothing is stored under the empty id.
NeverLast ==
  ~Overwrite =>
    /\ \A g \in Gens : LastPendingMsgId[g] = None /\ PendingMsgs[g][None] = None
    /\ \A m \in Msgs : pc[m] \notin {"overwrite", "last"}

\* A message in the queue has a timer; with Overwrite the handler that has announced the
\* id may be still to start it.
Kept ==
  \A k \in Ids : PendingMsgs[gen][k] # None =>
    \/ Timers(gen, k) # {}
    \/ Overwrite /\ Inserting(gen, k) # {}

\* What OnMsg relies on when it replaces the last pending message: the id is that of a
\* message that has a timer, or of a handler that will start one.  An acknowledgement
\* that finds no message leaves the id alone, so the message has to be there.
LastHasTimer ==
  \A k \in Ids : LastPendingMsgId[gen] = k =>
    \/ Inserting(gen, k) # {}
    \/ PendingMsgs[gen][k] # None /\ Timers(gen, k) # {}

QueueInv == TypeOK /\ Unborn /\ NeverLast /\ Kept /\ LastHasTimer

\* With ids of their own no timer takes the message of another one.
OwnMessage ==
  ~Overwrite => \A m \in Msgs : pc[m] = "delayed" => PendingMsgs[at[m]][IdOf[m]] = m
-----------------------------------------------------------------------------
\* Every step is well typed.
LEMMA TypeStep ==
  ASSUME TypeOK, [Next]_vars
  PROVE  TypeOK'
<1> USE DelayAssumption DEF TypeOK
<1>1. ASSUME NEW m \in Msgs, OnMsg(m) PROVE TypeOK'
  BY <1>1, Zenon DEF OnMsg
<1>2. ASSUME NEW m \in Msgs, Replace(m) PROVE TypeOK'
  BY <1>2, Zenon DEF Replace
<1>3. ASSUME NEW m \in Msgs, Length(m) PROVE TypeOK'
  BY <1>3, Zenon DEF Length
<1>4. ASSUME NEW m \in Msgs, SetLast(m) PROVE TypeOK'
  BY <1>4, Zenon DEF SetLast
<1>5. ASSUME NEW m \in Msgs, Insert(m) PROVE TypeOK'
  BY <1>5, Zenon DEF Insert
<1>6. ASSUME NEW m \in Msgs, Ack(m) PROVE TypeOK'
  <2>1. CASE PendingMsgs[gen][IdOf[m]] # None
    <3>1. LastPendingMsgId' \in [Gens -> Ids \cup {None}]
      BY <1>6, <2>1, SMTT(30) DEF Ack
    <3>2. PendingMsgs' \in [Gens -> [Ids \cup {None} -> Msgs \cup {None}]]
      <4>1. PendingMsgs' = [PendingMsgs EXCEPT ![gen][IdOf[m]] = None]
        BY <1>6, <2>1 DEF Ack
      <4> QED
        BY <4>1, Zenon
    <3>3. pc' \in [Msgs -> {"new", "overwrite", "length", "last", "insert", "delayed",
                            "absorbed", "failed", "succeeded", "notFound"}]
      BY <1>6, <2>1 DEF Ack
    <3>4. out' \in [Msgs -> Msgs \cup {None}]
      BY <1>6, <2>1 DEF Ack
    <3> QED
      BY <1>6, <3>1, <3>2, <3>3, <3>4, Zenon DEF Ack
  <2>2. CASE PendingMsgs[gen][IdOf[m]] = None
    BY <1>6, <2>2, Zenon DEF Ack
  <2> QED
    BY <2>1, <2>2, Zenon
<1>7. ASSUME ReloadSelf PROVE TypeOK'
  <2>1. gen' \in Gens
    BY <1>7 DEF ReloadSelf, Gens
  <2> QED
    BY <1>7, <2>1, Zenon DEF ReloadSelf
<1> QED
  BY <1>1, <1>2, <1>3, <1>4, <1>5, <1>6, <1>7, Zenon DEF Next, Handle, vars

\* Nodes that do not exist yet stay empty in every step.
LEMMA UnbornStep ==
  ASSUME TypeOK, Unborn, [Next]_vars
  PROVE  Unborn'
<1> USE DelayAssumption DEF TypeOK, Unborn, Gens
<1>1. ASSUME NEW m \in Msgs, OnMsg(m) PROVE Unborn'
  BY <1>1 DEF OnMsg
<1>2. ASSUME NEW m \in Msgs, Replace(m) PROVE Unborn'
  BY <1>2 DEF Replace
<1>3. ASSUME NEW m \in Msgs, Length(m) PROVE Unborn'
  BY <1>3 DEF Length
<1>4. ASSUME NEW m \in Msgs, SetLast(m) PROVE Unborn'
  BY <1>4 DEF SetLast
<1>5. ASSUME NEW m \in Msgs, Insert(m) PROVE Unborn'
  BY <1>5 DEF Insert
<1>6. ASSUME NEW m \in Msgs, Ack(m) PROVE Unborn'
  BY <1>6 DEF Ack
<1>7. ASSUME ReloadSelf PROVE Unborn'
  BY <1>7 DEF ReloadSelf
<1> QED
  BY <1>1, <1>2, <1>3, <1>4, <1>5, <1>6, <1>7 DEF Next, Handle, vars

\* Without Overwrite no step makes a message the last pending one.
LEMMA NeverLastStep ==
  ASSUME TypeOK, NeverLast, [Next]_vars
  PROVE  NeverLast'
<1> USE DelayAssumption DEF TypeOK, NeverLast
<1>1. ASSUME NEW m \in Msgs, OnMsg(m) PROVE NeverLast'
  BY <1>1 DEF OnMsg
<1>2. ASSUME NEW m \in Msgs, Replace(m) PROVE NeverLast'
  BY <1>2 DEF Replace
<1>3. ASSUME NEW m \in Msgs, Length(m) PROVE NeverLast'
  BY <1>3 DEF Length
<1>4. ASSUME NEW m \in Msgs, SetLast(m) PROVE NeverLast'
  BY <1>4 DEF SetLast
<1>5. ASSUME NEW m \in Msgs, Insert(m) PROVE NeverLast'
  BY <1>5 DEF Insert
<1>6. ASSUME NEW m \in Msgs, Ack(m) PROVE NeverLast'
  BY <1>6 DEF Ack
<1>7. ASSUME ReloadSelf PROVE NeverLast'
  BY <1>7 DEF ReloadSelf
<1> QED
  BY <1>1, <1>2, <1>3, <1>4, <1>5, <1>6, <1>7 DEF Next, Handle, vars

\* Every step leaves the messages of the queue their timers.
LEMMA KeptStep ==
  ASSUME QueueInv, [Next]_vars
  PROVE  Kept' /\ LastHasTimer'
<1> USE DelayAssumption DEF QueueInv, TypeOK, Kept, LastHasTimer, Timers, Inserting
<1>1. ASSUME NEW m \in Msgs, OnMsg(m) PROVE Kept' /\ LastHasTimer'
  BY <1>1 DEF OnMsg
<1>2. ASSUME NEW m \in Msgs, Replace(m) PROVE Kept' /\ LastHasTimer'
  BY <1>2 DEF Replace, NeverLast
<1>3. ASSUME NEW m \in Msgs, Length(m) PROVE Kept' /\ LastHasTimer'
  BY <1>3 DEF Length, NeverLast
<1>4. ASSUME NEW m \in Msgs, SetLast(m) PROVE Kept' /\ LastHasTimer'
  BY <1>4 DEF SetLast, NeverLast
<1>5. ASSUME NEW m \in Msgs, Insert(m) PROVE Kept' /\ LastHasTimer'
  BY <1>5 DEF Insert, NeverLast
<1>6. ASSUME NEW m \in Msgs, Ack(m) PROVE Kept' /\ LastHasTimer'
  <2>1. CASE PendingMsgs[gen][IdOf[m]] # None
    <3>0. gen' = gen /\ Overwrite' = Overwrite
      BY <1>6 DEF Ack
    <3>1. LastPendingMsgId'[gen] = None
      BY <1>6, <2>1 DEF Ack, NeverLast
    <3>2. PendingMsgs'[gen][IdOf[m]] = None
      BY <1>6, <2>1 DEF Ack
    <3>3. ASSUME NEW k \in Ids, PendingMsgs'[gen][k] # None
          PROVE  Timers(gen, k)' # {} \/ (Overwrite /\ Inserting(gen, k)' # {})
      <4>1. k # IdOf[m]
        BY <3>2, <3>3
      <4>2. PendingMsgs[gen][k] # None
        BY <1>6, <2>1, <3>3, <4>1 DEF Ack
      <4>3. \A n \in Msgs : IdOf[n] = k => pc'[n] = pc[n] /\ at'[n] = at[n]
        BY <1>6, <2>1, <4>1 DEF Ack
      <4>4. Timers(gen, k) \subseteq Timers(gen, k)' /\ Inserting(gen, k) \subseteq Inserting(gen, k)'
        BY <3>0, <4>3
      <4> HIDE DEF Timers, Inserting, TypeOK, LastHasTimer
      <4>5. Timers(gen, k) # {} \/ (Overwrite /\ Inserting(gen, k) # {})
        BY <4>2
      <4> QED
        BY <4>4, <4>5
    <3> QED
      BY <3>0, <3>1, <3>3
  <2>2. CASE PendingMsgs[gen][IdOf[m]] = None
    <3>1. /\ gen' = gen /\ Overwrite' = Overwrite
          /\ PendingMsgs' = PendingMsgs /\ LastPendingMsgId' = LastPendingMsgId
          /\ at' = at
      BY <1>6, <2>2 DEF Ack
    <3>2. \A n \in Msgs : n # m => pc'[n] = pc[n]
      BY <1>6, <2>2 DEF Ack
    <3>3. pc[m] = "delayed"
      BY <1>6 DEF Ack
    <3>4. \A k \in Ids : Inserting(gen, k) \subseteq Inserting(gen, k)'
      BY <3>1, <3>2, <3>3
    <3>5. \A k \in Ids : k # IdOf[m] => Timers(gen, k) \subseteq Timers(gen, k)'
      BY <3>1, <3>2
    <3>6. Kept'
      BY <2>2, <3>1, <3>4, <3>5
    <3>7. LastHasTimer'
      BY <2>2, <3>1, <3>4, <3>5
    <3> QED
      BY <3>6, <3>7
  <2> QED
    BY <2>1, <2>2
<1>7. ASSUME ReloadSelf PROVE Kept' /\ LastHasTimer'
  BY <1>7 DEF ReloadSelf, Unborn, Gens
<1> QED
  BY <1>1, <1>2, <1>3, <1>4, <1>5, <1>6, <1>7 DEF Next, Handle, vars

\* The invariant of the queue holds throughout.
LEMMA QueueInvariant == Spec => []QueueInv
<1>1. Init => QueueInv
  BY DelayAssumption DEF Init, QueueInv, TypeOK, Unborn, NeverLast, Kept, LastHasTimer, Gens
<1>2. QueueInv /\ [Next]_vars => QueueInv'
  BY TypeStep, UnbornStep, NeverLastStep, KeptStep DEF QueueInv
<1> QED
  BY <1>1, <1>2, PTL DEF Spec

(***************************************************************************)
(* With or without Overwrite, and whether or not messages share an id: a   *)
(* message under an id of the queue of the running node has a timer that   *)
(* will come for it, or a handler that is about to start one.              *)
(***************************************************************************)
THEOREM QueuedHasTimer == Spec => []TimerForEach
<1>1. QueueInv => TimerForEach
  BY DEF QueueInv, TypeOK, Kept, TimerForEach, Pending, Inserting, Timers
<1> QED
  BY <1>1, QueueInvariant, PTL

(***************************************************************************)
(* Without Overwrite, if no two messages that arrive share an id: the      *)
(* timers of the node and the messages of its queue match exactly.         *)
(***************************************************************************)
THEOREM QueueIsExact ==
  ASSUME \A m, n \in Msgs : IdOf[m] = IdOf[n] => m = n
  PROVE  Spec => []QueueMatchesTimers
<1>1. Init => OwnMessage
  BY DEF Init, OwnMessage
<1>2. ASSUME QueueInv, OwnMessage, [Next]_vars
      PROVE  OwnMessage'
  <2> USE DelayAssumption DEF QueueInv, TypeOK, NeverLast, OwnMessage
  <2>1. ASSUME NEW m \in Msgs, OnMsg(m) PROVE OwnMessage'
    BY <1>2, <2>1 DEF OnMsg
  <2>2. ASSUME NEW m \in Msgs, Replace(m) PROVE OwnMessage'
    BY <1>2, <2>2 DEF Replace
  <2>3. ASSUME NEW m \in Msgs, Length(m) PROVE OwnMessage'
    BY <1>2, <2>3 DEF Length
  <2>4. ASSUME NEW m \in Msgs, SetLast(m) PROVE OwnMessage'
    BY <1>2, <2>4 DEF SetLast
  <2>5. ASSUME NEW m \in Msgs, Insert(m) PROVE OwnMessage'
    BY <1>2, <2>5 DEF Insert
  <2>6. ASSUME NEW m \in Msgs, Ack(m) PROVE OwnMessage'
    <3>1. /\ \A n \in Msgs : n # m => pc'[n] = pc[n]
          /\ pc'[m] # "delayed" /\ at' = at /\ Overwrite' = Overwrite
      BY <1>2, <2>6 DEF Ack
    <3>2. \/ PendingMsgs' = [PendingMsgs EXCEPT ![gen][IdOf[m]] = None]
          \/ PendingMsgs' = PendingMsgs
      BY <2>6 DEF Ack
    <3>3. ASSUME NEW g \in Gens, NEW n \in Msgs, n # m
          PROVE  PendingMsgs'[g][IdOf[n]] = PendingMsgs[g][IdOf[n]]
      <4>1. IdOf[n] # IdOf[m]
        BY <3>3
      <4> QED
        BY <1>2, <3>2, <4>1
    <3>4. ASSUME ~Overwrite', NEW n \in Msgs, pc'[n] = "delayed"
          PROVE  PendingMsgs'[at'[n]][IdOf[n]] = n
      <4>1. n # m /\ pc[n] = "delayed" /\ ~Overwrite /\ at[n] \in Gens
        BY <1>2, <3>1, <3>4
      <4>2. PendingMsgs[at[n]][IdOf[n]] = n
        BY <1>2, <4>1
      <4> QED
        BY <3>1, <3>3, <4>1, <4>2
    <3> QED
      BY <3>4
  <2>7. ASSUME ReloadSelf PROVE OwnMessage'
    BY <1>2, <2>7 DEF ReloadSelf
  <2> QED
    BY <1>2, <2>1, <2>2, <2>3, <2>4, <2>5, <2>6, <2>7 DEF Next, Handle, vars
<1>3. QueueInv /\ OwnMessage => QueueMatchesTimers
  BY DEF QueueInv, TypeOK, NeverLast, Kept, OwnMessage, QueueMatchesTimers, Pending, Timers
<1> QED
  BY <1>1, <1>2, <1>3, QueueInvariant, PTL DEF Spec
-----------------------------------------------------------------------------
(* JsEngine: the VMs are never shared, and a timer that has received the 0 *)
(* is the only one to decide.                                              *)
CONSTANT Execs
VARIABLES pool, flagged, phase, vm, state, closed, timer

Js == INSTANCE JsEngine

(***************************************************************************)
(* OneUser is inductive with the fact that a VM does not exist before the  *)
(* execution that makes it runs: nobody has the VM of an idle execution.   *)
(***************************************************************************)
NotMadeYet ==
  \A e \in Execs : pc[e] = "idle" =>
    /\ vm[e] = e
    /\ e \notin pool
    /\ \A f \in Execs \ {e} : vm[f] # e

VmInv == Js!TypeOK /\ NotMadeYet /\ Js!OneUser

\* A timer that setTimeout has not made yet.
Fresh(t) == state[t] = <<>> /\ timer[t] = "off" /\ t \notin closed

(***************************************************************************)
(* Who holds the one token of a state channel.  The 0 is in the channel of *)
(* an armed timer, or the execution has received it (mark), or the timer   *)
(* has (took); a 1 follows the first and a 2 the second, and the channel   *)
(* is closed after that.                                                   *)
(***************************************************************************)
Token(t) ==
  LET e == t[1]
      here == Js!T(e) = t
  IN
  /\ pc[e] = "idle" => Fresh(t)
  /\ pc[e] = "arm" /\ here => Fresh(t)
  /\ phase[e] = "new" /\ t[2] = "call" => Fresh(t)
  /\ pc[e] \in {"run", "close", "mark", "shut"} /\ here => t \notin closed
  /\ timer[t] = "armed" => state[t] \in
       IF t \in closed THEN {<<1>>} ELSE IF pc[e] = "mark" /\ here THEN {<<>>} ELSE {<<0>>}
  /\ timer[t] = "took" =>
       /\ state[t] = <<>> /\ t \notin closed
       /\ ~(pc[e] \in {"mark", "shut"} /\ here)
  /\ state[t] = <<0>> => timer[t] = "armed" /\ t \notin closed
  /\ state[t] = <<1>> => t \in closed
  /\ state[t] = <<2>> => timer[t] \in {"claimed", "off"}
  /\ pc[e] = "mark" /\ here => timer[t] = "armed"
  /\ pc[e] = "shut" /\ here => state[t] = <<>> /\ timer[t] \in {"claimed", "off"}

TokenInv == Js!TypeOK /\ \A t \in Js!Timers : Token(t)
-----------------------------------------------------------------------------
\* A timer is an execution and a phase.
LEMMA TimerParts ==
  ASSUME NEW t \in Js!Timers
  PROVE  t[1] \in Execs /\ t[2] \in {"new", "call"} /\ t = <<t[1], t[2]>>
BY DEF Js!Timers

\* The timer that an execution is at.
LEMMA TimerOfExec ==
  ASSUME Js!TypeOK, NEW e \in Execs
  PROVE  Js!T(e) \in Js!Timers /\ Js!T(e)[1] = e /\ Js!T(e)[2] = phase[e]
BY DEF Js!TypeOK, Js!Timers, Js!T

\* Every step of an execution or of a timer is well typed.
LEMMA JsTypeStep ==
  ASSUME Js!TypeOK, [Js!Next]_Js!vars
  PROVE  Js!TypeOK'
<1>1. ASSUME NEW e \in Execs, Js!Get(e) PROVE Js!TypeOK'
  BY <1>1 DEF Js!Get, Js!Goto, Js!TypeOK
<1>2. ASSUME NEW e \in Execs, Js!SetTimeout(e) PROVE Js!TypeOK'
  BY <1>2, TimerOfExec DEF Js!SetTimeout, Js!Goto, Js!TypeOK
<1>3. ASSUME NEW e \in Execs, Js!RunInterrupted(e) PROVE Js!TypeOK'
  BY <1>3 DEF Js!RunInterrupted, Js!Goto, Js!TypeOK
<1>4. ASSUME NEW e \in Execs, Js!CloseReceive(e) PROVE Js!TypeOK'
  BY <1>4, TimerOfExec DEF Js!CloseReceive, Js!Goto, Js!TypeOK
<1>5. ASSUME NEW e \in Execs, Js!CloseChan(e) PROVE Js!TypeOK'
  BY <1>5, TimerOfExec DEF Js!CloseChan, Js!Goto, Js!TypeOK
<1>6. ASSUME NEW e \in Execs, Js!Put(e) PROVE Js!TypeOK'
  BY <1>6 DEF Js!Put, Js!Goto, Js!TypeOK
<1>7. ASSUME NEW e \in Execs, Js!RunEnds(e) PROVE Js!TypeOK'
  BY <1>7 DEF Js!RunEnds, Js!Goto, Js!TypeOK
<1>8. ASSUME NEW e \in Execs, Js!Abandon(e) PROVE Js!TypeOK'
  BY <1>8 DEF Js!Abandon, Js!Goto, Js!TypeOK
<1>9. ASSUME NEW t \in Js!Timers, Js!Fire(t) PROVE Js!TypeOK'
  BY <1>9 DEF Js!Fire, Js!TypeOK
<1>10. ASSUME NEW t \in Js!Timers, Js!Claim(t) PROVE Js!TypeOK'
  BY <1>10 DEF Js!Claim, Js!TypeOK
<1>11. ASSUME NEW t \in Js!Timers, Js!Interrupt(t) PROVE Js!TypeOK'
  BY <1>11, TimerParts DEF Js!Interrupt, Js!TypeOK
<1> QED
  BY <1>1, <1>2, <1>3, <1>4, <1>5, <1>6, <1>7, <1>8, <1>9, <1>10, <1>11 DEF Js!Next, Js!Exec, Js!Time, Js!TypeOK, Js!vars

\* The VMs stay apart in every step.
LEMMA VmStep ==
  ASSUME VmInv, [Js!Next]_Js!vars
  PROVE  VmInv'
<1> USE DEF VmInv
<1>0. Js!TypeOK'
  BY JsTypeStep
<1>1. ASSUME NEW e \in Execs, Js!Get(e) PROVE NotMadeYet' /\ Js!OneUser'
  BY <1>1 DEF Js!Get, Js!Goto, Js!TypeOK, NotMadeYet, Js!OneUser, Js!Using
<1>2. ASSUME NEW e \in Execs, Js!SetTimeout(e) PROVE NotMadeYet' /\ Js!OneUser'
  BY <1>2 DEF Js!SetTimeout, Js!Goto, Js!TypeOK, NotMadeYet, Js!OneUser, Js!Using
<1>3. ASSUME NEW e \in Execs, Js!RunInterrupted(e) PROVE NotMadeYet' /\ Js!OneUser'
  BY <1>3 DEF Js!RunInterrupted, Js!Goto, Js!TypeOK, NotMadeYet, Js!OneUser, Js!Using
<1>4. ASSUME NEW e \in Execs, Js!CloseReceive(e) PROVE NotMadeYet' /\ Js!OneUser'
  BY <1>4 DEF Js!CloseReceive, Js!Goto, Js!TypeOK, NotMadeYet, Js!OneUser, Js!Using
<1>5. ASSUME NEW e \in Execs, Js!CloseChan(e) PROVE NotMadeYet' /\ Js!OneUser'
  BY <1>5 DEF Js!CloseChan, Js!Goto, Js!TypeOK, NotMadeYet, Js!OneUser, Js!Using
<1>6. ASSUME NEW e \in Execs, Js!Put(e) PROVE NotMadeYet' /\ Js!OneUser'
  BY <1>6 DEF Js!Put, Js!Goto, Js!TypeOK, NotMadeYet, Js!OneUser, Js!Using
<1>7. ASSUME NEW e \in Execs, Js!RunEnds(e) PROVE NotMadeYet' /\ Js!OneUser'
  BY <1>7 DEF Js!RunEnds, Js!Goto, Js!TypeOK, NotMadeYet, Js!OneUser, Js!Using
<1>8. ASSUME NEW e \in Execs, Js!Abandon(e) PROVE NotMadeYet' /\ Js!OneUser'
  BY <1>8 DEF Js!Abandon, Js!Goto, Js!TypeOK, NotMadeYet, Js!OneUser, Js!Using
<1>9. ASSUME NEW t \in Js!Timers, Js!Fire(t) PROVE NotMadeYet' /\ Js!OneUser'
  BY <1>9 DEF Js!Fire, Js!TypeOK, NotMadeYet, Js!OneUser, Js!Using
<1>10. ASSUME NEW t \in Js!Timers, Js!Claim(t) PROVE NotMadeYet' /\ Js!OneUser'
  BY <1>10 DEF Js!Claim, Js!TypeOK, NotMadeYet, Js!OneUser, Js!Using
<1>11. ASSUME NEW t \in Js!Timers, Js!Interrupt(t) PROVE NotMadeYet' /\ Js!OneUser'
  BY <1>11 DEF Js!Interrupt, Js!TypeOK, NotMadeYet, Js!OneUser, Js!Using
<1>12. CASE UNCHANGED Js!vars
  BY <1>0, <1>12 DEF Js!vars, NotMadeYet, Js!OneUser, Js!Using
<1> QED
  BY <1>0, <1>1, <1>2, <1>3, <1>4, <1>5, <1>6, <1>7, <1>8, <1>9, <1>10, <1>11, <1>12 DEF Js!Next, Js!Exec, Js!Time

(***************************************************************************)
(* No VM of the pool is ever used by two executions of Execute, nor is a   *)
(* VM in use in the pool, however many executions there are.               *)
(***************************************************************************)
THEOREM VmsAreNotShared == Js!Spec => []Js!OneUser
<1>1. Js!Init => VmInv
  BY DEF Js!Init, VmInv, Js!TypeOK, NotMadeYet, Js!OneUser, Js!Using, Js!Timers
<1>2. VmInv /\ [Js!Next]_Js!vars => VmInv'
  BY VmStep
<1>3. VmInv => Js!OneUser
  BY DEF VmInv
<1> QED
  BY <1>1, <1>2, <1>3, PTL DEF Js!Spec

\* The token of every state channel stays with one holder in every step.
LEMMA TokenStep ==
  ASSUME TokenInv, [Js!Next]_Js!vars
  PROVE  TokenInv'
<1> USE DEF TokenInv
<1>0. Js!TypeOK'
  BY JsTypeStep
<1> SUFFICES ASSUME NEW t \in Js!Timers PROVE Token(t)'
  BY <1>0
<1>t. t[1] \in Execs /\ t[2] \in {"new", "call"} /\ t = <<t[1], t[2]>> /\ Token(t)
  BY TimerParts
<1>1. ASSUME NEW e \in Execs, Js!Get(e) PROVE Token(t)'
  BY <1>1, <1>t DEF Js!Get, Js!Goto, Js!TypeOK, Token, Fresh, Js!T
<1>2. ASSUME NEW e \in Execs, Js!SetTimeout(e) PROVE Token(t)'
  BY <1>2, <1>t, TimerOfExec DEF Js!SetTimeout, Js!Goto, Js!TypeOK, Token, Fresh, Js!T
<1>3. ASSUME NEW e \in Execs, Js!RunInterrupted(e) PROVE Token(t)'
  BY <1>3, <1>t, Zenon DEF Js!RunInterrupted, Js!Goto, Js!TypeOK, Token, Fresh, Js!T
<1>4. ASSUME NEW e \in Execs, Js!CloseReceive(e) PROVE Token(t)'
  BY <1>4, <1>t, TimerOfExec, SMTT(30) DEF Js!CloseReceive, Js!Goto, Js!TypeOK, Token, Fresh, Js!T
<1>5. ASSUME NEW e \in Execs, Js!CloseChan(e) PROVE Token(t)'
  BY <1>5, <1>t, TimerOfExec DEF Js!CloseChan, Js!Goto, Js!TypeOK, Token, Fresh, Js!T
<1>6. ASSUME NEW e \in Execs, Js!Put(e) PROVE Token(t)'
  BY <1>6, <1>t DEF Js!Put, Js!Goto, Js!TypeOK, Token, Fresh, Js!T
<1>7. ASSUME NEW e \in Execs, Js!RunEnds(e) PROVE Token(t)'
  BY <1>7, <1>t DEF Js!RunEnds, Js!Goto, Js!TypeOK, Token, Fresh, Js!T
<1>8. ASSUME NEW e \in Execs, Js!Abandon(e) PROVE Token(t)'
  BY <1>8, <1>t DEF Js!Abandon, Js!Goto, Js!TypeOK, Token, Fresh, Js!T
<1>9. ASSUME NEW u \in Js!Timers, Js!Fire(u) PROVE Token(t)'
  BY <1>9, <1>t DEF Js!Fire, Js!TypeOK, Token, Fresh, Js!T
<1>10. ASSUME NEW u \in Js!Timers, Js!Claim(u) PROVE Token(t)'
  BY <1>10, <1>t DEF Js!Claim, Js!TypeOK, Token, Fresh, Js!T
<1>11. ASSUME NEW u \in Js!Timers, Js!Interrupt(u) PROVE Token(t)'
  BY <1>11, <1>t DEF Js!Interrupt, Js!TypeOK, Token, Fresh, Js!T
<1>12. CASE UNCHANGED Js!vars
  BY <1>12, <1>t, Zenon DEF Js!vars, Token, Fresh, Js!T
<1> QED
  BY <1>1, <1>2, <1>3, <1>4, <1>5, <1>6, <1>7, <1>8, <1>9, <1>10, <1>11, <1>12 DEF Js!Next, Js!Exec, Js!Time

(***************************************************************************)
(* A timer that has received the 0 finds its channel open and empty, and   *)
(* the execution has not received it too: setTimeout never sends on the    *)
(* channel that closeStateChan has closed.                                 *)
(***************************************************************************)
THEOREM TimerDecidesAlone == Js!Spec => []Js!TimerClaimsFirst
<1>1. ASSUME Js!Init PROVE TokenInv
  <2>1. Js!TypeOK
    BY <1>1 DEF Js!Init, Js!TypeOK
  <2>2. ASSUME NEW t \in Js!Timers PROVE Token(t)
    BY <1>1, TimerParts DEF Js!Init, Token, Fresh, Js!T
  <2> QED
    BY <2>1, <2>2 DEF TokenInv
<1>2. TokenInv /\ [Js!Next]_Js!vars => TokenInv'
  BY TokenStep
<1>3. TokenInv => Js!TimerClaimsFirst
  BY Zenon DEF TokenInv, Js!TimerClaimsFirst, Token
<1> QED
  BY <1>1, <1>2, <1>3, PTL DEF Js!Spec
-----------------------------------------------------------------------------
(* SkipFallbackAspect: every failure is counted once, and a skip is earned. *)
CONSTANTS ErrorCountLimit, LimitDuration, MaxTime, MaxDrops
VARIABLES now, chain, nodeOf, err, loc, drops, nodeError

Aspect == INSTANCE SkipFallbackAspect

\* Where an execution may be.
Pcs == {"around", "load", "count", "time", "expired", "execute", "succeeded", "after", "newChain",
        "node", "newNode", "add", "lockedAdd", "stamp", "lockedStamp", "recorded"}

\* What an execution holds.
Holding == [c : {0} \cup DOMAIN nodeOf, e : {0} \cup DOMAIN err, own : BOOLEAN]

\* The objects are numbered from 1; nothing refers to one that was not made.
RecordType ==
  /\ drops \in Nat /\ now \in Nat
  /\ \E k \in Nat : DOMAIN nodeOf = 1..k
  /\ \E n \in Nat : DOMAIN err = 1..n
  /\ chain \in {0} \cup DOMAIN nodeOf
  /\ nodeOf \in [DOMAIN nodeOf -> {0} \cup DOMAIN err]
  /\ err \in [DOMAIN err -> [errorCount : Nat, lastErrorTime : Nat]]
  /\ pc \in [Execs -> Pcs]
  /\ loc \in [Execs -> Holding]

\* An execution has found the objects that it is about to use.
Found ==
  \A x \in Execs :
    /\ pc[x] \in {"load", "count", "time", "expired", "node", "newNode"} => loc[x].c # 0
    /\ pc[x] \in {"count", "time", "add", "lockedAdd", "stamp", "lockedStamp"} => loc[x].e # 0

\* The size of an interval.
Sized == \A k \in Nat : Aspect!Cardinality(1..k) = k

\* The step in which a record is made.
NewRecord(x) == Aspect!AfterNewNode(x) /\ nodeOf[loc[x].c] = 0
-----------------------------------------------------------------------------
\* The objects that a new cache of the chain leaves.
LEMMA NewChainObjects ==
  ASSUME Sized, RecordType, NEW x \in Execs, Aspect!AfterNewChain(x), chain = 0
  PROVE  \E k \in Nat :
           /\ DOMAIN nodeOf = 1..k /\ chain' = k + 1
           /\ nodeOf' = [i \in 1..k + 1 |-> IF i \in 1..k THEN nodeOf[i] ELSE 0]
<1>1. PICK k \in Nat : DOMAIN nodeOf = 1..k
  BY DEF RecordType
<1>2. Aspect!Cardinality(DOMAIN nodeOf) = k
  BY <1>1 DEF Sized
<1> QED
  BY <1>1, <1>2, Zenon DEF Aspect!AfterNewChain

\* The objects that a new record leaves.
LEMMA NewRecordObjects ==
  ASSUME Sized, RecordType, NEW x \in Execs, NewRecord(x)
  PROVE  \E n \in Nat :
           /\ DOMAIN err = 1..n
           /\ err' = [i \in 1..n + 1 |-> IF i < n + 1 THEN err[i]
                                         ELSE [errorCount |-> 1, lastErrorTime |-> now]]
           /\ nodeOf' = [nodeOf EXCEPT ![loc[x].c] = n + 1]
<1>1. PICK n \in Nat : DOMAIN err = 1..n
  BY DEF RecordType
<1>2. Aspect!Cardinality(DOMAIN err) = n
  BY <1>1 DEF Sized
<1> QED
  BY <1>1, <1>2, Zenon DEF NewRecord, Aspect!AfterNewNode

\* The steps in which no object changes.
Quiet(x) ==
  \/ Aspect!AroundChain(x) \/ Aspect!AroundNode(x) \/ Aspect!AroundCount(x) \/ Aspect!AroundTime(x)
  \/ Aspect!Skip(x) \/ Aspect!Execute(x) \/ Aspect!AfterChain(x) \/ Aspect!AfterNode(x)

\* They move one execution, which holds objects that exist and has found those it needs.
LEMMA QuietStep ==
  ASSUME RecordType, Found, NEW x \in Execs, Quiet(x)
  PROVE  /\ UNCHANGED <<now, chain, nodeOf, err, drops, nodeError>>
         /\ RecordType' /\ Found'
<1>1. UNCHANGED <<now, chain, nodeOf, err, drops, nodeError>> /\ Holding' = Holding
  BY Zenon DEF Quiet, Holding, Aspect!AroundChain, Aspect!AroundNode, Aspect!AroundCount,
     Aspect!AroundTime, Aspect!Skip, Aspect!Execute, Aspect!AfterChain, Aspect!AfterNode
<1>2. ASSUME NEW l \in Pcs, NEW g \in Holding,
             pc' = [pc EXCEPT ![x] = l], loc' = [loc EXCEPT ![x] = g],
             l \in {"load", "count", "time", "expired", "node", "newNode"} => g.c # 0,
             l \in {"count", "time", "add", "lockedAdd", "stamp", "lockedStamp"} => g.e # 0
      PROVE  RecordType' /\ Found'
  <2>1. pc' \in [Execs -> Pcs] /\ loc' \in [Execs -> Holding']
    BY <1>1, <1>2, Zenon DEF RecordType
  <2>2. RecordType'
    BY <1>1, <2>1, Zenon DEF RecordType
  <2>3. Found'
    BY <1>2, Zenon DEF Found, RecordType
  <2> QED
    BY <2>2, <2>3
<1>3. /\ chain \in {0} \cup DOMAIN nodeOf /\ pc \in [Execs -> Pcs] /\ loc \in [Execs -> Holding]
      /\ loc[x] \in Holding /\ loc = [loc EXCEPT ![x] = loc[x]]
      /\ loc[x].c # 0 => nodeOf[loc[x].c] \in {0} \cup DOMAIN err
  BY Zenon DEF RecordType, Holding
<1>4. CASE Aspect!AroundChain(x)
  <2> DEFINE l == IF chain = 0 THEN "execute" ELSE "load"
             g == [loc[x] EXCEPT !.c = chain]
  <2>1. pc' = [pc EXCEPT ![x] = l] /\ loc' = [loc EXCEPT ![x] = g]
    BY <1>3, <1>4, Zenon DEF Aspect!AroundChain, Aspect!Goto
  <2>2. l \in Pcs /\ g \in Holding
    BY <1>3, <1>4 DEF Pcs, Holding, Found, Aspect!AroundChain
  <2>3. /\ l \in {"load", "count", "time", "expired", "node", "newNode"} => g.c # 0
        /\ l \in {"count", "time", "add", "lockedAdd", "stamp", "lockedStamp"} => g.e # 0
    BY <1>3, <1>4 DEF Holding, Found, Aspect!AroundChain
  <2> HIDE DEF l, g
  <2> QED
    BY <1>1, <1>2, <2>1, <2>2, <2>3, Zenon
<1>5. CASE Aspect!AroundNode(x)
  <2> DEFINE l == IF nodeOf[loc[x].c] = 0 THEN "execute" ELSE "count"
             g == [loc[x] EXCEPT !.e = nodeOf[loc[x].c]]
  <2>1. pc' = [pc EXCEPT ![x] = l] /\ loc' = [loc EXCEPT ![x] = g]
    BY <1>3, <1>5, Zenon DEF Aspect!AroundNode, Aspect!Goto
  <2>2. l \in Pcs /\ g \in Holding
    BY <1>3, <1>5 DEF Pcs, Holding, Found, Aspect!AroundNode
  <2>3. /\ l \in {"load", "count", "time", "expired", "node", "newNode"} => g.c # 0
        /\ l \in {"count", "time", "add", "lockedAdd", "stamp", "lockedStamp"} => g.e # 0
    BY <1>3, <1>5 DEF Holding, Found, Aspect!AroundNode
  <2> HIDE DEF l, g
  <2> QED
    BY <1>1, <1>2, <2>1, <2>2, <2>3, Zenon
<1>6. CASE Aspect!AroundCount(x)
  <2> DEFINE l == IF err[loc[x].e].errorCount >= ErrorCountLimit THEN "time" ELSE "execute"
             g == loc[x]
  <2>1. pc' = [pc EXCEPT ![x] = l] /\ loc' = [loc EXCEPT ![x] = g]
    BY <1>3, <1>6, Zenon DEF Aspect!AroundCount, Aspect!Goto
  <2>2. l \in Pcs /\ g \in Holding
    BY <1>3, <1>6, Zenon DEF Pcs, Holding, Found, Aspect!AroundCount
  <2>3. /\ l \in {"load", "count", "time", "expired", "node", "newNode"} => g.c # 0
        /\ l \in {"count", "time", "add", "lockedAdd", "stamp", "lockedStamp"} => g.e # 0
    BY <1>3, <1>6 DEF Holding, Found, Aspect!AroundCount
  <2> HIDE DEF l, g
  <2> QED
    BY <1>1, <1>2, <2>1, <2>2, <2>3, Zenon
<1>7. CASE Aspect!AroundTime(x)
  <2> DEFINE l == "expired"
             g == loc[x]
  <2>1. pc' = [pc EXCEPT ![x] = l] /\ loc' = [loc EXCEPT ![x] = g]
    BY <1>3, <1>7, Zenon DEF Aspect!AroundTime, Aspect!Goto
  <2>2. l \in Pcs /\ g \in Holding
    BY <1>3, <1>7 DEF Pcs, Holding, Found, Aspect!AroundTime
  <2>3. /\ l \in {"load", "count", "time", "expired", "node", "newNode"} => g.c # 0
        /\ l \in {"count", "time", "add", "lockedAdd", "stamp", "lockedStamp"} => g.e # 0
    BY <1>3, <1>7 DEF Holding, Found, Aspect!AroundTime
  <2> HIDE DEF l, g
  <2> QED
    BY <1>1, <1>2, <2>1, <2>2, <2>3, Zenon
<1>8. CASE Aspect!Skip(x)
  <2> DEFINE l == "after"
             g == loc[x]
  <2>1. pc' = [pc EXCEPT ![x] = l] /\ loc' = [loc EXCEPT ![x] = g]
    BY <1>3, <1>8, Zenon DEF Aspect!Skip, Aspect!Goto
  <2>2. l \in Pcs /\ g \in Holding
    BY <1>3, <1>8 DEF Pcs, Holding, Found, Aspect!Skip
  <2>3. /\ l \in {"load", "count", "time", "expired", "node", "newNode"} => g.c # 0
        /\ l \in {"count", "time", "add", "lockedAdd", "stamp", "lockedStamp"} => g.e # 0
    BY <1>3, <1>8 DEF Holding, Found, Aspect!Skip
  <2> HIDE DEF l, g
  <2> QED
    BY <1>1, <1>2, <2>1, <2>2, <2>3, Zenon
<1>9. CASE Aspect!Execute(x)
  <2>1. loc[x] \in Holding /\ [loc[x] EXCEPT !.own = TRUE] \in Holding /\ {"after", "succeeded"} \subseteq Pcs
    BY <1>3, Zenon DEF Holding, Pcs
  <2>2. CASE pc' = [pc EXCEPT ![x] = "after"] /\ loc' = [loc EXCEPT ![x] = [loc[x] EXCEPT !.own = TRUE]]
    BY <1>1, <1>2, <2>1, <2>2, Zenon
  <2>3. CASE pc' = [pc EXCEPT ![x] = "succeeded"] /\ loc' = [loc EXCEPT ![x] = loc[x]]
    BY <1>1, <1>2, <2>1, <2>3, Zenon
  <2> QED
    BY <1>3, <1>9, <2>2, <2>3, Zenon DEF Aspect!Execute, Aspect!Goto
<1>10. CASE Aspect!AfterChain(x)
  <2> DEFINE l == IF chain = 0 THEN "newChain" ELSE "node"
             g == [loc[x] EXCEPT !.c = chain]
  <2>1. pc' = [pc EXCEPT ![x] = l] /\ loc' = [loc EXCEPT ![x] = g]
    BY <1>3, <1>10, Zenon DEF Aspect!AfterChain, Aspect!Goto
  <2>2. l \in Pcs /\ g \in Holding
    BY <1>3, <1>10 DEF Pcs, Holding, Found, Aspect!AfterChain
  <2>3. /\ l \in {"load", "count", "time", "expired", "node", "newNode"} => g.c # 0
        /\ l \in {"count", "time", "add", "lockedAdd", "stamp", "lockedStamp"} => g.e # 0
    BY <1>3, <1>10 DEF Holding, Found, Aspect!AfterChain
  <2> HIDE DEF l, g
  <2> QED
    BY <1>1, <1>2, <2>1, <2>2, <2>3, Zenon
<1>11. CASE Aspect!AfterNode(x)
  <2> DEFINE l == IF nodeOf[loc[x].c] = 0 THEN "newNode" ELSE "add"
             g == [loc[x] EXCEPT !.e = nodeOf[loc[x].c]]
  <2>1. pc' = [pc EXCEPT ![x] = l] /\ loc' = [loc EXCEPT ![x] = g]
    BY <1>3, <1>11, Zenon DEF Aspect!AfterNode, Aspect!Goto
  <2>2. l \in Pcs /\ g \in Holding
    BY <1>3, <1>11 DEF Pcs, Holding, Found, Aspect!AfterNode
  <2>3. /\ l \in {"load", "count", "time", "expired", "node", "newNode"} => g.c # 0
        /\ l \in {"count", "time", "add", "lockedAdd", "stamp", "lockedStamp"} => g.e # 0
    BY <1>3, <1>11 DEF Holding, Found, Aspect!AfterNode
  <2> HIDE DEF l, g
  <2> QED
    BY <1>1, <1>2, <2>1, <2>2, <2>3, Zenon
<1> QED
  BY <1>1, <1>4, <1>5, <1>6, <1>7, <1>8, <1>9, <1>10, <1>11, Zenon DEF Quiet

\* A step of another kind leaves the objects and what is held of them in order, too.
LEMMA LoudStep ==
  ASSUME Sized, RecordType, Found, NEW x \in Execs,
         \/ Aspect!AroundDelete(x) \/ Aspect!AfterNewChain(x) \/ Aspect!AfterNewNode(x)
         \/ Aspect!AfterAdd(x) \/ Aspect!AfterStamp(x)
  PROVE  RecordType' /\ Found'
<1>0. /\ drops \in Nat /\ now \in Nat /\ pc \in [Execs -> Pcs] /\ loc \in [Execs -> Holding]
      /\ chain \in {0} \cup DOMAIN nodeOf
      /\ nodeOf \in [DOMAIN nodeOf -> {0} \cup DOMAIN err]
      /\ err \in [DOMAIN err -> [errorCount : Nat, lastErrorTime : Nat]]
      /\ loc[x] \in Holding
  BY Zenon DEF RecordType
<1>1. ASSUME UNCHANGED now, drops' \in Nat, chain' \in {0} \cup DOMAIN nodeOf', UNCHANGED loc,
             DOMAIN nodeOf' = DOMAIN nodeOf, DOMAIN err' = DOMAIN err,
             nodeOf' \in [DOMAIN nodeOf -> {0} \cup DOMAIN err],
             err' \in [DOMAIN err -> [errorCount : Nat, lastErrorTime : Nat]],
             NEW l \in Pcs, pc' = [pc EXCEPT ![x] = l],
             l \in {"execute", "stamp", "lockedStamp", "recorded"},
             l \in {"stamp", "lockedStamp"} => loc[x].e # 0
      PROVE  RecordType' /\ Found'
  <2>1. Holding' = Holding /\ pc' \in [Execs -> Pcs]
    BY <1>0, <1>1, Zenon DEF Holding
  <2>2. RecordType'
    BY <1>1, <2>1, <1>0, Zenon DEF RecordType
  <2>3. Found'
    BY <1>0, <1>1 DEF Found
  <2> QED
    BY <2>2, <2>3
<1>2. CASE Aspect!AroundDelete(x)
  <2>1. /\ nodeOf' = [nodeOf EXCEPT ![loc[x].c] = 0] /\ drops' = drops + 1
        /\ pc' = [pc EXCEPT ![x] = "execute"] /\ UNCHANGED <<now, chain, err, loc>>
    BY <1>2, Zenon DEF Aspect!AroundDelete, Aspect!Goto
  <2>2. DOMAIN nodeOf' = DOMAIN nodeOf /\ nodeOf' \in [DOMAIN nodeOf -> {0} \cup DOMAIN err]
    BY <1>0, <2>1, Zenon
  <2>3. drops' \in Nat /\ "execute" \in Pcs
    BY <1>0, <2>1 DEF Pcs
  <2> QED
    BY <1>0, <1>1, <2>1, <2>2, <2>3, Zenon
<1>3. CASE Aspect!AfterAdd(x)
  <2> DEFINE l == IF pc[x] = "add" THEN "stamp" ELSE "lockedStamp"
  <2>1. /\ err' = [err EXCEPT ![loc[x].e].errorCount = @ + 1]
        /\ pc' = [pc EXCEPT ![x] = l] /\ UNCHANGED <<now, chain, nodeOf, loc, drops>>
    BY <1>3, Zenon DEF Aspect!AfterAdd, Aspect!Goto
  <2>2. DOMAIN err' = DOMAIN err /\ err' \in [DOMAIN err -> [errorCount : Nat, lastErrorTime : Nat]]
    <3>1. \A i \in DOMAIN err : err[i].errorCount + 1 \in Nat
      BY <1>0
    <3> QED
      BY <1>0, <2>1, <3>1, Zenon
  <2>3. l \in Pcs /\ l \in {"execute", "stamp", "lockedStamp", "recorded"} /\ loc[x].e # 0
    BY <1>3 DEF Pcs, Found, Aspect!AfterAdd
  <2> HIDE DEF l
  <2> QED
    BY <1>0, <1>1, <2>1, <2>2, <2>3, Zenon
<1>4. CASE Aspect!AfterStamp(x)
  <2>1. /\ err' = [err EXCEPT ![loc[x].e].lastErrorTime = now]
        /\ pc' = [pc EXCEPT ![x] = "recorded"] /\ UNCHANGED <<now, chain, nodeOf, loc, drops>>
    BY <1>4, Zenon DEF Aspect!AfterStamp, Aspect!Goto
  <2>2. DOMAIN err' = DOMAIN err /\ err' \in [DOMAIN err -> [errorCount : Nat, lastErrorTime : Nat]]
    BY <1>0, <2>1, Zenon
  <2>3. "recorded" \in Pcs
    BY DEF Pcs
  <2> QED
    BY <1>0, <1>1, <2>1, <2>2, <2>3, Zenon
<1>5. CASE Aspect!AfterNewChain(x)
  <2>1. /\ loc' = [loc EXCEPT ![x].c = chain'] /\ pc' = [pc EXCEPT ![x] = "node"]
        /\ UNCHANGED <<now, err, drops>>
    BY <1>5, Zenon DEF Aspect!AfterNewChain, Aspect!Goto
  <2>2. /\ chain' \in DOMAIN nodeOf' /\ chain' # 0 /\ DOMAIN nodeOf \subseteq DOMAIN nodeOf'
        /\ \E k \in Nat : DOMAIN nodeOf' = 1..k
        /\ nodeOf' \in [DOMAIN nodeOf' -> {0} \cup DOMAIN err]
    <3>1. CASE chain = 0
      <4>1. PICK k \in Nat :
              /\ DOMAIN nodeOf = 1..k /\ chain' = k + 1
              /\ nodeOf' = [i \in 1..k + 1 |-> IF i \in 1..k THEN nodeOf[i] ELSE 0]
        BY <1>5, <3>1, NewChainObjects, Zenon
      <4>2. DOMAIN nodeOf' = 1..k + 1 /\ k + 1 \in Nat /\ k + 1 # 0 /\ k + 1 \in 1..k + 1 /\ 1..k \subseteq 1..k + 1
        BY <4>1
      <4>3. nodeOf' \in [1..k + 1 -> {0} \cup DOMAIN err]
        BY <1>0, <4>1, Zenon
      <4> QED
        BY <4>1, <4>2, <4>3, Zenon
    <3>2. CASE chain # 0
      BY <1>0, <1>5, <3>2, Zenon DEF Aspect!AfterNewChain, RecordType
    <3> QED
      BY <3>1, <3>2
  <2>3. loc' \in [Execs -> Holding'] /\ loc'[x].c = chain'
    <3>1. Holding \subseteq Holding' /\ [loc[x] EXCEPT !.c = chain'] \in Holding'
      BY <1>0, <2>1, <2>2, Zenon DEF Holding
    <3>2. loc' = [loc EXCEPT ![x] = [loc[x] EXCEPT !.c = chain']]
      BY <2>1, Zenon
    <3> QED
      BY <1>0, <3>1, <3>2 DEF Holding
  <2>4. pc' \in [Execs -> Pcs]
    BY <1>0, <2>1 DEF Pcs
  <2>5. RecordType'
    BY <1>0, <2>1, <2>2, <2>3, <2>4, Zenon DEF RecordType
  <2>6. Found'
    BY <1>0, <2>1, <2>2, <2>3, Zenon DEF Found
  <2> QED
    BY <2>5, <2>6
<1>6. CASE Aspect!AfterNewNode(x) /\ nodeOf[loc[x].c] # 0
  <2> DEFINE e == nodeOf[loc[x].c]
  <2>1. /\ loc' = [loc EXCEPT ![x].e = e] /\ pc' = [pc EXCEPT ![x] = "lockedAdd"]
        /\ UNCHANGED <<now, chain, err, nodeOf, drops>>
    BY <1>6, Zenon DEF Aspect!AfterNewNode, Aspect!Goto
  <2>2. e \in DOMAIN err /\ e # 0 /\ Holding' = Holding
    <3>1. loc[x].c \in DOMAIN nodeOf
      BY <1>0, <1>6, Zenon DEF Found, Holding, Aspect!AfterNewNode
    <3> QED
      BY <1>0, <1>6, <2>1, <3>1, Zenon DEF Holding
  <2> HIDE DEF e
  <2>3. loc' \in [Execs -> Holding] /\ pc' \in [Execs -> Pcs]
    BY <1>0, <2>1, <2>2, Zenon DEF Holding, Pcs
  <2>4. RecordType'
    BY <1>0, <2>1, <2>2, <2>3, Zenon DEF RecordType
  <2>5. Found'
    BY <1>0, <2>1, <2>2, <2>3 DEF Found, Holding
  <2> QED
    BY <2>4, <2>5
<1>7. CASE NewRecord(x)
  <2>1. PICK n \in Nat :
          /\ DOMAIN err = 1..n
          /\ err' = [i \in 1..n + 1 |-> IF i < n + 1 THEN err[i]
                                        ELSE [errorCount |-> 1, lastErrorTime |-> now]]
          /\ nodeOf' = [nodeOf EXCEPT ![loc[x].c] = n + 1]
    BY <1>7, NewRecordObjects, Zenon
  <2>2. pc' = [pc EXCEPT ![x] = "recorded"] /\ UNCHANGED <<now, chain, drops, loc>>
    BY <1>7, Zenon DEF NewRecord, Aspect!AfterNewNode, Aspect!Goto
  <2>3. /\ DOMAIN err' = 1..n + 1 /\ n + 1 \in Nat /\ n + 1 \in 1..n + 1 /\ 1..n \subseteq 1..n + 1
        /\ DOMAIN nodeOf' = DOMAIN nodeOf
    BY <1>0, <2>1
  <2>4. err' \in [1..n + 1 -> [errorCount : Nat, lastErrorTime : Nat]]
    <3>1. ASSUME NEW i \in 1..n + 1, i < n + 1 PROVE i \in 1..n
      BY <3>1
    <3>2. [errorCount |-> 1, lastErrorTime |-> now] \in [errorCount : Nat, lastErrorTime : Nat]
      BY <1>0
    <3> QED
      BY <1>0, <2>1, <3>1, <3>2, Zenon
  <2>5. nodeOf' \in [DOMAIN nodeOf -> {0} \cup DOMAIN err']
    BY <1>0, <2>1, <2>3, Zenon
  <2>6. Holding \subseteq Holding'
    BY <2>1, <2>3 DEF Holding
  <2>7. loc' \in [Execs -> Holding'] /\ pc' \in [Execs -> Pcs]
    BY <1>0, <2>2, <2>6 DEF Pcs
  <2>8. \E k \in Nat : DOMAIN nodeOf = 1..k
    BY DEF RecordType
  <2>9. RecordType'
    BY <1>0, <2>1, <2>2, <2>3, <2>4, <2>5, <2>7, <2>8, Zenon DEF RecordType
  <2>10. Found'
    BY <1>0, <2>2, Zenon DEF Found
  <2> QED
    BY <2>9, <2>10
<1> QED
  BY <1>2, <1>3, <1>4, <1>5, <1>6, <1>7, Zenon DEF NewRecord

\* Every step keeps the objects in order.
LEMMA RecordStep ==
  ASSUME Sized, RecordType, Found, [Aspect!Next]_Aspect!vars
  PROVE  RecordType' /\ Found'
<1>1. ASSUME NEW x \in Execs, Aspect!Around(x) \/ Aspect!Execute(x) \/ Aspect!After(x)
      PROVE  RecordType' /\ Found'
  BY <1>1, QuietStep, LoudStep, Zenon DEF Quiet, Aspect!Around, Aspect!After
<1>2. CASE Aspect!Tick
  <2>1. now' = now + 1 /\ now \in Nat
    BY <1>2 DEF Aspect!Tick, RecordType
  <2>2. now' \in Nat
    BY <2>1
  <2> QED
    BY <1>2, <2>2, Zenon DEF Aspect!Tick, RecordType, Found, Holding
<1>3. CASE Aspect!DropChain \/ Aspect!DropNode
  <2>1. /\ drops' = drops + 1 /\ drops \in Nat
        /\ chain' \in {0, chain} /\ nodeOf' \in {nodeOf, [nodeOf EXCEPT ![chain] = 0]}
        /\ UNCHANGED <<now, err, pc, loc>>
    BY <1>3, Zenon DEF Aspect!DropChain, Aspect!DropNode, RecordType
  <2>2. drops' \in Nat
    BY <2>1
  <2>3. DOMAIN nodeOf' = DOMAIN nodeOf /\ nodeOf' \in [DOMAIN nodeOf -> {0} \cup DOMAIN err]
    BY <2>1, Zenon DEF RecordType
  <2> QED
    BY <2>1, <2>2, <2>3, Zenon DEF RecordType, Found, Holding
<1>4. CASE UNCHANGED Aspect!vars
  BY <1>4, Zenon DEF Aspect!vars, RecordType, Found, Holding
<1> QED
  BY <1>1, <1>2, <1>3, <1>4, Zenon DEF Aspect!Next

(***************************************************************************)
(* No record has more errors than there were failures to count, whatever   *)
(* was dropped; and an execution that is about to skip the node has seen a *)
(* record with ErrorCountLimit errors, which only gets more of them.       *)
(***************************************************************************)
Earned ==
  /\ \A i \in DOMAIN err : err[i].errorCount <= Aspect!Cardinality(Aspect!Counted)
  /\ \A x \in Execs : pc[x] = "time" => err[loc[x].e].errorCount >= ErrorCountLimit

\* While nothing was dropped there is one record, and it is the one that all use.
OneRecord ==
  drops = 0 => \A x \in Execs :
    /\ pc[x] \in {"node", "newNode"} => loc[x].c = chain
    /\ pc[x] \in {"add", "lockedAdd"} => chain # 0 /\ loc[x].e = nodeOf[chain]
    /\ x \in Aspect!Counted => chain # 0 /\ nodeOf[chain] # 0

SkipInv == RecordType /\ Found /\ Earned /\ OneRecord /\ Aspect!CountsEveryFailure

\* The size of the set of those that have counted, and of the set with one more.
Countable(S) ==
  /\ Aspect!Cardinality(S) \in Nat
  /\ \A x : x \notin S => Aspect!Cardinality(S \cup {x}) = Aspect!Cardinality(S) + 1
-----------------------------------------------------------------------------
\* What a step does to the counts, and who has counted.
LEMMA CountStep ==
  ASSUME Sized, RecordType, Found, [Aspect!Next]_Aspect!vars
  PROVE  \/ /\ Aspect!Counted' = Aspect!Counted /\ DOMAIN err' = DOMAIN err
            /\ \A i \in DOMAIN err : err'[i].errorCount = err[i].errorCount
         \/ \E x \in Execs \ Aspect!Counted :
              /\ Aspect!Counted' = Aspect!Counted \cup {x}
              /\ Aspect!AfterAdd(x) \/ NewRecord(x)
<1>0. /\ pc \in [Execs -> Pcs] /\ err \in [DOMAIN err -> [errorCount : Nat, lastErrorTime : Nat]]
  BY Zenon DEF RecordType
<1>1. ASSUME NEW x \in Execs, NEW l \in Pcs, pc' = [pc EXCEPT ![x] = l],
             pc[x] \notin {"stamp", "lockedStamp", "recorded"},
             l \notin {"stamp", "lockedStamp", "recorded"}
      PROVE  Aspect!Counted' = Aspect!Counted
  BY <1>0, <1>1 DEF Aspect!Counted
<1>2. ASSUME NEW x \in Execs, Quiet(x) PROVE Aspect!Counted' = Aspect!Counted /\ err' = err
  <2>1. err' = err
    BY <1>2, QuietStep, Zenon
  <2>2. \E l \in Pcs \ {"stamp", "lockedStamp", "recorded"} : pc' = [pc EXCEPT ![x] = l]
    BY <1>2, Zenon DEF Quiet, Pcs, Aspect!AroundChain, Aspect!AroundNode, Aspect!AroundCount,
       Aspect!AroundTime, Aspect!Skip, Aspect!Execute, Aspect!AfterChain, Aspect!AfterNode, Aspect!Goto
  <2>3. pc[x] \notin {"stamp", "lockedStamp", "recorded"}
    BY <1>2 DEF Quiet, Aspect!AroundChain, Aspect!AroundNode, Aspect!AroundCount,
       Aspect!AroundTime, Aspect!Skip, Aspect!Execute, Aspect!AfterChain, Aspect!AfterNode
  <2> QED
    BY <1>1, <2>1, <2>2, <2>3, Zenon
<1>3. ASSUME NEW x \in Execs,
             \/ Aspect!AroundDelete(x) \/ Aspect!AfterNewChain(x)
             \/ Aspect!AfterNewNode(x) /\ nodeOf[loc[x].c] # 0
      PROVE  Aspect!Counted' = Aspect!Counted /\ err' = err
  <2>1. \E l \in {"execute", "node", "lockedAdd"} : pc' = [pc EXCEPT ![x] = l]
    BY <1>3, Zenon DEF Aspect!AroundDelete, Aspect!AfterNewChain, Aspect!AfterNewNode, Aspect!Goto
  <2>2. pc[x] \in {"expired", "newChain", "newNode"} /\ err' = err
    BY <1>3, Zenon DEF Aspect!AroundDelete, Aspect!AfterNewChain, Aspect!AfterNewNode
  <2> QED
    BY <1>1, <2>1, <2>2, Zenon DEF Pcs
<1>4. ASSUME NEW x \in Execs, Aspect!AfterStamp(x)
      PROVE  /\ Aspect!Counted' = Aspect!Counted /\ DOMAIN err' = DOMAIN err
             /\ \A i \in DOMAIN err : err'[i].errorCount = err[i].errorCount
  <2>1. /\ err' = [err EXCEPT ![loc[x].e].lastErrorTime = now]
        /\ pc' = [pc EXCEPT ![x] = "recorded"] /\ pc[x] \in {"stamp", "lockedStamp"}
    BY <1>4, Zenon DEF Aspect!AfterStamp, Aspect!Goto
  <2>2. Aspect!Counted' = Aspect!Counted
    BY <1>0, <2>1 DEF Aspect!Counted
  <2> QED
    BY <1>0, <2>1, <2>2
<1>5. ASSUME NEW x \in Execs, Aspect!AfterAdd(x) \/ NewRecord(x)
      PROVE  x \notin Aspect!Counted /\ Aspect!Counted' = Aspect!Counted \cup {x}
  <2>1. \E l \in {"stamp", "lockedStamp", "recorded"} : pc' = [pc EXCEPT ![x] = l]
    BY <1>5, Zenon DEF NewRecord, Aspect!AfterAdd, Aspect!AfterNewNode, Aspect!Goto
  <2>2. pc[x] \in {"add", "lockedAdd", "newNode"}
    BY <1>5 DEF NewRecord, Aspect!AfterAdd, Aspect!AfterNewNode
  <2> QED
    BY <1>0, <2>1, <2>2 DEF Aspect!Counted
<1>6. CASE Aspect!Tick \/ Aspect!DropChain \/ Aspect!DropNode \/ UNCHANGED Aspect!vars
  <2>1. pc' = pc /\ err' = err
    BY <1>6, Zenon DEF Aspect!Tick, Aspect!DropChain, Aspect!DropNode, Aspect!vars
  <2> QED
    BY <2>1, Zenon DEF Aspect!Counted
<1>7. ASSUME NEW x \in Execs, Aspect!Around(x) \/ Aspect!Execute(x) \/ Aspect!After(x)
      PROVE  \/ Quiet(x) \/ Aspect!AroundDelete(x) \/ Aspect!AfterNewChain(x)
             \/ Aspect!AfterNewNode(x) /\ nodeOf[loc[x].c] # 0
             \/ Aspect!AfterStamp(x) \/ Aspect!AfterAdd(x) \/ NewRecord(x)
  BY <1>7, Zenon DEF Quiet, Aspect!Around, Aspect!After, NewRecord
<1> QED
  BY <1>2, <1>3, <1>4, <1>5, <1>6, <1>7, Zenon DEF Aspect!Next

\* A record that is made has one error, and a failure adds one; no other count changes.
LEMMA ErrorCounts ==
  ASSUME Sized, RecordType, Found, NEW x \in Execs
  PROVE  /\ Aspect!AfterAdd(x) =>
              /\ DOMAIN err' = DOMAIN err
              /\ err'[loc[x].e].errorCount = err[loc[x].e].errorCount + 1
              /\ \A i \in DOMAIN err : i # loc[x].e => err'[i].errorCount = err[i].errorCount
         /\ NewRecord(x) =>
              \E n \in DOMAIN err' :
                /\ DOMAIN err' = DOMAIN err \cup {n} /\ n # 0
                /\ err'[n].errorCount = 1
                /\ \A i \in DOMAIN err : err'[i].errorCount = err[i].errorCount
                /\ nodeOf' = [nodeOf EXCEPT ![loc[x].c] = n]
<1>0. err \in [DOMAIN err -> [errorCount : Nat, lastErrorTime : Nat]] /\ loc[x] \in Holding
  BY Zenon DEF RecordType
<1>1. ASSUME Aspect!AfterAdd(x)
      PROVE  /\ DOMAIN err' = DOMAIN err
             /\ err'[loc[x].e].errorCount = err[loc[x].e].errorCount + 1
             /\ \A i \in DOMAIN err : i # loc[x].e => err'[i].errorCount = err[i].errorCount
  <2>1. err' = [err EXCEPT ![loc[x].e].errorCount = @ + 1] /\ pc[x] \in {"add", "lockedAdd"}
    BY <1>1, Zenon DEF Aspect!AfterAdd
  <2>2. loc[x].e \in DOMAIN err
    BY <1>0, <2>1 DEF Found, Holding
  <2> QED
    BY <1>0, <2>1, <2>2
<1>2. ASSUME NewRecord(x)
      PROVE  \E n \in DOMAIN err' :
                /\ DOMAIN err' = DOMAIN err \cup {n} /\ n # 0
                /\ err'[n].errorCount = 1
                /\ \A i \in DOMAIN err : err'[i].errorCount = err[i].errorCount
                /\ nodeOf' = [nodeOf EXCEPT ![loc[x].c] = n]
  <2>1. PICK n \in Nat :
          /\ DOMAIN err = 1..n
          /\ err' = [i \in 1..n + 1 |-> IF i < n + 1 THEN err[i]
                                        ELSE [errorCount |-> 1, lastErrorTime |-> now]]
          /\ nodeOf' = [nodeOf EXCEPT ![loc[x].c] = n + 1]
    BY <1>2, NewRecordObjects, Zenon
  <2>2. /\ n + 1 \in 1..n + 1 /\ n + 1 # 0 /\ ~(n + 1 < n + 1)
        /\ 1..n + 1 = 1..n \cup {n + 1}
        /\ \A i \in 1..n : i \in 1..n + 1 /\ i < n + 1
    OBVIOUS
  <2>3. DOMAIN err' = 1..n + 1 /\ err'[n + 1] = [errorCount |-> 1, lastErrorTime |-> now]
    BY <2>1, <2>2, Zenon
  <2>4. \A i \in DOMAIN err : err'[i] = err[i]
    BY <2>1, <2>2, Zenon
  <2> QED
    BY <2>1, <2>2, <2>3, <2>4, Zenon
<1> QED
  BY <1>1, <1>2, Zenon

\* A step of one execution leaves the others where they are.
LEMMA OthersStay ==
  ASSUME RecordType, NEW x \in Execs, Aspect!Around(x) \/ Aspect!Execute(x) \/ Aspect!After(x),
         NEW y \in Execs, y # x
  PROVE  pc'[y] = pc[y] /\ loc'[y] = loc[y]
<1>0. pc \in [Execs -> Pcs] /\ loc \in [Execs -> Holding]
  BY Zenon DEF RecordType
<1>1. \E l : pc' = [pc EXCEPT ![x] = l]
  BY Zenon DEF Aspect!Around, Aspect!Execute, Aspect!After, Aspect!AroundChain, Aspect!AroundNode,
     Aspect!AroundCount, Aspect!AroundTime, Aspect!AroundDelete, Aspect!Skip, Aspect!AfterChain,
     Aspect!AfterNewChain, Aspect!AfterNode, Aspect!AfterNewNode, Aspect!AfterAdd, Aspect!AfterStamp,
     Aspect!Goto
<1>2. loc' = loc \/ \E g : loc' = [loc EXCEPT ![x] = g]
  BY Zenon DEF Aspect!Around, Aspect!Execute, Aspect!After, Aspect!AroundChain, Aspect!AroundNode,
     Aspect!AroundCount, Aspect!AroundTime, Aspect!AroundDelete, Aspect!Skip, Aspect!AfterChain,
     Aspect!AfterNewChain, Aspect!AfterNode, Aspect!AfterNewNode, Aspect!AfterAdd, Aspect!AfterStamp
<1> QED
  BY <1>0, <1>1, <1>2, Zenon

\* The counts are earned in every step.
LEMMA EarnedStep ==
  ASSUME Sized, RecordType, Found, Earned, Countable(Aspect!Counted), [Aspect!Next]_Aspect!vars,
         ErrorCountLimit \in Nat
  PROVE  Earned'
<1> DEFINE count(i) == err[i].errorCount
           total == Aspect!Cardinality(Aspect!Counted)
<1>0. total \in Nat /\ \A i \in DOMAIN err : count(i) \in Nat /\ count(i) <= total
  BY DEF Countable, Earned, RecordType
<1>1. /\ \A i \in DOMAIN err : i \in DOMAIN err' /\ count(i)' \in {count(i), count(i) + 1}
      /\ \A i \in DOMAIN err' : count(i)' <= total'
  <2>1. CASE /\ Aspect!Counted' = Aspect!Counted /\ DOMAIN err' = DOMAIN err
             /\ \A i \in DOMAIN err : err'[i].errorCount = err[i].errorCount
    BY <1>0, <2>1, Zenon
  <2>2. ASSUME NEW x \in Execs \ Aspect!Counted, Aspect!Counted' = Aspect!Counted \cup {x}
        PROVE  total' = total + 1
    BY <2>2, Zenon DEF Countable
  <2>3. ASSUME NEW x \in Execs \ Aspect!Counted, Aspect!Counted' = Aspect!Counted \cup {x}, Aspect!AfterAdd(x)
        PROVE  <1>1!:
    <3>1. /\ DOMAIN err' = DOMAIN err
          /\ \A i \in DOMAIN err : count(i)' \in {count(i), count(i) + 1}
      BY <2>3, ErrorCounts, Zenon
    <3>2. total' = total + 1
      BY <2>2, <2>3, Zenon
    <3> HIDE DEF count, total
    <3> QED
      BY <1>0, <3>1, <3>2
  <2>4. ASSUME NEW x \in Execs \ Aspect!Counted, Aspect!Counted' = Aspect!Counted \cup {x}, NewRecord(x)
        PROVE  <1>1!:
    <3>1. PICK n \in DOMAIN err' :
            /\ DOMAIN err' = DOMAIN err \cup {n}
            /\ count(n)' = 1 /\ \A i \in DOMAIN err : count(i)' = count(i)
      BY <2>4, ErrorCounts, Zenon
    <3>2. total' = total + 1
      BY <2>2, <2>4, Zenon
    <3> HIDE DEF count, total
    <3> QED
      BY <1>0, <3>1, <3>2
  <2> QED
    BY <2>1, <2>3, <2>4, CountStep, Zenon
<1>2. ASSUME NEW x \in Execs, pc'[x] = "time"
      PROVE  /\ loc'[x] = loc[x] /\ loc[x].e \in DOMAIN err
             /\ count(loc[x].e) >= ErrorCountLimit
  <2>0. loc[x] \in Holding /\ pc \in [Execs -> Pcs]
    BY Zenon DEF RecordType
  <2>1. CASE pc[x] = "time" /\ loc'[x] = loc[x]
    BY <2>0, <2>1, Zenon DEF Found, Earned, Holding
  <2>2. CASE Aspect!AroundCount(x)
    <3>1. pc[x] = "count" /\ loc' = loc
      BY <2>2 DEF Aspect!AroundCount
    <3>2. count(loc[x].e) >= ErrorCountLimit
      BY <1>2, <2>0, <2>2, Zenon DEF Aspect!AroundCount, Aspect!Goto
    <3> QED
      BY <2>0, <3>1, <3>2, Zenon DEF Found, Holding
  <2>3. ASSUME Aspect!Around(x) \/ Aspect!Execute(x) \/ Aspect!After(x), ~Aspect!AroundCount(x)
        PROVE  FALSE
    <3>1. \E l \in Pcs \ {"time"} : pc' = [pc EXCEPT ![x] = l]
      BY <2>3, Zenon DEF Pcs, Aspect!Around, Aspect!Execute, Aspect!After, Aspect!AroundChain, Aspect!AroundNode,
     Aspect!AroundTime, Aspect!AroundDelete, Aspect!Skip, Aspect!AfterChain,
     Aspect!AfterNewChain, Aspect!AfterNode, Aspect!AfterNewNode, Aspect!AfterAdd, Aspect!AfterStamp,
     Aspect!Goto
    <3> QED
      BY <1>2, <2>0, <3>1, Zenon
  <2>4. ASSUME NEW y \in Execs, y # x, Aspect!Around(y) \/ Aspect!Execute(y) \/ Aspect!After(y)
        PROVE  pc[x] = "time" /\ loc'[x] = loc[x]
    BY <1>2, <2>4, OthersStay, Zenon
  <2>5. CASE Aspect!Tick \/ Aspect!DropChain \/ Aspect!DropNode \/ UNCHANGED Aspect!vars
    <3>1. pc' = pc /\ loc' = loc
      BY <2>5, Zenon DEF Aspect!Tick, Aspect!DropChain, Aspect!DropNode, Aspect!vars
    <3> QED
      BY <1>2, <2>1, <3>1, Zenon
  <2> QED
    BY <2>1, <2>2, <2>3, <2>4, <2>5, Zenon DEF Aspect!Next
<1>3. ASSUME NEW x \in Execs, pc'[x] = "time"
      PROVE  err'[loc'[x].e].errorCount >= ErrorCountLimit
  <2>1. PICK i \in DOMAIN err : i = loc'[x].e /\ count(i) >= ErrorCountLimit
    BY <1>2, <1>3, Zenon
  <2>2. err'[i].errorCount \in {count(i), count(i) + 1} /\ count(i) \in Nat
    BY <1>0, <1>1, Zenon
  <2>3. err'[i].errorCount >= ErrorCountLimit
    BY <2>1, <2>2
  <2> QED
    BY <2>1, <2>3, Zenon
<1> QED
  BY <1>1, <1>3, Zenon DEF Earned

\* While nothing is dropped the cache changes only when one of its objects is made.
LEMMA CacheStep ==
  ASSUME RecordType, Found, [Aspect!Next]_Aspect!vars, drops' = 0
  PROVE  /\ drops = 0
         /\ \/ UNCHANGED <<chain, nodeOf>>
            \/ \E x \in Execs : (Aspect!AfterNewChain(x) /\ chain = 0) \/ NewRecord(x)
<1>1. ASSUME drops' = drops + 1 PROVE FALSE
  BY <1>1 DEF RecordType
<1>2. CASE Aspect!Tick \/ Aspect!DropChain \/ Aspect!DropNode \/ UNCHANGED Aspect!vars
  BY <1>1, <1>2, Zenon DEF Aspect!Tick, Aspect!DropChain, Aspect!DropNode, Aspect!vars
<1>3. ASSUME NEW x \in Execs, Quiet(x) PROVE drops = 0 /\ UNCHANGED <<chain, nodeOf>>
  BY <1>3, QuietStep, Zenon
<1>4. ASSUME NEW x \in Execs, Aspect!AroundDelete(x) PROVE FALSE
  BY <1>1, <1>4, Zenon DEF Aspect!AroundDelete
<1>5. ASSUME NEW x \in Execs,
             \/ Aspect!AfterNewChain(x) \/ Aspect!AfterNewNode(x)
             \/ Aspect!AfterAdd(x) \/ Aspect!AfterStamp(x)
      PROVE  /\ drops = 0
             /\ UNCHANGED <<chain, nodeOf>> \/ (Aspect!AfterNewChain(x) /\ chain = 0) \/ NewRecord(x)
  BY <1>5, Zenon DEF NewRecord, Aspect!AfterNewChain, Aspect!AfterNewNode, Aspect!AfterAdd, Aspect!AfterStamp
<1>6. ASSUME NEW x \in Execs, Aspect!Around(x) \/ Aspect!Execute(x) \/ Aspect!After(x)
      PROVE  \/ Quiet(x) \/ Aspect!AroundDelete(x)
             \/ Aspect!AfterNewChain(x) \/ Aspect!AfterNewNode(x)
             \/ Aspect!AfterAdd(x) \/ Aspect!AfterStamp(x)
  BY <1>6, Zenon DEF Quiet, Aspect!Around, Aspect!After
<1> QED
  BY <1>2, <1>3, <1>4, <1>5, <1>6, Zenon DEF Aspect!Next

\* No failure is lost and none is counted twice.
LEMMA FailuresStep ==
  ASSUME Sized, SkipInv, Countable(Aspect!Counted), [Aspect!Next]_Aspect!vars
  PROVE  Aspect!CountsEveryFailure'
<1> SUFFICES ASSUME drops' = 0
             PROVE  Aspect!Cardinality(Aspect!Counted)' =
                      IF chain' = 0 \/ nodeOf'[chain'] = 0 THEN 0 ELSE err'[nodeOf'[chain']].errorCount
  BY Zenon DEF Aspect!CountsEveryFailure
<1>0. /\ RecordType /\ Found /\ OneRecord
      /\ nodeOf \in [DOMAIN nodeOf -> {0} \cup DOMAIN err] /\ chain \in {0} \cup DOMAIN nodeOf
  BY Zenon DEF SkipInv, RecordType
<1>1. /\ drops = 0
      /\ \/ UNCHANGED <<chain, nodeOf>>
         \/ \E x \in Execs : (Aspect!AfterNewChain(x) /\ chain = 0) \/ NewRecord(x)
  BY <1>0, CacheStep, Zenon
<1>2. Aspect!Cardinality(Aspect!Counted) =
        IF chain = 0 \/ nodeOf[chain] = 0 THEN 0 ELSE err[nodeOf[chain]].errorCount
  BY <1>1, Zenon DEF SkipInv, Aspect!CountsEveryFailure
<1>3. ASSUME NEW x \in Execs, NewRecord(x), Aspect!Counted' = Aspect!Counted \cup {x}, x \notin Aspect!Counted
      PROVE  Aspect!Cardinality(Aspect!Counted)' =
                      IF chain' = 0 \/ nodeOf'[chain'] = 0 THEN 0 ELSE err'[nodeOf'[chain']].errorCount
  <2>1. pc[x] = "newNode" /\ nodeOf[loc[x].c] = 0 /\ chain' = chain
    BY <1>3, Zenon DEF NewRecord, Aspect!AfterNewNode
  <2>2. loc[x].c = chain /\ loc[x].c # 0
    BY <1>0, <1>1, <2>1 DEF OneRecord, Found
  <2>3. Aspect!Cardinality(Aspect!Counted) = 0
    BY <1>2, <2>1, <2>2, Zenon
  <2>4. Aspect!Cardinality(Aspect!Counted') = 1
    <3>1. Aspect!Cardinality(Aspect!Counted') = 0 + 1
      BY <1>3, <2>3, Zenon DEF Countable
    <3> QED
      BY <3>1
  <2>5. PICK n \in DOMAIN err' : /\ n # 0 /\ err'[n].errorCount = 1
                                 /\ nodeOf' = [nodeOf EXCEPT ![chain] = n]
    BY <1>0, <1>3, <2>2, ErrorCounts, Zenon
  <2>6. nodeOf'[chain'] = n /\ chain' # 0
    BY <1>0, <2>1, <2>2, <2>5, Zenon
  <2> QED
    BY <2>4, <2>5, <2>6, Zenon
<1>4. ASSUME NEW x \in Execs, Aspect!AfterAdd(x), Aspect!Counted' = Aspect!Counted \cup {x}, x \notin Aspect!Counted
      PROVE  Aspect!Cardinality(Aspect!Counted)' =
                      IF chain' = 0 \/ nodeOf'[chain'] = 0 THEN 0 ELSE err'[nodeOf'[chain']].errorCount
  <2>1. pc[x] \in {"add", "lockedAdd"} /\ chain' = chain /\ nodeOf' = nodeOf
    BY <1>4, Zenon DEF Aspect!AfterAdd
  <2>2. loc[x].e = nodeOf[chain] /\ loc[x].e # 0 /\ chain # 0
    BY <1>0, <1>1, <2>1, Zenon DEF OneRecord, Found
  <2>3. Aspect!Cardinality(Aspect!Counted') = Aspect!Cardinality(Aspect!Counted) + 1
    BY <1>4, Zenon DEF Countable
  <2>4. err'[loc[x].e].errorCount = err[loc[x].e].errorCount + 1
    BY <1>0, <1>4, ErrorCounts, Zenon
  <2> QED
    BY <1>2, <2>1, <2>2, <2>3, <2>4, Zenon
<1>5. CASE /\ Aspect!Counted' = Aspect!Counted /\ DOMAIN err' = DOMAIN err
           /\ \A i \in DOMAIN err : err'[i].errorCount = err[i].errorCount
  <2>1. CASE UNCHANGED <<chain, nodeOf>>
    BY <1>0, <1>2, <1>5, <2>1, Zenon
  <2>2. ASSUME NEW x \in Execs, Aspect!AfterNewChain(x), chain = 0
        PROVE  Aspect!Cardinality(Aspect!Counted)' = 0 /\ nodeOf'[chain'] = 0
    <3>1. PICK k \in Nat :
           /\ DOMAIN nodeOf = 1..k /\ chain' = k + 1
           /\ nodeOf' = [i \in 1..k + 1 |-> IF i \in 1..k THEN nodeOf[i] ELSE 0]
      BY <1>0, <2>2, NewChainObjects, Zenon
    <3>2. k + 1 \in 1..k + 1 /\ k + 1 \notin 1..k
      OBVIOUS
    <3> QED
      BY <1>2, <1>5, <2>2, <3>1, <3>2, Zenon
  <2>3. ASSUME NEW x \in Execs, NewRecord(x) PROVE FALSE
    <3>1. pc[x] = "newNode" /\ pc' = [pc EXCEPT ![x] = "recorded"] /\ pc \in [Execs -> Pcs]
      BY <1>0, <2>3, Zenon DEF NewRecord, Aspect!AfterNewNode, Aspect!Goto, RecordType
    <3>2. x \in Aspect!Counted' /\ x \notin Aspect!Counted
      BY <3>1 DEF Aspect!Counted
    <3> QED
      BY <1>5, <3>2
  <2> QED
    BY <1>1, <2>1, <2>2, <2>3, Zenon
<1> QED
  BY <1>0, <1>3, <1>4, <1>5, CountStep, Zenon

\* An execution uses the one record.
UsesIt(x) ==
  /\ pc[x] \in {"node", "newNode"} => loc[x].c = chain
  /\ pc[x] \in {"add", "lockedAdd"} => chain # 0 /\ loc[x].e = nodeOf[chain]
  /\ pc[x] \in {"stamp", "lockedStamp", "recorded"} => chain # 0 /\ nodeOf[chain] # 0

\* One that stays where it is goes on using it.
LEMMA StaysWithIt ==
  ASSUME Sized, RecordType, Found, OneRecord, [Aspect!Next]_Aspect!vars, drops' = 0,
         NEW y \in Execs, pc'[y] = pc[y], loc'[y] = loc[y]
  PROVE  UsesIt(y)'
<1>1. UsesIt(y) /\ drops = 0
  BY CacheStep, Zenon DEF OneRecord, UsesIt, Aspect!Counted
<1>2. CASE UNCHANGED <<chain, nodeOf>>
  BY <1>1, <1>2, Zenon DEF UsesIt
<1>3. CASE chain = 0
  <2>1. pc[y] \notin {"node", "newNode", "add", "lockedAdd", "stamp", "lockedStamp", "recorded"}
    BY <1>1, <1>3 DEF UsesIt, Found
  <2> QED
    BY <2>1 DEF UsesIt
<1>4. ASSUME NEW x \in Execs, NewRecord(x) PROVE UsesIt(y)'
  <2>1. pc[x] = "newNode" /\ nodeOf[loc[x].c] = 0 /\ chain' = chain
    BY <1>4, Zenon DEF NewRecord, Aspect!AfterNewNode
  <2>2. loc[x].c = chain
    BY <1>1, <2>1 DEF OneRecord
  <2>3. pc[y] \notin {"add", "lockedAdd", "stamp", "lockedStamp", "recorded"}
    BY <1>1, <2>1, <2>2, Zenon DEF UsesIt, Found
  <2> QED
    BY <1>1, <2>1, <2>3, Zenon DEF UsesIt
<1> QED
  BY <1>2, <1>3, <1>4, CacheStep, Zenon

\* One that moves comes to use it.
LEMMA ComesToIt ==
  ASSUME Sized, RecordType, Found, OneRecord, drops' = 0, drops = 0,
         NEW x \in Execs, Aspect!Around(x) \/ Aspect!Execute(x) \/ Aspect!After(x)
  PROVE  UsesIt(x)'
<1>0. /\ pc \in [Execs -> Pcs] /\ loc \in [Execs -> Holding] /\ loc[x] \in Holding
      /\ UsesIt(x)
      /\ nodeOf \in [DOMAIN nodeOf -> {0} \cup DOMAIN err]
  BY Zenon DEF RecordType, OneRecord, UsesIt, Aspect!Counted
<1>1. CASE \/ Aspect!AroundChain(x) \/ Aspect!AroundNode(x) \/ Aspect!AroundCount(x)
           \/ Aspect!AroundTime(x) \/ Aspect!Skip(x) \/ Aspect!Execute(x) \/ Aspect!AroundDelete(x)
  <2>1. \E l \in {"execute", "load", "count", "time", "expired", "after", "succeeded"} :
          pc' = [pc EXCEPT ![x] = l]
    BY <1>1, Zenon DEF Aspect!AroundChain, Aspect!AroundNode, Aspect!AroundCount, Aspect!AroundTime,
       Aspect!Skip, Aspect!Execute, Aspect!AroundDelete, Aspect!Goto
  <2>2. pc'[x] \in {"execute", "load", "count", "time", "expired", "after", "succeeded"}
    BY <1>0, <2>1, Zenon
  <2> QED
    BY <2>2, Zenon DEF UsesIt
<1>2. CASE Aspect!AfterChain(x) \/ Aspect!AfterNewChain(x)
  <2>1. /\ pc' = [pc EXCEPT ![x] = "node"] \/ pc' = [pc EXCEPT ![x] = "newChain"]
        /\ loc' = [loc EXCEPT ![x].c = chain']
    BY <1>2, Zenon DEF Aspect!AfterChain, Aspect!AfterNewChain, Aspect!Goto
  <2>2. pc'[x] \in {"node", "newChain"}
    BY <1>0, <2>1, Zenon
  <2>3. loc'[x].c = chain'
    BY <1>0, <2>1 DEF Holding
  <2> QED
    BY <2>2, <2>3 DEF UsesIt
<1>3. CASE Aspect!AfterNode(x) \/ (Aspect!AfterNewNode(x) /\ ~NewRecord(x))
  <2> DEFINE e == nodeOf[loc[x].c]
  <2>1. /\ pc[x] \in {"node", "newNode"} /\ chain' = chain /\ nodeOf' = nodeOf
        /\ loc' = [loc EXCEPT ![x].e = e]
    BY <1>3, Zenon DEF Aspect!AfterNode, Aspect!AfterNewNode, NewRecord
  <2>2. \E l \in {"newNode", "add", "lockedAdd"} : pc' = [pc EXCEPT ![x] = l]
    BY <1>3, Zenon DEF Aspect!AfterNode, Aspect!AfterNewNode, NewRecord, Aspect!Goto
  <2>3. pc'[x] \in {"newNode", "add", "lockedAdd"}
    BY <1>0, <2>2, Zenon
  <2>4. loc[x].c = chain /\ chain # 0
    BY <1>0, <2>1 DEF UsesIt, Found
  <2>5. loc'[x].c = loc[x].c /\ loc'[x].e = e
    BY <1>0, <2>1 DEF Holding
  <2> QED
    BY <2>1, <2>3, <2>4, <2>5 DEF UsesIt
<1>4. CASE NewRecord(x)
  <2>1. /\ pc[x] = "newNode" /\ chain' = chain /\ pc' = [pc EXCEPT ![x] = "recorded"]
    BY <1>4, Zenon DEF NewRecord, Aspect!AfterNewNode, Aspect!Goto
  <2>2. loc[x].c = chain /\ chain # 0 /\ chain \in DOMAIN nodeOf
    BY <1>0, <2>1 DEF UsesIt, Found, Holding
  <2>3. PICK n : n # 0 /\ nodeOf' = [nodeOf EXCEPT ![chain] = n]
    BY <1>4, <2>2, ErrorCounts, Zenon
  <2>4. pc'[x] = "recorded" /\ nodeOf'[chain'] # 0
    BY <1>0, <2>1, <2>2, <2>3, Zenon
  <2> QED
    BY <2>1, <2>2, <2>4 DEF UsesIt
<1>5. CASE Aspect!AfterAdd(x) \/ Aspect!AfterStamp(x)
  <2>1. /\ pc[x] \in {"add", "lockedAdd", "stamp", "lockedStamp"} /\ chain' = chain /\ nodeOf' = nodeOf
        /\ \E l \in {"stamp", "lockedStamp", "recorded"} : pc' = [pc EXCEPT ![x] = l]
    BY <1>5, Zenon DEF Aspect!AfterAdd, Aspect!AfterStamp, Aspect!Goto
  <2>2. pc'[x] \in {"stamp", "lockedStamp", "recorded"}
    BY <1>0, <2>1, Zenon
  <2>3. chain # 0 /\ nodeOf[chain] # 0
    BY <1>0, <2>1, Zenon DEF UsesIt, Found
  <2> QED
    BY <2>1, <2>2, <2>3, Zenon DEF UsesIt
<1> QED
  BY <1>1, <1>2, <1>3, <1>4, <1>5, Zenon DEF Aspect!Around, Aspect!After

LEMMA OneRecordStep ==
  ASSUME Sized, RecordType, Found, OneRecord, [Aspect!Next]_Aspect!vars
  PROVE  OneRecord'
<1> SUFFICES ASSUME drops' = 0, NEW x \in Execs PROVE UsesIt(x)'
  BY Zenon DEF OneRecord, UsesIt, Aspect!Counted
<1>1. drops = 0
  BY CacheStep, Zenon
<1>2. CASE pc'[x] = pc[x] /\ loc'[x] = loc[x]
  BY <1>2, StaysWithIt, Zenon
<1>3. CASE Aspect!Around(x) \/ Aspect!Execute(x) \/ Aspect!After(x)
  BY <1>1, <1>3, ComesToIt, Zenon
<1>4. ASSUME NEW y \in Execs, y # x, Aspect!Around(y) \/ Aspect!Execute(y) \/ Aspect!After(y)
      PROVE  pc'[x] = pc[x] /\ loc'[x] = loc[x]
  BY <1>4, OthersStay, Zenon
<1>5. CASE Aspect!Tick \/ Aspect!DropChain \/ Aspect!DropNode \/ UNCHANGED Aspect!vars
  BY <1>2, <1>5, Zenon DEF Aspect!Tick, Aspect!DropChain, Aspect!DropNode, Aspect!vars
<1> QED
  BY <1>2, <1>3, <1>4, <1>5, Zenon DEF Aspect!Next
-----------------------------------------------------------------------------
INSTANCE FiniteSetTheorems

\* The module counts with the Cardinality of its own instance.
LEMMA SameSize ==
  /\ \A S : Aspect!Cardinality(S) = Cardinality(S)
  /\ \A S : Aspect!IsFiniteSet(S) <=> IsFiniteSet(S)
<1>1. ASSUME NEW S PROVE Aspect!Cardinality(S) = Cardinality(S)
  BY Zenon DEF Aspect!Cardinality, Cardinality
<1>2. ASSUME NEW S PROVE Aspect!IsFiniteSet(S) <=> IsFiniteSet(S)
  BY DEF Aspect!IsFiniteSet, IsFiniteSet
<1> QED
  BY <1>1, <1>2, Zenon

LEMMA SizedIs == Sized
<1> SUFFICES ASSUME NEW k \in Nat PROVE Cardinality(1..k) = k
  BY SameSize, Zenon DEF Sized
<1>1. 1 \in Int /\ k \in Int /\ (IF 1 > k THEN 0 ELSE k - 1 + 1) = k
  OBVIOUS
<1> QED
  BY <1>1, FS_Interval

LEMMA CountedIs ==
  ASSUME Aspect!AspectAssumption PROVE Countable(Aspect!Counted)
<1>1. IsFiniteSet(Aspect!Counted)
  <2>1. IsFiniteSet(Execs)
    BY SameSize, Zenon DEF Aspect!AspectAssumption
  <2> QED
    BY <2>1, FS_Subset, Zenon DEF Aspect!Counted
<1>2. Cardinality(Aspect!Counted) \in Nat
  BY <1>1, FS_CardinalityType, Zenon
<1>3. ASSUME NEW x, x \notin Aspect!Counted
      PROVE  Cardinality(Aspect!Counted \cup {x}) = Cardinality(Aspect!Counted) + 1
  BY <1>1, <1>3, FS_AddElement, Zenon
<1> QED
  BY <1>2, <1>3, SameSize, Zenon DEF Countable
-----------------------------------------------------------------------------
\* SkipInv is inductive.
LEMMA SkipInductive ==
  ASSUME Aspect!AspectAssumption
  PROVE  /\ Aspect!Init => SkipInv
         /\ SkipInv /\ [Aspect!Next]_Aspect!vars => SkipInv'
<1>1. ASSUME Aspect!Init PROVE SkipInv
  <2>1. /\ now = 0 /\ chain = 0 /\ drops = 0 /\ nodeOf = <<>> /\ err = <<>>
        /\ pc = [x \in Execs |-> "around"]
        /\ loc = [x \in Execs |-> [c |-> 0, e |-> 0, own |-> FALSE]]
    BY <1>1, Zenon DEF Aspect!Init
  <2>2. DOMAIN nodeOf = {} /\ DOMAIN err = {} /\ 1..0 = {} /\ 0 \in Nat
    BY <2>1
  <2>3. RecordType
    <3>1. (\E k \in Nat : DOMAIN nodeOf = 1..k) /\ (\E n \in Nat : DOMAIN err = 1..n)
      BY <2>2, Zenon
    <3>2. nodeOf \in [DOMAIN nodeOf -> {0} \cup DOMAIN err]
      BY <2>1
    <3>3. err \in [DOMAIN err -> [errorCount : Nat, lastErrorTime : Nat]]
      BY <2>1
    <3>4. pc \in [Execs -> Pcs]
      BY <2>1 DEF Pcs
    <3>5. loc \in [Execs -> Holding]
      BY <2>1 DEF Holding
    <3> QED
      BY <2>1, <2>2, <3>1, <3>2, <3>3, <3>4, <3>5, Zenon DEF RecordType
  <2>4. \A x \in Execs : pc[x] = "around"
    BY <2>1
  <2>5. Aspect!Counted = {}
    BY <2>4 DEF Aspect!Counted
  <2>6. Found /\ Earned /\ OneRecord
    BY <2>2, <2>4, <2>5, Zenon DEF Found, Earned, OneRecord
  <2>7. Aspect!Cardinality(Aspect!Counted) = 0
    BY <2>2, <2>5, SizedIs, Zenon DEF Sized
  <2>8. Aspect!CountsEveryFailure
    BY <2>1, <2>7, Zenon DEF Aspect!CountsEveryFailure
  <2> QED
    BY <2>3, <2>6, <2>8, Zenon DEF SkipInv
<1>2. ASSUME SkipInv, [Aspect!Next]_Aspect!vars PROVE SkipInv'
  <2>1. Sized /\ Countable(Aspect!Counted) /\ ErrorCountLimit \in Nat
    BY SizedIs, CountedIs, Zenon DEF Aspect!AspectAssumption
  <2>2. RecordType' /\ Found'
    BY <1>2, <2>1, RecordStep, Zenon DEF SkipInv
  <2>3. Earned'
    BY <1>2, <2>1, EarnedStep, Zenon DEF SkipInv
  <2>4. OneRecord'
    BY <1>2, <2>1, OneRecordStep, Zenon DEF SkipInv
  <2>5. Aspect!CountsEveryFailure'
    BY <1>2, <2>1, FailuresStep, Zenon
  <2> QED
    BY <2>2, <2>3, <2>4, <2>5, Zenon DEF SkipInv
<1> QED
  BY <1>1, <1>2, Zenon

(***************************************************************************)
(* The aspect counts every failure once, for any number of executions      *)
(* (skip_fallback_aspect.go, After).                                       *)
(***************************************************************************)
THEOREM EveryFailureCounted ==
  ASSUME Aspect!AspectAssumption PROVE Aspect!Spec => []Aspect!CountsEveryFailure
<1>1. Aspect!Init => SkipInv
  BY SkipInductive, Zenon
<1>2. SkipInv /\ [Aspect!Next]_Aspect!vars => SkipInv'
  BY SkipInductive, Zenon
<1>3. SkipInv => Aspect!CountsEveryFailure
  BY Zenon DEF SkipInv
<1> QED
  BY <1>1, <1>2, <1>3, PTL DEF Aspect!Spec

(***************************************************************************)
(* A node is skipped only when it has earned it.                           *)
(***************************************************************************)
THEOREM SkipsAreEarned ==
  ASSUME Aspect!AspectAssumption PROVE Aspect!Spec => Aspect!SkipIsEarned
<1>1. Aspect!Init => SkipInv
  BY SkipInductive, Zenon
<1>2. SkipInv /\ [Aspect!Next]_Aspect!vars => SkipInv'
  BY SkipInductive, Zenon
<1>3. SkipInv /\ [Aspect!Next]_Aspect!vars =>
        [\A x \in Execs : Aspect!Skip(x) => Aspect!Cardinality(Aspect!Counted) >= ErrorCountLimit]_Aspect!vars
  <2> SUFFICES ASSUME SkipInv, NEW x \in Execs, Aspect!Skip(x)
               PROVE  Aspect!Cardinality(Aspect!Counted) >= ErrorCountLimit
    BY Zenon
  <2>1. pc[x] = "time" /\ RecordType /\ Found /\ Earned
    BY Zenon DEF Aspect!Skip, SkipInv
  <2>2. loc[x] \in Holding
    BY <2>1, Zenon DEF RecordType
  <2>3. loc[x].e \in DOMAIN err
    BY <2>1, <2>2, Zenon DEF Found, Holding
  <2>4. err[loc[x].e].errorCount \in Nat
    BY <2>1, <2>3 DEF RecordType
  <2>5. Aspect!Cardinality(Aspect!Counted) \in Nat /\ ErrorCountLimit \in Nat
    BY CountedIs, Zenon DEF Countable, Aspect!AspectAssumption
  <2>6. /\ err[loc[x].e].errorCount <= Aspect!Cardinality(Aspect!Counted)
        /\ err[loc[x].e].errorCount >= ErrorCountLimit
    BY <2>1, <2>3, Zenon DEF Earned
  <2> QED
    BY <2>4, <2>5, <2>6
<1> QED
  BY <1>1, <1>2, <1>3, PTL DEF Aspect!Spec, Aspect!SkipIsEarned
=============================================================================
