------------------------------ MODULE JsEngine ------------------------------
(***************************************************************************)
(* GojaJsEngine of components/js/js_engine.go: executions that share VMs   *)
(* through a sync.Pool, each guarded by a timer.  The timer and the        *)
(* execution agree over a channel of capacity one: whoever receives the 0  *)
(* decides whether the script is interrupted or has ended in time.         *)
(*                                                                         *)
(* An execution that finds no VM in the pool makes one, and the making     *)
(* (phase "new") runs the script under a timer of its own before the call  *)
(* (phase "call").  A VM bears the name of the execution that made it.     *)
(* goja is external: Interrupt sets a flag, which ends the script that the *)
(* VM runs, now or the next time, and is cleared by that.                  *)
(***************************************************************************)
EXTENDS Naturals, Sequences

CONSTANT Execs   \* the calls of Execute

Timers == Execs \X {"new", "call"}

VARIABLES
  pool,          \* vmPool: the VMs in it
  flagged,       \* VMs with a pending interrupt
  pc, phase,     \* where each execution is
  vm,            \* the VM it uses
  out,           \* what the script has come to
  state,         \* the contents of each state channel
  closed,        \* the state channels that are closed
  timer          \* where the goroutine of each timer is

vars == <<pool, flagged, pc, phase, vm, out, state, closed, timer>>

T(e) == <<e, phase[e]>>

Init ==
  /\ pool = {} /\ flagged = {} /\ closed = {}
  /\ pc = [e \in Execs |-> "idle"]
  /\ phase = [e \in Execs |-> "call"]
  /\ vm = [e \in Execs |-> e]
  /\ out = [e \in Execs |-> "none"]
  /\ state = [t \in Timers |-> <<>>]
  /\ timer = [t \in Timers |-> "off"]

Goto(e, l) == pc' = [pc EXCEPT ![e] = l]

\* vmPool.Get: a VM of the pool, or a new one; the pool may have dropped its VMs.
Get(e) ==
  /\ pc[e] = "idle"
  /\ \/ \E v \in pool :
          /\ vm' = [vm EXCEPT ![e] = v]
          /\ pool' = pool \ {v}
          /\ UNCHANGED phase
     \/ /\ phase' = [phase EXCEPT ![e] = "new"]
        /\ UNCHANGED <<vm, pool>>
  /\ Goto(e, "arm")
  /\ UNCHANGED <<flagged, out, state, closed, timer>>

\* setTimeout: the channel with its 0, and the timer.
SetTimeout(e) ==
  /\ pc[e] = "arm"
  /\ state' = [state EXCEPT ![T(e)] = <<0>>]
  /\ timer' = [timer EXCEPT ![T(e)] = "armed"]
  /\ Goto(e, "run")
  /\ UNCHANGED <<pool, flagged, phase, vm, out, closed>>

\* Mutant: the VM goes back to the pool as soon as the script has ended.
RunEndsPut(e) ==
  /\ pc[e] = "run"
  /\ \E r \in {"value", "error"} : out' = [out EXCEPT ![e] = r]
  /\ pool' = pool \cup {vm[e]}
  /\ Goto(e, "close")
  /\ UNCHANGED <<flagged, phase, vm, state, closed, timer>>

\* The script ends by itself, with a value or an exception.
RunEnds(e) ==
  /\ pc[e] = "run"
  /\ \E r \in {"value", "error"} : out' = [out EXCEPT ![e] = r]
  /\ Goto(e, "close")
  /\ UNCHANGED <<pool, flagged, phase, vm, state, closed, timer>>

\* The script meets the interrupt flag of its VM.
RunInterrupted(e) ==
  /\ pc[e] = "run"
  /\ vm[e] \in flagged
  /\ flagged' = flagged \ {vm[e]}
  /\ out' = [out EXCEPT ![e] = "error"]
  /\ Goto(e, "close")
  /\ UNCHANGED <<pool, phase, vm, state, closed, timer>>

\* The name is not a function, or a Go function called by the script panics:
\* Execute returns an error, keeps the VM out of the pool, and leaves the timer
\* to itself.
Abandon(e) ==
  /\ pc[e] = "run"
  /\ out' = [out EXCEPT ![e] = "error"]
  /\ Goto(e, "done")
  /\ UNCHANGED <<pool, flagged, phase, vm, state, closed, timer>>

\* Mutant: closeStateChan only closes.
CloseWithoutToken(e) ==
  /\ pc[e] = "close"
  /\ Goto(e, "shut")
  /\ UNCHANGED <<pool, flagged, phase, vm, out, state, closed, timer>>

\* closeStateChan: the receive.
CloseReceive(e) ==
  /\ pc[e] = "close"
  /\ state[T(e)] # <<>>
  /\ state' = [state EXCEPT ![T(e)] = <<>>]
  /\ Goto(e, IF Head(state[T(e)]) = 0 THEN "mark" ELSE "shut")
  /\ UNCHANGED <<pool, flagged, phase, vm, out, closed, timer>>

\* closeStateChan: the send, for the one that has received the 0, and the close.
\* A new VM whose script failed panics, which Execute recovers; otherwise the
\* call follows.
CloseChan(e) ==
  /\ pc[e] \in {"mark", "shut"}
  /\ state' = IF pc[e] = "mark" THEN [state EXCEPT ![T(e)] = <<1>>] ELSE state
  /\ closed' = closed \cup {T(e)}
  /\ phase' = [phase EXCEPT ![e] = "call"]
  /\ Goto(e, IF phase[e] = "call" THEN "put" ELSE IF out[e] = "error" THEN "done" ELSE "arm")
  /\ UNCHANGED <<pool, flagged, vm, out, timer>>

\* vmPool.Put, and the return.
Put(e) ==
  /\ pc[e] = "put"
  /\ pool' = pool \cup {vm[e]}
  /\ Goto(e, "done")
  /\ UNCHANGED <<flagged, phase, vm, out, state, closed, timer>>

\* The timer fires and receives; a closed and empty channel gives 0.
Fire(t) ==
  /\ timer[t] = "armed"
  /\ state[t] # <<>> \/ t \in closed
  /\ state' = [state EXCEPT ![t] = <<>>]
  /\ timer' = [timer EXCEPT ![t] = IF state[t] \in {<<>>, <<0>>} THEN "took" ELSE "off"]
  /\ UNCHANGED <<pool, flagged, pc, phase, vm, out, closed>>

\* Mutant: the timer does not say that it has interrupted.
ClaimSilently(t) ==
  /\ timer[t] = "took"
  /\ timer' = [timer EXCEPT ![t] = "claimed"]
  /\ UNCHANGED <<pool, flagged, pc, phase, vm, out, state, closed>>

\* The timer: state <- 2
Claim(t) ==
  /\ timer[t] = "took"
  /\ state' = [state EXCEPT ![t] = <<2>>]
  /\ timer' = [timer EXCEPT ![t] = "claimed"]
  /\ UNCHANGED <<pool, flagged, pc, phase, vm, out, closed>>

\* The timer: vm.Interrupt
Interrupt(t) ==
  /\ timer[t] = "claimed"
  /\ flagged' = flagged \cup {vm[t[1]]}
  /\ timer' = [timer EXCEPT ![t] = "off"]
  /\ UNCHANGED <<pool, pc, phase, vm, out, state, closed>>

Exec(e) ==
  \/ Get(e) \/ SetTimeout(e) \/ RunInterrupted(e)
  \/ CloseReceive(e) \/ CloseChan(e) \/ Put(e)

Time(t) == Fire(t) \/ Claim(t) \/ Interrupt(t)

Next ==
  \/ \E e \in Execs : Exec(e) \/ RunEnds(e) \/ Abandon(e)
  \/ \E t \in Timers : Time(t)

Spec == Init /\ [][Next]_vars

\* Goroutines run and timers fire; a script may run forever.
FairSpec ==
  /\ Spec
  /\ \A e \in Execs : WF_vars(Exec(e))
  /\ \A t \in Timers : WF_vars(Time(t))
-----------------------------------------------------------------------------
TypeOK ==
  /\ pool \subseteq Execs /\ flagged \subseteq Execs
  /\ closed \subseteq Timers
  /\ pc \in [Execs -> {"idle", "arm", "run", "close", "mark", "shut", "put", "done"}]
  /\ phase \in [Execs -> {"new", "call"}]
  /\ vm \in [Execs -> Execs]
  /\ out \in [Execs -> {"none", "value", "error"}]
  /\ state \in [Timers -> {<<>>, <<0>>, <<1>>, <<2>>}]
  /\ timer \in [Timers -> {"off", "armed", "took", "claimed"}]

Using(e) == pc[e] \notin {"idle", "done"}

(***************************************************************************)
(* A goja VM is not goroutine safe: no two executions use the same VM, and *)
(* no VM in use is in the pool (Execute, Get to Put).                      *)
(***************************************************************************)
OneUser ==
  \A e \in Execs : Using(e) =>
    /\ vm[e] \notin pool
    /\ \A f \in Execs \ {e} : Using(f) => vm[f] # vm[e]

(***************************************************************************)
(* The 0 of a state channel is received once (setTimeout, closeStateChan): *)
(* a timer that has decided to interrupt finds the channel open, so its    *)
(* send cannot panic, and the execution has not yet been told otherwise.   *)
(***************************************************************************)
TimerClaimsFirst ==
  \A t \in Timers : timer[t] = "took" =>
    t \notin closed /\ state[t] = <<>> /\ ~(pc[t[1]] = "mark" /\ T(t[1]) = t)

(***************************************************************************)
(* Execute returns, also when the script would run forever: the timer      *)
(* interrupts it, and neither side waits for the other for good.           *)
(***************************************************************************)
ExecuteReturns == \A e \in Execs : pc[e] = "arm" ~> pc[e] = "done"
=============================================================================
