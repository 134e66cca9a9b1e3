------------------------------ MODULE TaskPool ------------------------------
(***************************************************************************)
(* What a types.Pool promises to the rule engine: Submit either rejects a  *)
(* task or accepts it; an accepted task is run exactly once, to its end;   *)
(* at most Limit accepted tasks are unfinished at any time.                *)
(***************************************************************************)
EXTENDS Integers, FiniteSets

CONSTANTS Tasks, Limit

VARIABLE status

Unfinished == {t \in Tasks : status[t] \in {"accepted", "running"}}

Init == status = [t \in Tasks |-> "new"]

Accept(t) ==
  /\ status[t] = "new"
  /\ Cardinality(Unfinished) < Limit
  /\ status' = [status EXCEPT ![t] = "accepted"]

Reject(t) == status[t] = "new" /\ status' = [status EXCEPT ![t] = "rejected"]

Begin(t) == status[t] = "accepted" /\ status' = [status EXCEPT ![t] = "running"]

Finish(t) == status[t] = "running" /\ status' = [status EXCEPT ![t] = "done"]

Next == \E t \in Tasks : Accept(t) \/ Reject(t) \/ Begin(t) \/ Finish(t)

Spec == Init /\ [][Next]_status

FairSpec == Spec /\ \A t \in Tasks : WF_status(Begin(t)) /\ WF_status(Finish(t))
=============================================================================
