----------------------------- MODULE MCDelayNode -----------------------------
(***************************************************************************)
(* Messages for model checking DelayNode.                                  *)
(***************************************************************************)
EXTENDS DelayNode, TLC

\* Distinct messages; copies of one message that reach the node on two paths.
OwnIds == CHOOSE f \in [Msgs -> Ids] : \A m, n \in Msgs : f[m] = f[n] => m = n
SameId == [m \in Msgs |-> CHOOSE i \in Ids : TRUE]
=============================================================================
