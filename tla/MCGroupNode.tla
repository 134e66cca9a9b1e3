----------------------------- MODULE MCGroupNode -----------------------------
(***************************************************************************)
(* Groups for model checking GroupNode.                                    *)
(***************************************************************************)
EXTENDS GroupNode, TLC

Rels == {"True", "False", "Failure"}

Found(tl) == [found |-> TRUE, tells |-> tl]
Missing == [found |-> FALSE, tells |-> <<>>]

\* Node 1 may panic or tell twice.
Loose ==
  [i \in Ids |-> {Found(<<"True">>), Found(<<"False">>)}
                   \cup IF i = 1 THEN {Found(<<>>), Found(<<"True", "False">>)} ELSE {Missing}]

\* One of the nodes does not match.
OneFalse == [i \in Ids |-> {Found(<<IF i = 1 THEN "False" ELSE "True">>)}]

AllConfs == [mode : {"action", "all", "any"}, timeout : BOOLEAN]
AllMatches == {[mode |-> "all", timeout |-> FALSE]}
=============================================================================
