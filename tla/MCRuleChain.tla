---------------------------- MODULE MCRuleChain ----------------------------
(***************************************************************************)
(* Three definitions of a chain for model checking: a node is added with   *)
(* two routes to it, and then removed while a route to it is left.         *)
(***************************************************************************)
EXTENDS RuleChain, TLC

CONSTANTS a, b, c

MCIds == {a, b, c}

MCNodesOf == [d \in 0..Last |-> IF d = 1 THEN {a, b, c} ELSE {a, b}]

MCFirstOf == [d \in 0..Last |-> a]

MCRoutesOf ==
  [d \in 0..Last |->
    CASE d = 0 -> (a :> <<b>> @@ b :> <<>> @@ c :> <<>>)
      [] d = 1 -> (a :> <<b, c>> @@ b :> <<c>> @@ c :> <<>>)
      [] OTHER -> (a :> <<c, b>> @@ b :> <<>> @@ c :> <<>>)]

Symmetry == Permutations(Msgs)
=============================================================================
