------------------------------ MODULE MCServer ------------------------------
(***************************************************************************)
(* Instances of Server for TLC: a chain of builtin components, one that    *)
(* needs a plugin, one with a component that nobody has, one whose Init    *)
(* needs a broker, JSON that is no chain, and a node; two plugins with a   *)
(* component in common, after a file that is no plugin.                    *)
(***************************************************************************)
EXTENDS Server

CONSTANTS c1, c2, plain, plugged, unknown, remote, list, node, bad, p0, p1, p2

InnerIds == [b \in {plain, plugged, unknown, remote, list, node, bad} |-> IF b \in {list, node, bad} THEN None ELSE c1]

UsedBy == [b \in {plain, plugged, unknown, remote, list, node, bad} |->
             IF b = plugged THEN {"x"} ELSE IF b = unknown THEN {"no"} ELSE {"js"}]

ProvidedBy == [p \in {p0, p1, p2} |-> IF p = p0 THEN <<"x">> ELSE IF p = p1 THEN <<"x", "y">> ELSE <<"y", "z">>]

RulesInOrder == <<c1, c2>>

PluginsInOrder == <<p0, p1, p2>>
=============================================================================
