----------------------------- MODULE MCEndpoint -----------------------------
(***************************************************************************)
(* Instances of Endpoint for TLC: two routers for one path and one for     *)
(* another; one leads to a chain, one to a component and one to nothing.   *)
(***************************************************************************)
EXTENDS Endpoint

CONSTANTS a, b, c

TwoPaths == [r \in {a, b, c} |-> IF r = b THEN "B" ELSE "A"]

\* rest gets a for two methods, and c for one of them, in lower case.
ByMethod ==
  [x \in Kinds |-> IF x = "rest" THEN {<<"GET", a>>, <<"POST", a>>, <<"get", c>>}
                   ELSE {"GET"} \X {a, b, c}]

Upper == [m \in Methods |-> IF m = "get" THEN "GET" ELSE m]

LeadTo == [r \in {a, b, c} |-> IF r = a THEN "chain" ELSE IF r = b THEN "component" ELSE None]
=============================================================================
