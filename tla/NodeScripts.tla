---------------------------- MODULE NodeScripts -----------------------------
(***************************************************************************)
(* What the node components tell: for each of them the set of scripts, in  *)
(* the sense of RuleContext, that its OnMsg can follow for a message.  The *)
(* result of a script, an expression, a statement or a request is any of   *)
(* the ones that the component tells apart.                                *)
(***************************************************************************)
EXTENDS Naturals, Sequences, SequencesExt, TLC

CONSTANTS
  Lists,         \* lists of relation types that a switch script returns
  MaxItems,      \* items of an iteration, events of a stream
  Registered     \* what the functions registered by the program do

Rels == {"True", "False", "Success", "Failure"}

Tells(rels) == [tells |-> [i \in DOMAIN rels |-> <<rels[i]>>], panics |-> FALSE]

TellSuccess == Tells(<<"Success">>)
TellFailure == Tells(<<"Failure">>)

\* What a JavaScript function or an expression comes to: an error, true, or something
\* else that is, or is not, of the type that the node expects.
Results == {"error", "true", "expected", "unexpected"}

Verdict(out) == IF out = "true" THEN "True" ELSE "False"

\* What ExprFilterNode.OnMsg tells; an expression that did not compile is an error here.
ExprFilter == {IF out = "error" THEN TellFailure ELSE Tells(<<Verdict(out)>>) : out \in Results}

JsFilter == {IF out = "error" THEN TellFailure ELSE Tells(<<Verdict(out)>>) : out \in Results}

\* strings.Split: the list of names of an empty configuration has the empty name in it.
NamesList(names) == IF names = {} THEN {""} ELSE names

CheckAllKeys(names, has) == NamesList(names) \subseteq has

CheckAtLeastOne(names, has) == NamesList(names) \cap has # {}

\* FieldFilterNode.OnMsg for the names in its configuration and those in the message.
FieldFilterOf(all, metadataNames, dataNames, metadata, data) ==
  Tells(<<IF \/ all /\ CheckAllKeys(metadataNames, metadata) /\ CheckAllKeys(dataNames, data)
             \/ ~all /\ (CheckAtLeastOne(metadataNames, metadata) \/ CheckAtLeastOne(dataNames, data))
          THEN "True" ELSE "False">>)

FieldFilter ==
  LET Names == SUBSET {"k"}
  IN {TellFailure} \cup
     {FieldFilterOf(all, mn, dn, m, d) : all \in BOOLEAN, mn \in Names, dn \in Names, m \in Names, d \in Names}

\* JsSwitchNode.OnMsg tells each element of the list in turn: an empty list, nothing.
JsSwitch == {TellFailure} \cup {Tells(list) : list \in Lists}

MsgTypeSwitch == {Tells(<<type>>) : type \in Rels}

\* ExprTransformNode.OnMsg: one expression, or one per field until one fails, and then
\* the conversion of the result to text.
ExprTransform ==
  {IF "error" \in {outs[i] : i \in DOMAIN outs} \/ "unexpected" \in {outs[i] : i \in DOMAIN outs}
   THEN TellFailure ELSE TellSuccess : outs \in UNION {[1..n -> Results] : n \in 0..MaxItems}}

\* JsTransformNode.OnMsg: an error, something else than a map, or data that has no text.
JsTransform == {IF out = "expected" THEN TellSuccess ELSE TellFailure : out \in Results}

JsLog == {IF out = "expected" THEN TellSuccess ELSE TellFailure : out \in Results}

\* The function tells for the node, or there is none of that name.
FunctionsNode == {TellFailure} \cup Registered

\* IteratorNode.OnMsg over items with these results: True or False for each, up to the
\* first error, which ends the loop with Failure; without an error, Success at the end.
Iterate(outs) ==
  LET errors == {i \in DOMAIN outs : outs[i] = "error"}
      upTo == IF errors = {} THEN Len(outs) ELSE CHOOSE i \in errors : \A j \in errors : i <= j
      told == [i \in 1..upTo |-> IF outs[i] = "error" THEN "Failure" ELSE Verdict(outs[i])]
  IN Tells(IF errors = {} THEN Append(told, "Success") ELSE told)

\* The field is not there, or is neither a list nor a map; or it is iterated.
Iterator == {TellFailure} \cup {Iterate(outs) : outs \in UNION {[1..n -> Results] : n \in 0..MaxItems}}

\* Where an operation fails, or "none".  DbClientNode.query; update, insert and delete:
Query == {"query", "columns", "scan", "rows", "none"}
Exec == {"exec", "rowsAffected", "none"}

Outcome(failure) == IF failure = "none" THEN TellSuccess ELSE TellFailure

\* DbClientNode.OnMsg, by the kind of statement.
DbClient == {Outcome(f) : f \in Query \cup Exec \cup {"unsupported"}}

\* MqttClientNode.OnMsg.
MqttClientNode == {Outcome(f) : f \in {"client", "publish", "none"}}

\* Email.SendEmailWithTls: the first step that fails is the error.
SendEmailWithTls == {"dial", "client", "auth", "mail", "rcpt", "data", "write", "close", "quit", "none"}

\* SendEmailNode.OnMsg, with TLS or without.
SendEmail == {Outcome(f) : f \in SendEmailWithTls \cup {"sendMail"}}

\* SshNode.OnMsg.
Ssh == {Outcome(f) : f \in {"client", "cmd", "session", "output", "none"}}

\* readFromStream: Success for each event, and Failure when the stream breaks off.
ReadFromStream(events, broken) ==
  Tells([i \in 1..events |-> "Success"] \o IF broken THEN <<"Failure">> ELSE <<>>)

\* RestApiCallNode.OnMsg: the response is a stream, or is told as a whole.
RestApiCall ==
  {Outcome(f) : f \in {"request", "do", "body", "status", "none"}} \cup
  {ReadFromStream(n, broken) : n \in 0..MaxItems, broken \in BOOLEAN}

\* TellFlow: the sub chain is not there, or calls onAllNodeCompleted: not at all if one
\* of its nodes is silent, and twice at most (see CompletedOnce).
TellFlow(found, completed) ==
  IF found THEN Tells([i \in 1..completed |-> "Success"]) ELSE TellFailure

\* ChainNode.OnMsg tells when the sub chain has completed.
Flow == {TellFlow(found, completed) : found \in BOOLEAN, completed \in 0..2}

\* RuleChainCtx.OnMsg, a chain that is a node of another one: TellFlow with nil for both
\* callbacks, so that nothing tells the outer chain that the inner one has completed.
SubChain == {TellFlow(found, 0) : found \in BOOLEAN}

\* DelayNode.OnMsg: Success when the timer of the message comes, Failure, or nothing for
\* a message that takes the place of the pending one.
Delay == {TellSuccess, TellFailure, Tells(<<>>)}

\* GroupActionNode.OnMsg, and nothing while the verdict of the group is out.
GroupAction == {TellSuccess, TellFailure, Tells(<<>>)}

GroupFilter == {Tells(<<Verdict(out)>>) : out \in Results} \cup {TellFailure, Tells(<<>>)}
-----------------------------------------------------------------------------
(* The aspects.  An aspect has an order, the points where it advises, and  *)
(* for Around the tells it makes and whether it lets the node go on.       *)

\* GetNodeAspects and its likes: the aspects of a point, in the order of Order().
GetAspects(aspects, point) ==
  SelectSeq(SortSeq(aspects, LAMBDA a, b : a.order < b.order), LAMBDA a : point \in a.points)

\* executeAroundAop: every Around advice runs, whatever the ones before it said; the node
\* runs after them unless one of them said no.
ExecuteAroundAop(aspects, script) ==
  LET around == GetAspects(aspects, "around")
      own == FlattenSeq([i \in DOMAIN around |-> around[i].tells])
  IN IF \A i \in DOMAIN around : around[i].goesOn
     THEN [script EXCEPT !.tells = own \o @]
     ELSE [tells |-> own, panics |-> FALSE]

Advised(aspectLists, scripts) == {ExecuteAroundAop(as, s) : as \in aspectLists, s \in scripts}

\* The built-in aspects: Debug, and SkipFallbackAspect, which tells Failure for a node
\* that it skips.
Debug == [order |-> 900, points |-> {"before", "after"}, tells |-> <<>>, goesOn |-> TRUE]

SkipFallback(skips) ==
  [order |-> 10, points |-> {"around", "after", "reload", "destroy"},
   tells |-> IF skips THEN TellFailure.tells ELSE <<>>, goesOn |-> ~skips]
=============================================================================
