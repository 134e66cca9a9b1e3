-------------------------- MODULE GroupNodeProofs ---------------------------
(***************************************************************************)
(* The group nodes send one verdict and earn it, and a verdict for which   *)
(* all nodes have ended merges all their results: for any number of nodes, *)
(* MatchNum and behaviour of the nodes.                                    *)
(***************************************************************************)
EXTENDS GroupNode, TLAPS

PCs == {"check", "count", "match", "decide", "last", "cas", "send", "finished"}

CbRec == [pc : PCs, rel : Relations, inline : BOOLEAN, v : BOOLEAN]

GroupType ==
  /\ next \in Nat /\ next >= 1
  /\ tells \in [Ids -> Seq(Relations)]
  /\ DOMAIN cb \subseteq Ids \X Nat
  /\ cb \in [DOMAIN cb -> CbRec]
  /\ endCount \in Nat /\ currentMatchedCount \in Nat /\ completed \in {0, 1}
  /\ msgs \subseteq Ids
  /\ conf \in [mode : {"action", "all", "any"}, timeout : BOOLEAN]

\* The number of a callback that is still to come is free.
FreshKeys ==
  /\ \A i \in Ids : i >= next => tells[i] = <<>>
  /\ \A x \in DOMAIN cb : x[1] < next /\ x[2] > Len(tells[x[1]])

At(l) == {x \in DOMAIN cb : cb[x].pc \in l}

\* Only the callback that has swapped completed sends, and it sends once.
OneVerdict ==
  /\ completed = 0 => c = <<>> /\ At({"send"}) = {}
  /\ At({"send"}) # {} => c = <<>>
  /\ \A x, y \in At({"send"}) : x = y
  /\ c = <<>> \/ c = <<TRUE>> \/ c = <<FALSE>>

\* Matching callbacks that can have been counted.
Passed == Matching \ At({"check", "count", "match"})

\* The condition for the first verdict; once true it stays true.
Earned ==
  CASE Mode = "action" -> currentMatchedCount >= Need
    [] Mode = "all"    -> Matching # DOMAIN cb
    [] Mode = "any"    -> Matching # {}

EarnedInv ==
  /\ currentMatchedCount <= Cardinality(Passed)
  /\ \A x \in At({"cas", "send"}) : cb[x].v = Early => Earned
  /\ c = <<Early>> => Earned

\* Callbacks that can have been counted and whose node has filled msgs.
Ended == {x \in DOMAIN cb : x[1] \in msgs /\ cb[x].pc \notin {"check", "count"}}

\* All callbacks are the first ones of their nodes.
ToldOnce == \A x \in DOMAIN cb : x[2] = 1

MergeInv ==
  Mode = "action" =>
    /\ \A x \in DOMAIN cb : cb[x].pc \notin {"check", "finished"} => x[1] \in msgs
    /\ endCount <= Cardinality(Ended)
    /\ \A x \in At({"cas", "send"}) : ~cb[x].v => endCount >= Length
    /\ c = <<FALSE>> /\ ToldOnce => merged = Ids

GroupInv ==
  /\ GroupType /\ IsFiniteSet(DOMAIN cb) /\ FreshKeys
  /\ OneVerdict /\ EarnedInv /\ MergeInv

\* What is used of the sizes of two sets; CountsOf shows it of all finite ones.
Counts(S, T) ==
  /\ Cardinality(S) \in Nat /\ Cardinality(T) \in Nat
  /\ S \subseteq T => Cardinality(S) <= Cardinality(T)
  /\ \A x : x \notin S /\ T = S \cup {x} => Cardinality(T) = Cardinality(S) + 1
-----------------------------------------------------------------------------
(* What the steps do to the callbacks.                                     *)

\* A new callback starts with "check"; the others go on as they were.
LEMMA CallbackParts ==
  ASSUME GroupType, NEW i \in Ids, NEW k \in Nat, <<i, k>> \notin DOMAIN cb,
         NEW rel \in Relations, NEW inline \in BOOLEAN, Callback(i, k, rel, inline)
  PROVE  /\ DOMAIN cb' = DOMAIN cb \cup {<<i, k>>}
         /\ DOMAIN cb' \subseteq Ids \X Nat /\ cb' \in [DOMAIN cb' -> CbRec]
         /\ cb'[<<i, k>>].pc = "check"
         /\ \A y \in DOMAIN cb : cb'[y] = cb[y]
<1> DEFINE r == [pc |-> "check", rel |-> rel, inline |-> inline, v |-> FALSE]
           x == <<i, k>>
<1>1. r \in CbRec /\ r.pc = "check"
  BY DEF CbRec, PCs
<1>2. cb' = [y \in DOMAIN cb \cup {x} |-> IF y = x THEN r ELSE cb[y]]
  BY DEF Callback
<1>3. x \in Ids \X Nat /\ x \notin DOMAIN cb
  OBVIOUS
<1> HIDE DEF r, x
<1>4. /\ DOMAIN cb' = DOMAIN cb \cup {x} /\ cb' \in [DOMAIN cb' -> CbRec]
      /\ cb'[x].pc = "check" /\ \A y \in DOMAIN cb : cb'[y] = cb[y]
  BY <1>1, <1>2, <1>3 DEF GroupType
<1> QED
  BY <1>3, <1>4 DEF GroupType, x

\* Callbacks are only added, and nothing else that the verdict depends on changes.
Grows ==
  /\ DOMAIN cb \subseteq DOMAIN cb'
  /\ DOMAIN cb' = DOMAIN cb \/ \E x : DOMAIN cb' = DOMAIN cb \cup {x}
  /\ \A y \in DOMAIN cb : cb'[y] = cb[y]
  /\ \A y \in DOMAIN cb' \ DOMAIN cb : cb'[y].pc = "check"
  /\ UNCHANGED <<endCount, currentMatchedCount, completed, msgs, c, merged, conf>>

\* The loop of OnMsg and the tells of the nodes add callbacks with free numbers.
LEMMA GrowStep ==
  ASSUME GroupType, FreshKeys, ExecuteNode \/ \E i \in Ids : Tell(i)
  PROVE  GroupType' /\ FreshKeys' /\ Grows
<1>0. /\ "Failure" \in Relations /\ Length \in Nat
      /\ Behaviours \in [Ids -> SUBSET [found : BOOLEAN, tells : Seq(Relations)]]
  BY GroupAssumption
<1>1. CASE ExecuteNode
  <2>1. next \in Ids /\ next' = next + 1
    BY <1>0, <1>1 DEF GroupType, ExecuteNode, Ids
  <2>2. PICK b \in Behaviours[next] :
          IF b.found THEN tells' = [tells EXCEPT ![next] = b.tells] /\ UNCHANGED cb
          ELSE Callback(next, 1, "Failure", TRUE) /\ UNCHANGED tells
    BY <1>1, Zenon DEF ExecuteNode
  <2>3. b \in [found : BOOLEAN, tells : Seq(Relations)]
    BY <1>0, <2>1
  <2>4. UNCHANGED <<endCount, currentMatchedCount, completed, msgs, c, merged, conf>>
    BY <1>1 DEF ExecuteNode
  <2>5. tells[next] = <<>> /\ \A x \in DOMAIN cb : x[1] # next
    BY <2>1 DEF GroupType, FreshKeys
  <2>6. \A i \in Ids : i >= next + 1 => i >= next /\ i # next
    BY <2>1 DEF Ids, GroupType
  <2>7. \A x \in DOMAIN cb : x[1] \in Ids /\ x[1] < next + 1
    BY <2>1 DEF FreshKeys, GroupType, Ids
  <2>8. CASE b.found
    <3>1. tells' = [tells EXCEPT ![next] = b.tells] /\ UNCHANGED cb
      BY <2>2, <2>8
    <3>2. /\ tells' \in [Ids -> Seq(Relations)]
          /\ \A i \in Ids : i # next => tells'[i] = tells[i]
      BY <2>1, <2>3, <3>1 DEF GroupType
    <3>3. GroupType'
      BY <2>1, <2>4, <3>1, <3>2 DEF GroupType
    <3>4. \A i \in Ids : i >= next' => tells'[i] = <<>>
      BY <2>1, <2>6, <3>2 DEF FreshKeys
    <3>5. \A x \in DOMAIN cb' : x[1] < next' /\ x[2] > Len(tells'[x[1]])
      BY <2>1, <2>5, <2>7, <3>1, <3>2 DEF FreshKeys
    <3> QED
      BY <2>4, <3>1, <3>3, <3>4, <3>5 DEF FreshKeys, Grows
  <2>9. CASE ~b.found
    <3> DEFINE x == <<next, 1>>
    <3>1. Callback(next, 1, "Failure", TRUE) /\ UNCHANGED tells
      BY <2>2, <2>9, Zenon
    <3>2. x \notin DOMAIN cb /\ x[1] = next /\ x[2] = 1
      BY <2>5
    <3>3. /\ DOMAIN cb' = DOMAIN cb \cup {x}
          /\ DOMAIN cb' \subseteq Ids \X Nat /\ cb' \in [DOMAIN cb' -> CbRec]
          /\ cb'[x].pc = "check"
          /\ \A y \in DOMAIN cb : cb'[y] = cb[y]
      BY <1>0, <2>1, <3>1, <3>2, CallbackParts, Zenon
    <3>4. GroupType'
      BY <2>1, <2>4, <3>1, <3>3 DEF GroupType
    <3>5. Len(tells[next]) = 0
      BY <2>5
    <3> HIDE DEF x
    <3>6. \A y \in DOMAIN cb' : y[1] < next' /\ y[2] > Len(tells'[y[1]])
      BY <2>1, <2>7, <3>1, <3>2, <3>3, <3>5 DEF FreshKeys, GroupType
    <3>7. \A i \in Ids : i >= next' => tells'[i] = <<>>
      BY <2>1, <2>6, <3>1 DEF FreshKeys
    <3> QED
      BY <2>4, <3>3, <3>4, <3>6, <3>7, Zenon DEF FreshKeys, Grows
  <2> QED
    BY <2>3, <2>8, <2>9
<1>2. ASSUME NEW i \in Ids, Tell(i) PROVE GroupType' /\ FreshKeys' /\ Grows
  <2> DEFINE k == Len(tells[i])
             x == <<i, k>>
  <2>1. /\ tells[i] # <<>> /\ Callback(i, k, Head(tells[i]), FALSE)
        /\ tells' = [tells EXCEPT ![i] = Tail(tells[i])]
        /\ UNCHANGED <<next, endCount, currentMatchedCount, completed, msgs, c, merged, conf>>
    BY <1>2, Zenon DEF Tell
  <2>2. /\ k \in Nat \ {0} /\ Head(tells[i]) \in Relations
        /\ Tail(tells[i]) \in Seq(Relations) /\ Len(Tail(tells[i])) = k - 1
    BY <2>1 DEF GroupType
  <2>3. x \notin DOMAIN cb /\ x[1] = i /\ x[2] = k
    BY <2>2 DEF FreshKeys
  <2>4. /\ DOMAIN cb' = DOMAIN cb \cup {x}
        /\ DOMAIN cb' \subseteq Ids \X Nat /\ cb' \in [DOMAIN cb' -> CbRec]
        /\ cb'[x].pc = "check"
        /\ \A y \in DOMAIN cb : cb'[y] = cb[y]
    BY <2>1, <2>2, <2>3, CallbackParts, Zenon
  <2>5. /\ tells' \in [Ids -> Seq(Relations)] /\ Len(tells'[i]) = k - 1
        /\ \A j \in Ids : j # i => tells'[j] = tells[j]
    BY <2>1, <2>2 DEF GroupType
  <2>6. GroupType'
    BY <2>1, <2>4, <2>5 DEF GroupType
  <2>7. i < next
    BY <2>1, <1>0 DEF FreshKeys, GroupType, Ids
  <2>8. \A j \in Ids : j >= next' => tells'[j] = <<>>
    BY <2>1, <2>5, <2>7, <1>0 DEF FreshKeys, Ids, GroupType
  <2>9. \A y \in DOMAIN cb : y[1] \in Ids /\ y[2] \in Nat /\ y[1] < next /\ y[2] > Len(tells[y[1]])
    BY DEF FreshKeys, GroupType
  <2> HIDE DEF x, k
  <2>10. ASSUME NEW y \in DOMAIN cb' PROVE y[1] < next' /\ y[2] > Len(tells'[y[1]])
    <3>1. CASE y = x
      BY <2>1, <2>2, <2>3, <2>5, <2>7, <3>1
    <3>2. CASE y \in DOMAIN cb /\ y[1] = i
      BY <2>1, <2>2, <2>5, <2>9, <3>2 DEF k
    <3>3. CASE y \in DOMAIN cb /\ y[1] # i
      BY <2>1, <2>5, <2>9, <3>3
    <3> QED
      BY <2>4, <3>1, <3>2, <3>3
  <2> QED
    BY <2>1, <2>4, <2>6, <2>8, <2>10, Zenon DEF FreshKeys, Grows
<1> QED
  BY <1>1, <1>2
\* Callback x goes to l; its relation and the other callbacks stay.
Moved(x, l) ==
  /\ DOMAIN cb' = DOMAIN cb /\ cb' \in [DOMAIN cb -> CbRec]
  /\ cb'[x].pc = l /\ cb'[x].rel = cb[x].rel
  /\ \A y \in DOMAIN cb : y # x => cb'[y] = cb[y]

\* Goto moves one callback and changes nothing else of it.
LEMMA GotoParts ==
  ASSUME GroupType, NEW x \in DOMAIN cb, NEW l \in PCs, Goto(x, l)
  PROVE  Moved(x, l) /\ cb'[x].v = cb[x].v
  BY Zenon DEF GroupType, Goto, Moved, CbRec

\* A callback that is given other fields stays well typed, and the others are as before.
LEMMA SetParts ==
  ASSUME GroupType, NEW x \in DOMAIN cb, NEW l \in PCs, NEW b \in BOOLEAN,
         cb' = [cb EXCEPT ![x].pc = l, ![x].v = b]
  PROVE  Moved(x, l) /\ cb'[x].v = b
  BY Zenon DEF GroupType, Moved, CbRec

\* The steps of a callback one by one, with what they leave alone.
LEMMA StepParts ==
  ASSUME GroupType, NEW x \in DOMAIN cb, Steps(x)
  PROVE  /\ UNCHANGED <<next, tells, conf>>
         /\ \/ /\ cb[x].pc = "check" /\ completed = 0 /\ Moved(x, "count")
               /\ msgs' = (IF Mode = "action" THEN msgs \cup {x[1]} ELSE msgs)
               /\ UNCHANGED <<endCount, currentMatchedCount, completed, c, merged>>
            \/ /\ cb[x].pc = "check" /\ Moved(x, "finished")
               /\ UNCHANGED <<endCount, currentMatchedCount, completed, msgs, c, merged>>
            \/ /\ cb[x].pc = "count" /\ endCount' = endCount + 1
               /\ Moved(x, IF Mode = "action" THEN "match" ELSE "decide")
               /\ UNCHANGED <<currentMatchedCount, completed, msgs, c, merged>>
            \/ /\ cb[x].pc = "match" /\ Moved(x, "decide")
               /\ currentMatchedCount' =
                    (IF cb[x].rel = Match THEN currentMatchedCount + 1 ELSE currentMatchedCount)
               /\ UNCHANGED <<endCount, completed, msgs, c, merged>>
            \/ /\ cb[x].pc = "decide" /\ cb'[x].v = Early
               /\ Moved(x, IF Decided(x) THEN "cas" ELSE "last")
               /\ UNCHANGED <<endCount, currentMatchedCount, completed, msgs, c, merged>>
            \/ /\ cb[x].pc = "last" /\ endCount >= Length
               /\ Moved(x, "cas") /\ cb'[x].v = ~Early
               /\ UNCHANGED <<endCount, currentMatchedCount, completed, msgs, c, merged>>
            \/ /\ cb[x].pc = "last" /\ Moved(x, "finished")
               /\ UNCHANGED <<endCount, currentMatchedCount, completed, msgs, c, merged>>
            \/ /\ cb[x].pc = "cas" /\ completed = 0 /\ completed' = 1
               /\ Moved(x, "send") /\ cb'[x].v = cb[x].v
               /\ UNCHANGED <<endCount, currentMatchedCount, msgs, c, merged>>
            \/ /\ cb[x].pc = "cas" /\ completed' = 1 /\ Moved(x, "finished")
               /\ UNCHANGED <<endCount, currentMatchedCount, msgs, c, merged>>
            \/ /\ cb[x].pc = "send" /\ c' = Append(c, cb[x].v) /\ merged' = msgs
               /\ Moved(x, "finished")
               /\ UNCHANGED <<endCount, currentMatchedCount, completed, msgs>>
<1>0. Early \in BOOLEAN /\ (~Early) \in BOOLEAN
  BY DEF Early
<1>1. \A l \in PCs : Goto(x, l) => Moved(x, l) /\ cb'[x].v = cb[x].v
  BY GotoParts
<1>2. /\ "count" \in PCs /\ "finished" \in PCs /\ "match" \in PCs /\ "decide" \in PCs
      /\ "cas" \in PCs /\ "last" \in PCs /\ "send" \in PCs
  BY DEF PCs
<1>3. CASE Check(x)
  BY <1>1, <1>2, <1>3 DEF Check
<1>4. CASE Count(x)
  BY <1>1, <1>2, <1>4 DEF Count
<1>5. CASE MatchOne(x)
  BY <1>1, <1>2, <1>5 DEF MatchOne
<1>6. CASE Decide(x)
  <2>1. /\ (IF Decided(x) THEN "cas" ELSE "last") \in PCs
        /\ cb' = [cb EXCEPT ![x].pc = IF Decided(x) THEN "cas" ELSE "last", ![x].v = Early]
    BY <1>2, <1>6 DEF Decide
  <2>2. Moved(x, IF Decided(x) THEN "cas" ELSE "last") /\ cb'[x].v = Early
    BY <1>0, <2>1, SetParts, Zenon
  <2> QED
    BY <1>6, <2>2 DEF Decide
<1>7. CASE LastOne(x)
  <2>1. CASE endCount >= Length
    <3>1. cb' = [cb EXCEPT ![x].pc = "cas", ![x].v = ~Early]
      BY <1>7, <2>1 DEF LastOne
    <3>2. Moved(x, "cas") /\ cb'[x].v = ~Early
      BY <1>0, <1>2, <3>1, SetParts, Zenon
    <3> QED
      BY <1>7, <2>1, <3>2 DEF LastOne
  <2>2. CASE ~(endCount >= Length)
    BY <1>1, <1>2, <1>7, <2>2, Zenon DEF LastOne, Goto
  <2> QED
    BY <2>1, <2>2, Zenon
<1>8. CASE Complete(x)
  BY <1>1, <1>2, <1>8 DEF Complete
<1>9. CASE SendVerdict(x)
  BY <1>1, <1>2, <1>9 DEF SendVerdict
<1> QED
  BY <1>3, <1>4, <1>5, <1>6, <1>7, <1>8, <1>9, Zenon DEF Steps

\* The counters of a group only grow, and so do its results.
LEMMA StepCounts ==
  ASSUME GroupType, NEW x \in DOMAIN cb, Steps(x)
  PROVE  /\ endCount' \in Nat /\ endCount' >= endCount
         /\ currentMatchedCount' \in Nat /\ currentMatchedCount' >= currentMatchedCount
         /\ msgs \subseteq msgs' /\ msgs' \subseteq Ids
         /\ completed' \in {0, 1}
<1>0. /\ endCount \in Nat /\ currentMatchedCount \in Nat /\ completed \in {0, 1}
      /\ msgs \subseteq Ids /\ x[1] \in Ids
  BY DEF GroupType
<1>1. endCount' = endCount \/ endCount' = endCount + 1
  BY StepParts
<1>2. currentMatchedCount' = currentMatchedCount \/ currentMatchedCount' = currentMatchedCount + 1
  BY StepParts
<1>3. (msgs' = msgs \/ msgs' = msgs \cup {x[1]}) /\ (completed' = completed \/ completed' = 1)
  BY StepParts
<1> QED
  BY <1>0, <1>1, <1>2, <1>3

\* What the other steps leave alone.
LEMMA OtherParts ==
  ASSUME Select \/ Timeout \/ TellTimeout \/ TellVerdict \/ UNCHANGED vars
  PROVE  UNCHANGED <<next, tells, cb, endCount, currentMatchedCount, completed, msgs, c,
                     merged, conf>>
  BY Zenon DEF Select, Timeout, TellTimeout, TellVerdict, vars

\* Every step is one of the three kinds.
LEMMA Kinds ==
  ASSUME [Next]_vars
  PROVE  \/ ExecuteNode \/ \E i \in Ids : Tell(i)
         \/ \E x \in DOMAIN cb : Steps(x)
         \/ Select \/ Timeout \/ TellTimeout \/ TellVerdict \/ UNCHANGED vars
  BY DEF Next

\* Every step keeps the types and the numbering of the callbacks.
LEMMA TypeStep ==
  ASSUME GroupType, FreshKeys, [Next]_vars
  PROVE  GroupType' /\ FreshKeys'
<1>1. CASE ExecuteNode \/ \E i \in Ids : Tell(i)
  BY <1>1, GrowStep
<1>2. ASSUME NEW x \in DOMAIN cb, Steps(x) PROVE GroupType' /\ FreshKeys'
  <2>1. /\ UNCHANGED <<next, tells, conf>>
        /\ DOMAIN cb' = DOMAIN cb /\ cb' \in [DOMAIN cb -> CbRec]
    BY <1>2, StepParts DEF Moved
  <2>2. /\ endCount' \in Nat /\ currentMatchedCount' \in Nat /\ completed' \in {0, 1}
        /\ msgs' \subseteq Ids
    BY <1>2, StepCounts
  <2>3. GroupType'
    BY <2>1, <2>2 DEF GroupType
  <2> QED
    BY <2>1, <2>3 DEF FreshKeys
<1>3. CASE Select \/ Timeout \/ TellTimeout \/ TellVerdict \/ UNCHANGED vars
  BY <1>3, OtherParts DEF GroupType, FreshKeys
<1> QED
  BY <1>1, <1>2, <1>3, Kinds

\* No step makes a second verdict possible.
LEMMA OneVerdictStep ==
  ASSUME GroupType, FreshKeys, OneVerdict, [Next]_vars
  PROVE  OneVerdict'
<1>1. CASE ExecuteNode \/ \E i \in Ids : Tell(i)
  <2>1. Grows
    BY <1>1, GrowStep
  <2>2. At({"send"})' = At({"send"})
    BY <2>1 DEF Grows, At
  <2> QED
    BY <2>1, <2>2, Zenon DEF Grows, OneVerdict
<1>2. ASSUME NEW x \in DOMAIN cb, Steps(x) PROVE OneVerdict'
  <2>1. CASE cb[x].pc \notin {"cas", "send"}
    <3>1. /\ DOMAIN cb' = DOMAIN cb /\ cb'[x].pc # "send" /\ UNCHANGED <<completed, c>>
          /\ \A y \in DOMAIN cb : y # x => cb'[y] = cb[y]
      BY <1>2, <2>1, StepParts, Zenon DEF Moved
    <3>2. At({"send"})' = At({"send"})
      BY <2>1, <3>1 DEF At
    <3> QED
      BY <3>1, <3>2, Zenon DEF OneVerdict
  <2>2. CASE cb[x].pc = "cas" /\ completed = 0 /\ completed' = 1 /\ Moved(x, "send") /\ UNCHANGED c
    <3>1. c = <<>> /\ At({"send"}) = {}
      BY <2>2 DEF OneVerdict
    <3>2. At({"send"})' = {x}
      BY <2>2, <3>1 DEF At, Moved
    <3> QED
      BY <2>2, <3>1, <3>2 DEF OneVerdict
  <2>3. CASE cb[x].pc = "cas" /\ completed' = 1 /\ Moved(x, "finished") /\ UNCHANGED c
    <3>1. At({"send"})' = At({"send"})
      BY <2>3 DEF At, Moved
    <3>2. completed' # 0 /\ c' = c
      BY <2>3
    <3> QED
      BY <3>1, <3>2, Zenon DEF OneVerdict
  <2>4. CASE /\ cb[x].pc = "send" /\ c' = Append(c, cb[x].v) /\ Moved(x, "finished")
             /\ UNCHANGED completed
    <3>1. x \in At({"send"}) /\ c = <<>> /\ completed # 0
      BY <2>4 DEF At, OneVerdict
    <3>2. At({"send"})' = {}
      BY <2>4, <3>1 DEF At, Moved, OneVerdict
    <3>3. cb[x].v \in BOOLEAN
      BY DEF GroupType, CbRec
    <3>4. c' = <<cb[x].v>>
      BY <2>4, <3>1
    <3>5. c' = <<TRUE>> \/ c' = <<FALSE>>
      BY <3>3, <3>4, Zenon
    <3> QED
      BY <2>4, <3>1, <3>2, <3>5, Zenon DEF OneVerdict
  <2> QED
    BY <1>2, <2>1, <2>2, <2>3, <2>4, StepParts
<1>3. CASE Select \/ Timeout \/ TellTimeout \/ TellVerdict \/ UNCHANGED vars
  BY <1>3, OtherParts, Zenon DEF OneVerdict, At
<1> QED
  BY <1>1, <1>2, <1>3, Kinds

\* A condition for the first verdict that holds goes on holding.
LEMMA EarnedStays ==
  ASSUME Earned, DOMAIN cb \subseteq DOMAIN cb',
         \A y \in DOMAIN cb : cb'[y].rel = cb[y].rel,
         conf' = conf, currentMatchedCount \in Nat, currentMatchedCount' \in Nat,
         currentMatchedCount' >= currentMatchedCount,
         conf \in [mode : {"action", "all", "any"}, timeout : BOOLEAN]
  PROVE  Earned'
<1>0. Need \in Int
  BY GroupAssumption DEF Need
<1>1. CASE Mode = "action"
  <2>1. currentMatchedCount >= Need
    BY <1>1 DEF Earned
  <2>2. currentMatchedCount' >= Need
    BY <1>0, <2>1
  <2> QED
    BY <1>1, <2>2 DEF Earned, Mode, Need
<1>2. CASE Mode = "all"
  <2>1. Matching # DOMAIN cb
    BY <1>2 DEF Earned
  <2>2. PICK y \in DOMAIN cb : cb[y].rel # Match
    BY <2>1, SMTT(30) DEF Matching
  <2>3. y \in DOMAIN cb' /\ y \notin Matching'
    BY <2>2 DEF Matching
  <2> QED
    BY <1>2, <2>3 DEF Earned, Mode
<1>3. CASE Mode = "any"
  <2>1. Matching # {}
    BY <1>3 DEF Earned
  <2>2. PICK y \in DOMAIN cb : cb[y].rel = Match
    BY <2>1 DEF Matching
  <2>3. y \in Matching'
    BY <2>2 DEF Matching
  <2> QED
    BY <1>3, <2>3 DEF Earned, Mode
<1> QED
  BY <1>1, <1>2, <1>3 DEF Mode

\* Every step keeps the count below the matching callbacks and the verdict earned.
LEMMA EarnedStep ==
  ASSUME GroupType, FreshKeys, OneVerdict, EarnedInv, [Next]_vars, Counts(Passed, Passed')
  PROVE  EarnedInv'
<1>0. /\ GroupType' /\ Cardinality(Passed') \in Nat /\ Cardinality(Passed) \in Nat
      /\ currentMatchedCount \in Nat /\ currentMatchedCount' \in Nat
      /\ conf \in [mode : {"action", "all", "any"}, timeout : BOOLEAN]
  <2>1. GroupType'
    BY TypeStep
  <2> QED
    BY <2>1 DEF GroupType, Counts
<1>1. CASE ExecuteNode \/ \E i \in Ids : Tell(i)
  <2>1. Grows
    BY <1>1, GrowStep
  <2>2. Passed' = Passed
    BY <2>1 DEF Grows, Passed, Matching, At
  <2>3. Earned => Earned'
    BY <1>0, <2>1, EarnedStays DEF Grows
  <2>4. At({"cas", "send"})' = At({"cas", "send"}) /\ Early' = Early
    BY <2>1 DEF Grows, At, Early, Mode
  <2>5. \A x \in At({"cas", "send"}) : cb'[x].v = cb[x].v
    BY <2>1 DEF Grows, At
  <2> QED
    BY <2>1, <2>2, <2>3, <2>4, <2>5 DEF Grows, EarnedInv
<1>2. ASSUME NEW x \in DOMAIN cb, Steps(x) PROVE EarnedInv'
  <2>1. /\ DOMAIN cb' = DOMAIN cb /\ conf' = conf
        /\ \A y \in DOMAIN cb : y # x => cb'[y] = cb[y]
        /\ cb'[x].rel = cb[x].rel
    BY <1>2, StepParts, Zenon DEF Moved
  <2>2. Early' = Early /\ Matching' = Matching
    BY <2>1 DEF Early, Mode, Matching
  <2>3. currentMatchedCount' >= currentMatchedCount
    BY <1>2, StepCounts
  <2>4. Earned => Earned'
    BY <1>0, <2>1, <2>3, EarnedStays
  <2>5. cb[x].pc \notin {"check", "count", "match"} => cb'[x].pc \notin {"check", "count", "match"}
    BY <1>2, StepParts, Zenon DEF Moved
  <2>6. Passed \subseteq Passed'
    BY <2>1, <2>2, <2>5 DEF Passed, At, Matching
  <2>7. currentMatchedCount' <= Cardinality(Passed')
    <3>1. CASE currentMatchedCount' = currentMatchedCount
      <4>1. Cardinality(Passed) <= Cardinality(Passed')
        BY <2>6 DEF Counts
      <4> QED
        BY <1>0, <3>1, <4>1 DEF EarnedInv
    <3>2. CASE /\ cb[x].pc = "match" /\ Moved(x, "decide") /\ cb[x].rel = Match
               /\ currentMatchedCount' = currentMatchedCount + 1
      <4>1. x \notin Passed /\ Passed' = Passed \cup {x}
        BY <2>1, <2>2, <3>2 DEF Passed, At, Matching, Moved
      <4>2. Cardinality(Passed') = Cardinality(Passed) + 1
        BY <4>1, Zenon DEF Counts
      <4> QED
        BY <1>0, <3>2, <4>2 DEF EarnedInv
    <3> QED
      BY <1>2, <3>1, <3>2, StepParts, Zenon
  <2>8. ASSUME cb'[x].pc \in {"cas", "send"}, cb'[x].v = Early PROVE Earned
    <3>1. CASE cb[x].pc = "decide" /\ Moved(x, IF Decided(x) THEN "cas" ELSE "last")
      <4>1. Decided(x)
        BY <2>8, <3>1, Zenon DEF Moved
      <4>2. CASE Mode = "action"
        BY <4>1, <4>2 DEF Decided, Earned
      <4>3. CASE Mode = "all"
        BY <4>1, <4>3 DEF Decided, Earned, Matching
      <4>4. CASE Mode = "any"
        BY <4>1, <4>4 DEF Decided, Earned, Matching
      <4> QED
        BY <1>0, <4>2, <4>3, <4>4 DEF Mode
    <3>2. CASE cb[x].pc = "last" /\ Moved(x, "cas") /\ cb'[x].v = ~Early
      BY <2>8, <3>2, Zenon DEF Early
    <3>3. CASE cb[x].pc = "cas" /\ cb'[x].v = cb[x].v
      BY <2>8, <3>3 DEF EarnedInv, At
    <3> QED
      BY <1>2, <2>8, <3>1, <3>2, <3>3, StepParts, Zenon DEF Moved
  <2>9. \A y \in At({"cas", "send"})' : cb'[y].v = Early => Earned
    BY <2>1, <2>8 DEF At, EarnedInv
  <2>10. ASSUME c' = <<Early>> PROVE Earned
    <3>1. CASE c' = c
      BY <2>10, <3>1 DEF EarnedInv
    <3>2. CASE cb[x].pc = "send" /\ c' = Append(c, cb[x].v)
      <4>1. x \in At({"send"}) /\ x \in At({"cas", "send"})
        BY <3>2 DEF At
      <4>2. c = <<>>
        BY <4>1 DEF OneVerdict
      <4>3. c' = <<cb[x].v>>
        BY <3>2, <4>2
      <4>4. cb[x].v = Early
        BY <2>10, <4>3
      <4> QED
        BY <4>1, <4>4 DEF EarnedInv
    <3> QED
      BY <1>2, <3>1, <3>2, StepParts
  <2> QED
    BY <2>2, <2>4, <2>7, <2>9, <2>10 DEF EarnedInv
<1>3. CASE Select \/ Timeout \/ TellTimeout \/ TellVerdict \/ UNCHANGED vars
  <2>1. UNCHANGED <<cb, currentMatchedCount, c, conf>>
    BY <1>3, OtherParts
  <2>2. Passed' = Passed /\ Early' = Early /\ At({"cas", "send"})' = At({"cas", "send"})
    BY <2>1 DEF Passed, Matching, At, Early, Mode
  <2>3. Earned' = Earned
    BY <2>1 DEF Earned, Matching, Mode, Need
  <2> QED
    BY <2>1, <2>2, <2>3 DEF EarnedInv
<1> QED
  BY <1>1, <1>2, <1>3, Kinds

\* Every step keeps the results of the ended nodes in msgs.
LEMMA MergeStep ==
  ASSUME GroupType, FreshKeys, OneVerdict, MergeInv, [Next]_vars, Counts(Ended, Ended'),
         ToldOnce /\ Cardinality(Ended) >= Length => msgs = Ids
  PROVE  MergeInv'
<1>0. /\ Length \in Nat /\ endCount \in Nat /\ endCount' \in Nat
      /\ Cardinality(Ended) \in Nat /\ Cardinality(Ended') \in Nat
  BY GroupAssumption, TypeStep DEF GroupType, Counts
<1>a. conf' = conf
  BY Kinds, StepParts, OtherParts, Zenon DEF ExecuteNode, Tell
<1> SUFFICES ASSUME Mode = "action" PROVE MergeInv'
  BY <1>a, Zenon DEF MergeInv, Mode
<1>b. /\ \A x \in DOMAIN cb : cb[x].pc \notin {"check", "finished"} => x[1] \in msgs
      /\ endCount <= Cardinality(Ended)
      /\ \A x \in At({"cas", "send"}) : ~cb[x].v => endCount >= Length
      /\ c = <<FALSE>> /\ ToldOnce => merged = Ids
  BY Zenon DEF MergeInv
<1>1. CASE ExecuteNode \/ \E i \in Ids : Tell(i)
  <2>1. Grows
    BY <1>1, GrowStep
  <2>2. Ended' = Ended
    BY <2>1 DEF Grows, Ended
  <2>3. ToldOnce' => ToldOnce
    BY <2>1 DEF Grows, ToldOnce
  <2>4. At({"cas", "send"})' = At({"cas", "send"})
    BY <2>1 DEF Grows, At
  <2>5. \A x \in At({"cas", "send"}) : cb'[x].v = cb[x].v
    BY <2>1 DEF Grows, At
  <2>6. \A x \in DOMAIN cb' : cb'[x].pc \notin {"check", "finished"} => x[1] \in msgs
    BY <1>b, <2>1 DEF Grows
  <2> QED
    BY <1>b, <2>1, <2>2, <2>3, <2>4, <2>5, <2>6, Zenon DEF Grows, MergeInv
<1>2. ASSUME NEW x \in DOMAIN cb, Steps(x) PROVE MergeInv'
  <2>1. /\ DOMAIN cb' = DOMAIN cb
        /\ \A y \in DOMAIN cb : y # x => cb'[y] = cb[y]
    BY <1>2, StepParts, Zenon DEF Moved
  <2>2. msgs \subseteq msgs' /\ endCount' >= endCount
    BY <1>2, StepCounts
  <2>t. ToldOnce' => ToldOnce
    BY <2>1, Zenon DEF ToldOnce
  <2>3. ASSUME cb'[x].pc \notin {"check", "finished"} PROVE x[1] \in msgs'
    <3>1. CASE cb[x].pc = "check" /\ msgs' = msgs \cup {x[1]}
      BY <3>1
    <3>2. CASE cb[x].pc \notin {"check", "finished"}
      BY <1>b, <2>2, <3>2
    <3> QED
      BY <1>2, <2>3, <3>1, <3>2, StepParts, Zenon DEF Moved
  <2>4. \A y \in DOMAIN cb' : cb'[y].pc \notin {"check", "finished"} => y[1] \in msgs'
    BY <1>b, <2>1, <2>2, <2>3
  <2>5. cb[x].pc \notin {"check", "count"} => cb'[x].pc \notin {"check", "count"}
    BY <1>2, StepParts, Zenon DEF Moved
  <2>6. Ended \subseteq Ended'
    BY <2>1, <2>2, <2>5 DEF Ended
  <2>7. endCount' <= Cardinality(Ended')
    <3>1. CASE endCount' = endCount
      <4>1. Cardinality(Ended) <= Cardinality(Ended')
        BY <2>6 DEF Counts
      <4> QED
        BY <1>0, <1>b, <3>1, <4>1
    <3>2. CASE /\ cb[x].pc = "count" /\ Moved(x, "match") /\ endCount' = endCount + 1
               /\ msgs' = msgs
      <4>1. x[1] \in msgs
        BY <1>b, <3>2
      <4>2. x \notin Ended /\ Ended' = Ended \cup {x}
        BY <2>1, <3>2, <4>1 DEF Ended, Moved
      <4>3. Cardinality(Ended') = Cardinality(Ended) + 1
        BY <4>2 DEF Counts
      <4> QED
        BY <1>0, <1>b, <3>2, <4>3
    <3> QED
      BY <1>2, <3>1, <3>2, StepParts, Zenon
  <2>8. ASSUME cb'[x].pc \in {"cas", "send"}, ~cb'[x].v PROVE endCount' >= Length
    <3>1. CASE cb[x].pc = "decide" /\ cb'[x].v = Early
      BY <2>8, <3>1, Zenon DEF Early
    <3>2. CASE endCount >= Length
      BY <1>0, <2>2, <3>2
    <3>3. CASE cb[x].pc = "cas" /\ cb'[x].v = cb[x].v
      BY <1>b, <2>8, <3>2, <3>3 DEF At
    <3> QED
      BY <1>2, <2>8, <3>1, <3>2, <3>3, StepParts, Zenon DEF Moved
  <2>9. \A y \in At({"cas", "send"})' : ~cb'[y].v => endCount' >= Length
    BY <1>0, <1>b, <2>1, <2>2, <2>8 DEF At
  <2>10. ASSUME c' = <<FALSE>>, ToldOnce PROVE merged' = Ids
    <3>1. CASE c' = c /\ merged' = merged
      BY <1>b, <2>10, <3>1
    <3>2. CASE cb[x].pc = "send" /\ c' = Append(c, cb[x].v) /\ merged' = msgs
      <4>1. x \in At({"send"}) /\ x \in At({"cas", "send"})
        BY <3>2 DEF At
      <4>2. c = <<>>
        BY <4>1 DEF OneVerdict
      <4>3. c' = <<cb[x].v>>
        BY <3>2, <4>2
      <4>b. \A a, b : <<a>> = <<b>> => a = b
        OBVIOUS
      <4>a. cb[x].v = FALSE
        BY <2>10, <4>3, <4>b, Zenon
      <4>4. ~cb[x].v
        BY <4>a
      <4>5. Cardinality(Ended) >= Length
        BY <1>0, <1>b, <4>1, <4>4
      <4> QED
        BY <2>10, <3>2, <4>5
    <3> QED
      BY <1>2, <3>1, <3>2, StepParts, Zenon
  <2> QED
    BY <2>4, <2>7, <2>9, <2>10, <2>t, Zenon DEF MergeInv
<1>3. CASE Select \/ Timeout \/ TellTimeout \/ TellVerdict \/ UNCHANGED vars
  BY <1>3, OtherParts, Zenon DEF MergeInv, Ended, At, ToldOnce, Mode
<1> QED
  BY <1>1, <1>2, <1>3, Kinds
-----------------------------------------------------------------------------
(* The sizes of the sets of callbacks, and what follows.                   *)
INSTANCE FiniteSetTheorems

\* Finite sets are counted as the steps need it.
LEMMA CountsOf ==
  ASSUME NEW S, NEW T, IsFiniteSet(S), IsFiniteSet(T)
  PROVE  Counts(S, T)
<1>1. Cardinality(S) \in Nat /\ Cardinality(T) \in Nat
  BY FS_CardinalityType
<1>2. S \subseteq T => Cardinality(S) <= Cardinality(T)
  BY FS_Subset
<1>3. ASSUME NEW x, x \notin S, T = S \cup {x} PROVE Cardinality(T) = Cardinality(S) + 1
  BY <1>3, FS_AddElement
<1> QED
  BY <1>1, <1>2, <1>3 DEF Counts

\* The callbacks are finitely many, before a step and after.
LEMMA FiniteStep ==
  ASSUME GroupType, FreshKeys, IsFiniteSet(DOMAIN cb), [Next]_vars
  PROVE  IsFiniteSet(DOMAIN cb') /\ Counts(Passed, Passed') /\ Counts(Ended, Ended')
<1>1. IsFiniteSet(DOMAIN cb')
  <2>1. CASE ExecuteNode \/ \E i \in Ids : Tell(i)
    <3>1. DOMAIN cb' = DOMAIN cb \/ \E x : DOMAIN cb' = DOMAIN cb \cup {x}
      BY <2>1, GrowStep, Zenon DEF Grows
    <3> QED
      BY <3>1, FS_AddElement, Zenon
  <2>2. ASSUME NEW x \in DOMAIN cb, Steps(x) PROVE DOMAIN cb' = DOMAIN cb
    BY <2>2, StepParts, Zenon DEF Moved
  <2>3. CASE Select \/ Timeout \/ TellTimeout \/ TellVerdict \/ UNCHANGED vars
    BY <2>3, OtherParts
  <2> QED
    BY <2>1, <2>2, <2>3, Kinds
<1>2. /\ Passed \in SUBSET DOMAIN cb /\ Ended \in SUBSET DOMAIN cb
      /\ Passed' \in SUBSET DOMAIN cb' /\ Ended' \in SUBSET DOMAIN cb'
  BY DEF Passed, Matching, Ended
<1>3. /\ IsFiniteSet(Passed) /\ IsFiniteSet(Passed')
      /\ IsFiniteSet(Ended) /\ IsFiniteSet(Ended')
  BY <1>1, <1>2, FS_Subset
<1> QED
  BY <1>1, <1>3, CountsOf

\* When every callback is the first of its node, those that ended are no more than
\* the results in msgs.
LEMMA EndedFill ==
  ASSUME GroupType, ToldOnce, Cardinality(Ended) >= Length
  PROVE  msgs = Ids
<1>0. /\ Length \in Nat /\ IsFiniteSet(Ids) /\ Cardinality(Ids) = Length
  BY GroupAssumption, FS_Interval DEF Ids
<1>1. msgs \in SUBSET Ids /\ IsFiniteSet(msgs) /\ Cardinality(msgs) <= Length
      /\ Cardinality(msgs) \in Nat
  BY <1>0, FS_Subset, FS_CardinalityType DEF GroupType
<1> DEFINE f == [x \in Ended |-> x[1]]
<1>2. ASSUME NEW x \in Ended, NEW y \in Ended, x[1] = y[1] PROVE x = y
  <2>1. x \in Ids \X Nat /\ y \in Ids \X Nat /\ x[2] = 1 /\ y[2] = 1
    BY DEF Ended, GroupType, ToldOnce
  <2> QED
    BY <1>2, <2>1
<1>3. f \in [Ended -> msgs] /\ IsInjective(f)
  BY <1>2 DEF Ended, IsInjective
<1>4. f \in Injection(Ended, msgs)
  BY <1>3 DEF Injection
<1>5. Cardinality(Ended) <= Cardinality(msgs) /\ IsFiniteSet(Ended)
  BY <1>1, <1>4, FS_Injection
<1>6. Cardinality(Ended) \in Nat
  BY <1>5, FS_CardinalityType
<1>7. Cardinality(msgs) = Cardinality(Ids)
  BY <1>0, <1>1, <1>5, <1>6
<1> QED
  BY <1>0, <1>1, <1>7, FS_Subset


\* The inductive invariant holds always.
LEMMA GroupInvariant == Spec => []GroupInv
<1>1. Init => GroupInv
  <2> SUFFICES ASSUME Init PROVE GroupInv
    OBVIOUS
  <2>0. DOMAIN cb = {} /\ Confs \subseteq [mode : {"action", "all", "any"}, timeout : BOOLEAN]
    BY GroupAssumption DEF Init
  <2>1. GroupType
    BY <2>0 DEF Init, GroupType
  <2>2. FreshKeys
    BY <2>0 DEF Init, FreshKeys
  <2>3. \A l : At(l) = {}
    BY <2>0 DEF At
  <2>4. OneVerdict
    BY <2>3 DEF Init, OneVerdict
  <2>5. c # <<TRUE>> /\ c # <<FALSE>> /\ c # <<Early>>
    BY DEF Init
  <2>6. Passed = {} /\ Ended = {}
    BY <2>0 DEF Passed, Matching, Ended
  <2>7. EarnedInv
    BY <2>3, <2>5, <2>6, FS_EmptySet DEF Init, EarnedInv
  <2>8. MergeInv
    BY <2>0, <2>3, <2>5, <2>6, FS_EmptySet DEF Init, MergeInv
  <2> QED
    BY <2>0, <2>1, <2>2, <2>4, <2>7, <2>8, FS_EmptySet, Zenon DEF GroupInv
<1>2. GroupInv /\ [Next]_vars => GroupInv'
  BY TypeStep, FiniteStep, OneVerdictStep, EarnedStep, MergeStep, EndedFill, Zenon DEF GroupInv
<1> QED
  BY <1>1, <1>2, PTL DEF Spec

(***************************************************************************)
(* The callbacks of a group node send at most one verdict, and the one of  *)
(* the first condition is earned, for any number of nodes, any MatchNum    *)
(* and whatever the nodes tell, more than once or never                    *)
(* (GroupActionNode.OnMsg, GroupFilterNode.OnMsg).                         *)
(***************************************************************************)
THEOREM VerdictIsEarned == Spec => []EarnedVerdict
<1>1. GroupInv => EarnedVerdict
  <2> SUFFICES ASSUME GroupInv PROVE EarnedVerdict
    OBVIOUS
  <2> USE DEF GroupInv
  <2>0. Len(<<>>) = 0 /\ \A a : Len(<<a>>) = 1
    OBVIOUS
  <2>a. Len(c) = 0 \/ Len(c) = 1
    BY <2>0, Zenon DEF OneVerdict
  <2>b. 0 <= 1 /\ 1 <= 1
    OBVIOUS
  <2>1. Len(c) <= 1
    BY <2>a, <2>b, Zenon
  <2>2. ASSUME Mode = "action", Earned PROVE Cardinality(Matching) >= Need
    <3>1. IsFiniteSet(DOMAIN cb) /\ Matching \in SUBSET DOMAIN cb /\ Passed \in SUBSET Matching
      BY DEF GroupType, Matching, Passed
    <3>2. IsFiniteSet(Matching)
      BY <3>1, FS_Subset
    <3>3. Cardinality(Passed) <= Cardinality(Matching) /\ IsFiniteSet(Passed)
      BY <3>1, <3>2, FS_Subset
    <3>4. Cardinality(Passed) \in Nat /\ Cardinality(Matching) \in Nat
      BY <3>2, <3>3, FS_CardinalityType
    <3>5. currentMatchedCount >= Need /\ currentMatchedCount <= Cardinality(Passed)
      BY <2>2 DEF Earned, EarnedInv
    <3>6. Need \in Int /\ currentMatchedCount \in Nat
      BY GroupAssumption DEF Need, GroupType
    <3> QED
      BY <3>3, <3>4, <3>5, <3>6
  <2>3. CASE c # <<Early>>
    BY <2>1, <2>3, Zenon DEF EarnedVerdict
  <2>4. CASE Mode = "action" /\ c = <<Early>>
    BY <2>1, <2>2, <2>4 DEF EarnedVerdict, EarnedInv
  <2>5. CASE Mode = "all" /\ c = <<Early>>
    BY <2>1, <2>5 DEF EarnedVerdict, EarnedInv, Earned
  <2>6. CASE Mode = "any" /\ c = <<Early>>
    BY <2>1, <2>6 DEF EarnedVerdict, EarnedInv, Earned
  <2> QED
    BY <2>3, <2>4, <2>5, <2>6, Zenon DEF GroupType, Mode
<1> QED
  BY <1>1, GroupInvariant, PTL

(***************************************************************************)
(* A verdict that all nodes have ended merges the results of all of them   *)
(* (GroupActionNode), when each node tells once: for any number of nodes.  *)
(***************************************************************************)
THEOREM AllAreMerged == Spec => []MergesAll
<1>1. GroupInv => MergesAll
  <2> SUFFICES ASSUME GroupInv, Mode = "action", c = <<~Early>>,
                      \A x \in DOMAIN cb : x[2] = 1
               PROVE  merged = Ids
    BY DEF MergesAll
  <2>1. (~Early) = FALSE
    BY DEF Early
  <2>2. c = <<FALSE>>
    BY <2>1, Zenon
  <2> QED
    BY <2>2, Zenon DEF GroupInv, MergeInv, ToldOnce
<1> QED
  BY <1>1, GroupInvariant, PTL
=============================================================================
