-------------------------- MODULE RuleContextProofs --------------------------
(***************************************************************************)
(* Proofs about RuleContext, for every chain and every behaviour of its    *)
(* nodes.                                                                  *)
(***************************************************************************)
EXTENDS RuleContext, TLAPS

\* The name of the next child of a context is not in use.
LEMMA FreshChild ==
  ASSUME TypeOK, NEW c \in ctxs
  PROVE  <<c, spawned[c] + 1>> \notin ctxs /\ <<c, spawned[c] + 1>> # Root
<1>1. \A a, b : <<a, b>> # Root
  BY DEF Root
<1>2. spawned[c] \in Nat
  BY DEF TypeOK
<1>3. ASSUME <<c, spawned[c] + 1>> \in ctxs PROVE FALSE
  <2>0. PICK p \in ctxs : \E k \in 1..spawned[p] : <<c, spawned[c] + 1>> = <<p, k>>
    BY <1>1, <1>3 DEF TypeOK
  <2>1. PICK k \in 1..spawned[p] : <<c, spawned[c] + 1>> = <<p, k>>
    BY <2>0
  <2>2. p = c /\ k = spawned[c] + 1
    BY <2>1
  <2>3. QED
    BY <1>2, <2>2
<1> QED
  BY <1>1, <1>3

\* Membership in the set of goroutines that end branches.
LEMMA EndIdsMember ==
  ASSUME NEW t
  PROVE  t \in EndIds <=> \E c \in ctxs : \E k \in 1..ended[c] : t = <<c, k>>
  BY DEF EndIds

\* A function extended by one value of its range has one more argument.
LEMMA ExtendType ==
  ASSUME NEW S, NEW T, NEW f \in [S -> T], NEW x, NEW v \in T
  PROVE  Extend(f, x, v) \in [S \cup {x} -> T]
  BY DEF Extend

\* What is used of the size of a set; UnreportedCounts shows it of the children that
\* have not reported.
Counts(S) ==
  /\ Cardinality({}) = 0 /\ Cardinality(S) \in Nat
  /\ \A x : x \notin S => Cardinality(S \cup {x}) = Cardinality(S) + 1
  /\ \A x \in S : Cardinality(S \ {x}) = Cardinality(S) - 1

\* A new child, counted or not, keeps the invariant.
LEMMA SubmitStep ==
  ASSUME IInv, NEW c \in ctxs, NEW n \in Nodes, NEW waits \in BOOLEAN,
         Counts(Unreported(c)), c = Root => ~waits,
         Submit(c, n, waits),
         run' \in [ctxs' -> RunState],
         UNCHANGED <<ends, reported, done, completions>>,
         caller' \in {"idle", "blocked", "returned"}
  PROVE  IInv'
<1> DEFINE d == <<c, spawned[c] + 1>>
<1> USE DEF IInv
<1>1. d \notin ctxs /\ d # Root
  BY FreshChild
<1>2. PICK ok \in Accepted :
        /\ ctxs' = ctxs \cup {d}
        /\ self' = Extend(self, d, n)
        /\ st' = Extend(st, d, IF ok THEN "submitted" ELSE "dropped")
        /\ spawned' = Extend([spawned EXCEPT ![c] = @ + 1], d, 0)
        /\ ended' = Extend(ended, d, 0)
        /\ onEndCalls' = Extend(onEndCalls, d, 0)
        /\ waitingCount' =
             Extend([waitingCount EXCEPT ![c] = @ + (IF waits THEN 1 ELSE 0)], d, 0)
  BY DEF Submit
<1> HIDE DEF d
<1>3. /\ self' \in [ctxs' -> Nodes]
      /\ st' \in [ctxs' -> Statuses]
      /\ ended' \in [ctxs' -> Nat]
      /\ onEndCalls' \in [ctxs' -> Nat]
  BY <1>2, ExtendType, Zenon DEF TypeOK, Statuses
<1>4. spawned' \in [ctxs' -> Nat]
  <2>1. [spawned EXCEPT ![c] = @ + 1] \in [ctxs -> Nat]
    BY DEF TypeOK
  <2>2. QED
    BY <1>2, <2>1, ExtendType, Zenon
<1>5. waitingCount' \in [ctxs' -> Int]
  <2>1. [waitingCount EXCEPT ![c] = @ + (IF waits THEN 1 ELSE 0)] \in [ctxs -> Int]
    BY DEF TypeOK
  <2>2. QED
    BY <1>2, <2>1 DEF Extend
<1>6. /\ spawned'[c] = spawned[c] + 1
      /\ spawned'[d] = 0
      /\ \A x \in ctxs : x # c => spawned'[x] = spawned[x]
  BY <1>1, <1>2 DEF TypeOK, Extend
<1>7. /\ waitingCount'[c] = waitingCount[c] + (IF waits THEN 1 ELSE 0)
      /\ waitingCount'[d] = 0
      /\ \A x \in ctxs : x # c => waitingCount'[x] = waitingCount[x]
  BY <1>1, <1>2 DEF TypeOK, Extend
<1>8. /\ ended'[d] = 0
      /\ \A x \in ctxs : ended'[x] = ended[x] /\ st'[x] = st[x]
  BY <1>1, <1>2 DEF TypeOK, Extend
<1>9. EndIds' = EndIds
  BY <1>1, <1>2, <1>8 DEF EndIds
<1>10. TypeOK'
  <2>1. Root \in ctxs'
    BY <1>2 DEF TypeOK
  <2>2. ASSUME NEW x \in ctxs'
        PROVE  x = Root \/ \E p \in ctxs' : \E k \in 1..spawned'[p] : x = <<p, k>>
    <3>1. CASE x = d
      BY <3>1, <1>2, <1>6 DEF d, TypeOK
    <3>2. CASE x \in ctxs /\ x # Root
      <4>1. PICK p \in ctxs : \E k \in 1..spawned[p] : x = <<p, k>>
        BY <3>2 DEF TypeOK
      <4>2. spawned[p] \in Nat /\ (spawned'[p] = spawned[p] \/ spawned'[p] = spawned[p] + 1)
        BY <1>6 DEF TypeOK
      <4>3. \E k \in 1..spawned'[p] : x = <<p, k>>
        BY <4>1, <4>2
      <4> QED
        BY <4>3, <1>2
    <3> QED
      BY <3>1, <3>2, <1>2, Zenon
  <2>3. ASSUME NEW p \in ctxs', NEW k \in 1..spawned'[p]
        PROVE  <<p, k>> \in ctxs'
    <3>1. CASE p = d
      BY <3>1, <1>6
    <3>2. CASE p = c
      <4>0. spawned[c] \in Nat
        BY DEF TypeOK
      <4>1. k = spawned[c] + 1 \/ k \in 1..spawned[c]
        BY <3>2, <1>6, <4>0
      <4> QED
        BY <4>1, <3>2, <1>2 DEF d, TypeOK
    <3>3. CASE p \in ctxs /\ p # c
      BY <3>3, <1>2, <1>6, Zenon DEF TypeOK
    <3> QED
      BY <3>1, <3>2, <3>3, <1>2
  <2>4. ends' \in [EndIds' -> [at : ctxs', from : ctxs', ph : Phases]]
    BY <1>2, <1>9 DEF TypeOK
  <2>5. reported' \subseteq ctxs' \ {Root}
    BY <1>2 DEF TypeOK
  <2> QED
    BY <2>1, <2>2, <2>3, <2>4, <2>5, <1>3, <1>4, <1>5 DEF TypeOK
<1>11. Routing'
  BY <1>7, <1>8 DEF Routing, TypeOK
<1>12. ASSUME NEW x \in ctxs'
       PROVE  waitingCount'[x] <= Cardinality(Unreported(x))'
  <2>1. CASE x = d
    <3>1. Unreported(x)' = {}
      BY <2>1, <1>6 DEF Unreported
    <3> QED
      BY <3>1, <2>1, <1>7 DEF Counts
  <2>2. CASE x = c
    <3>1. d \notin reported
      BY <1>1 DEF TypeOK
    <3>0. spawned[c] \in Nat
      BY DEF TypeOK
    <3>2. Unreported(x)' = Unreported(c) \cup {spawned[c] + 1}
      BY <2>2, <3>0, <3>1, <1>6 DEF Unreported, d
    <3>3. spawned[c] + 1 \notin Unreported(c)
      BY DEF Unreported, TypeOK
    <3>4. Cardinality(Unreported(x)') = Cardinality(Unreported(c)) + 1
      BY <3>2, <3>3, Zenon DEF Counts
    <3>5. Cardinality(Unreported(c)) \in Nat
      BY Zenon DEF Counts
    <3> QED
      BY <3>4, <3>5, <2>2, <1>7 DEF Counting, TypeOK
  <2>3. CASE x \in ctxs /\ x # c
    <3>1. Unreported(x)' = Unreported(x)
      BY <2>3, <1>6 DEF Unreported
    <3> QED
      BY <3>1, <2>3, <1>7 DEF Counting
  <2> QED
    BY <2>1, <2>2, <2>3, <1>2
<1>13. ASSUME NEW x \in ctxs' \ {Root}, Decremented(x)', waitingCount'[x] <= 0
       PROVE  Climbed(x)'
  <2>1. CASE x = d
    BY <2>1, <1>13, <1>6, <1>8 DEF Decremented
  <2>2. CASE x \in ctxs
    <3>1. waitingCount[x] <= 0
      BY <2>2, <1>7, <1>13 DEF TypeOK
    <3>2. Decremented(x)
      <4>1. d \notin reported
        BY <1>1 DEF TypeOK
      <4>2. \A k \in 1..spawned'[x] : <<x, k>> \in reported => k \in 1..spawned[x]
        BY <4>1, <2>2, <1>6 DEF d, TypeOK
      <4> QED
        BY <4>2, <2>2, <1>8, <1>13, Zenon DEF Decremented, HeadingFor
    <3> QED
      BY <3>1, <3>2, <2>2, <1>13 DEF Counting, Climbed, HeadingFor
  <2> QED
    BY <2>1, <2>2, <1>2
<1>14. Counting'
  BY <1>12, <1>13 DEF Counting
<1>15. AtRoot'
  <2>1. d \notin reported
    BY <1>1 DEF TypeOK
  <2>2. \A k \in 1..spawned'[Root] : <<Root, k>> \in reported => k \in 1..spawned[Root]
    BY <2>1, <1>6 DEF d, TypeOK
  <2> QED
    BY <2>2, Zenon DEF AtRoot
<1> QED
  BY <1>10, <1>11, <1>14, <1>15

\* The parent of a context other than Root is a context.
LEMMA ParentIsContext ==
  ASSUME TypeOK, NEW c \in ctxs \ {Root}
  PROVE  /\ Parent(c) \in ctxs
         /\ \E k \in 1..spawned[Parent(c)] : c = <<Parent(c), k>>
<1>1. PICK p \in ctxs : \E k \in 1..spawned[p] : c = <<p, k>>
  BY DEF TypeOK
<1>2. Parent(c) = p
  BY <1>1 DEF Parent
<1> QED
  BY <1>1, <1>2

\* A new goroutine that ends a branch keeps the invariant.
LEMMA EndStep ==
  ASSUME IInv, NEW c \in ctxs \ {Root}, NEW at, NEW ph, NewEnd(c, at, ph),
         \/ at = c /\ ph \in {"onEnd", "dropped"}
         \/ at = Parent(c) /\ ph = "childDone",
         st' \in [ctxs -> Statuses], st'[Root] = st[Root],
         run' \in [ctxs -> RunState],
         UNCHANGED <<ctxs, self, spawned, waitingCount, onEndCalls, reported,
                     done, completions, caller>>
  PROVE  IInv'
<1> DEFINE d == <<c, ended[c] + 1>>
           e == [at |-> at, from |-> c, ph |-> ph]
<1> USE DEF IInv
<1>1. ended' = [ended EXCEPT ![c] = @ + 1] /\ ends' = Extend(ends, d, e)
  BY DEF NewEnd
<1>2. d \notin EndIds
  <2>1. ASSUME d \in EndIds PROVE FALSE
    <3>1. PICK p \in ctxs : \E k \in 1..ended[p] : d = <<p, k>>
      BY <2>1, EndIdsMember
    <3>2. PICK k \in 1..ended[p] : d = <<p, k>>
      BY <3>1
    <3>3. p = c /\ k = ended[c] + 1
      BY <3>2
    <3>4. ended[c] \in Nat
      BY DEF TypeOK
    <3> QED
      BY <3>3, <3>4
  <2> QED
    BY <2>1
<1>3. DOMAIN ends = EndIds
  BY DEF TypeOK
<1>4. ended[c] \in Nat /\ ended' \in [ctxs -> Nat] /\ ended'[c] = ended[c] + 1
  BY <1>1 DEF TypeOK
<1>5. \A x \in ctxs : x # c => ended'[x] = ended[x]
  BY <1>1 DEF TypeOK
<1>6. EndIds' = EndIds \cup {d}
  <2>1. ASSUME NEW t \in EndIds' PROVE t \in EndIds \cup {d}
    <3>1. PICK p \in ctxs : \E k \in 1..ended'[p] : t = <<p, k>>
      BY <2>1 DEF EndIds
    <3>2. PICK k \in 1..ended'[p] : t = <<p, k>>
      BY <3>1
    <3>3. CASE p = c /\ k = ended[c] + 1
      BY <3>2, <3>3
    <3>4. CASE ~(p = c /\ k = ended[c] + 1)
      <4>1. k \in 1..ended[p]
        BY <3>4, <1>4, <1>5
      <4> QED
        BY <4>1, <3>2, EndIdsMember
    <3> QED
      BY <3>3, <3>4
  <2>2. ASSUME NEW t \in EndIds PROVE t \in EndIds'
    <3>1. PICK p \in ctxs : \E k \in 1..ended[p] : t = <<p, k>>
      BY <2>2, EndIdsMember
    <3>2. ended[p] \in Nat /\ (ended'[p] = ended[p] \/ ended'[p] = ended[p] + 1)
      BY <1>4, <1>5 DEF TypeOK
    <3>3. \E k \in 1..ended'[p] : t = <<p, k>>
      BY <3>1, <3>2
    <3> QED
      BY <3>3 DEF EndIds
  <2>3. d \in EndIds'
    <3>1. ended[c] + 1 \in 1..ended'[c]
      BY <1>4
    <3> QED
      BY <3>1 DEF EndIds
  <2> QED
    BY <2>1, <2>2, <2>3
<1>7. e \in [at : ctxs, from : ctxs, ph : Phases]
  BY ParentIsContext DEF Phases
<1> HIDE DEF d
<1>8. /\ DOMAIN ends' = DOMAIN ends \cup {d}
      /\ ends'[d] = e
      /\ \A t \in DOMAIN ends : ends'[t] = ends[t]
  BY <1>1, <1>2, <1>3 DEF Extend
<1>9. TypeOK'
  <2>1. ends' \in [EndIds' -> [at : ctxs, from : ctxs, ph : Phases]]
    BY <1>1, <1>6, <1>7, ExtendType, Zenon DEF TypeOK
  <2> QED
    BY <2>1, <1>4 DEF TypeOK
<1>10. Routing'
  <2>1. ended'[Root] = 0
    BY <1>5 DEF Routing, TypeOK
  <2>2. d[1] = c
    BY DEF d
  <2> QED
    BY <2>1, <2>2, <1>8 DEF Routing, TypeOK
<1>11. ASSUME NEW x \in ctxs, Climbed(x)
       PROVE  Climbed(x)'
  BY <1>8, <1>11 DEF Climbed, HeadingFor
<1>12. ASSUME NEW x \in ctxs \ {Root}, Decremented(x)', waitingCount[x] <= 0
       PROVE  Climbed(x)'
  <2>1. CASE Decremented(x)
    BY <2>1, <1>11, <1>12 DEF Counting
  <2>2. CASE ~Decremented(x)
    <3>1. PICK k \in 1..ended'[x] :
            /\ ~(ends'[<<x, k>>].at = x /\ ends'[<<x, k>>].ph \in {"onEnd", "childDone"})
            /\ ends'[<<x, k>>].ph # "dropped"
      BY <2>2, <1>12 DEF Decremented, HeadingFor
    <3>2. <<x, k>> = d
      <4>1. ASSUME k \in 1..ended[x] PROVE FALSE
        <5>1. <<x, k>> \in DOMAIN ends
          BY <4>1, <1>3, EndIdsMember
        <5> QED
          BY <5>1, <4>1, <3>1, <2>2, <1>8 DEF Decremented, HeadingFor
      <4>2. x = c /\ k = ended[c] + 1
        BY <4>1, <1>4, <1>5
      <4> QED
        BY <4>2 DEF d
    <3>3. x = c
      BY <3>2 DEF d
    <3>4. ends'[d].at = Parent(x) /\ ends'[d].from = x /\ ends'[d].ph = "childDone"
      BY <3>1, <3>2, <3>3, <1>8
    <3> QED
      BY <3>4, <1>8 DEF Climbed, HeadingFor
  <2> QED
    BY <2>1, <2>2
<1>13. Counting'
  <2>1. \A x : Unreported(x)' = Unreported(x)
    BY DEF Unreported
  <2> QED
    BY <2>1, <1>12 DEF Counting
<1>14. AtRoot'
  BY <1>8 DEF AtRoot
<1> QED
  BY <1>9, <1>10, <1>13, <1>14

\* The steps of a goroutine that ends a branch change only its own entry.
LEMMA PhaseStep ==
  ASSUME IInv, NEW t \in DOMAIN ends, OnEnd(t) \/ LoadDone(t) \/ StoreDone(t)
  PROVE  IInv'
<1> USE DEF IInv
<1>1. PICK q \in Phases : ends' = [ends EXCEPT ![t].ph = q]
  BY DEF OnEnd, LoadDone, StoreDone, Phases
<1>2. /\ UNCHANGED <<ctxs, self, st, run, spawned, ended, waitingCount, reported, caller>>
      /\ completions' \in Nat /\ completions' >= completions
      /\ done' \in {0, 1}
      /\ done' = 1 => completions' > 0
  BY DEF OnEnd, LoadDone, StoreDone, TypeOK, AtRoot
<1>3. EndIds' = EndIds
  BY <1>2 DEF EndIds
<1>4. /\ DOMAIN ends' = DOMAIN ends
      /\ ends'[t].at = ends[t].at /\ ends'[t].from = ends[t].from /\ ends'[t].ph = q
      /\ \A u \in DOMAIN ends : u # t => ends'[u] = ends[u]
  BY <1>1 DEF TypeOK
<1>5. \/ ends[t].ph = "onEnd" /\ q = "childDone"
      \/ ends[t].ph = "load" /\ q = "finished" /\ completions' > 0
      \/ ends[t].ph = "load" /\ q = "store"
      \/ ends[t].ph = "store" /\ q = "finished" /\ completions' > 0
  BY <1>4 DEF OnEnd, LoadDone, StoreDone, TypeOK, AtRoot
<1>6. TypeOK'
  <2>1. ends' \in [EndIds' -> [at : ctxs, from : ctxs, ph : Phases]]
    BY <1>1, <1>3, SMTT(30) DEF TypeOK
  <2>2. onEndCalls' \in [ctxs -> Nat]
    BY DEF OnEnd, LoadDone, StoreDone, TypeOK
  <2> QED
    BY <2>1, <2>2, <1>2 DEF TypeOK
<1>7. Routing'
  BY <1>2, <1>4, <1>5 DEF Routing
<1>8. ASSUME NEW u \in DOMAIN ends, NEW x
      PROVE  HeadingFor(u, x)' <=> HeadingFor(u, x)
  BY <1>4, <1>5 DEF HeadingFor
<1>9. \A u \in DOMAIN ends : (ends'[u].ph = "dropped") <=> (ends[u].ph = "dropped")
  BY <1>4, <1>5
<1>10. Counting'
  <2>1. \A x \in ctxs : Unreported(x)' = Unreported(x)
    BY <1>2 DEF Unreported
  <2>2. ASSUME NEW x \in ctxs, Decremented(x)' PROVE Decremented(x)
    <3>1. \A k \in 1..ended[x] : <<x, k>> \in DOMAIN ends
      BY EndIdsMember DEF TypeOK
    <3> QED
      BY <2>2, <3>1, <1>2, <1>8, <1>9, Zenon DEF Decremented
  <2>3. ASSUME NEW x \in ctxs, Climbed(x) PROVE Climbed(x)'
    BY <2>3, <1>2, <1>4, <1>8, Zenon DEF Climbed
  <2> QED
    BY <2>1, <2>2, <2>3, <1>2 DEF Counting
<1>11. AtRoot'
  <2>1. CASE completions' > 0
    BY <2>1 DEF AtRoot
  <2>2. CASE ~(completions' > 0)
    <3>1. completions = 0
      BY <2>2, <1>2 DEF TypeOK
    <3> QED
      BY <3>1, <2>2, <1>2, <1>4, <1>5 DEF AtRoot
  <2> QED
    BY <2>1, <2>2
<1> QED
  BY <1>6, <1>7, <1>10, <1>11

\* One call of childDone keeps the invariant.
LEMMA ChildDoneStep ==
  ASSUME IInv, NEW t \in DOMAIN ends, ChildDone(t), \A x \in ctxs : Counts(Unreported(x))
  PROVE  IInv'
<1> USE DEF IInv
<1>0. PICK c \in ctxs, f \in ctxs, n \in Int :
        c = ends[t].at /\ f = ends[t].from /\ n = waitingCount[c] - 1
  BY DEF TypeOK
<1>1. /\ ends[t].ph = "childDone"
      /\ waitingCount' = [waitingCount EXCEPT ![c] = n]
      /\ ends' = [ends EXCEPT ![t] = Climb(ends[t], c, n)]
      /\ reported' = IF f = c THEN reported ELSE reported \cup {f}
      /\ UNCHANGED <<ctxs, self, st, run, spawned, ended, onEndCalls, done,
                     completions, caller>>
  BY <1>0 DEF ChildDone, TypeOK
<1>2. c \in ctxs /\ f \in ctxs \ {Root}
  BY <1>0, Zenon DEF Routing
<1>3. f = c \/ (Parent(f) = c /\ f # c)
  BY <1>0, <1>1 DEF Routing
<1>4. n \in Int /\ waitingCount[c] \in Int /\ waitingCount' \in [ctxs -> Int]
  BY <1>1, <1>2 DEF TypeOK
<1>5. waitingCount'[c] = n /\ \A x \in ctxs : x # c => waitingCount'[x] = waitingCount[x]
  BY <1>1, <1>2 DEF TypeOK
<1>6. /\ DOMAIN ends' = DOMAIN ends
      /\ ends'[t] = Climb(ends[t], c, n)
      /\ \A u \in DOMAIN ends : u # t => ends'[u] = ends[u]
  BY <1>1 DEF TypeOK
<1>7. /\ n > 0 => ends'[t].ph = "finished" /\ ends'[t].at = c /\ ends'[t].from = f
      /\ n <= 0 /\ c # Root => /\ ends'[t].at = Parent(c) /\ ends'[t].from = c
                               /\ ends'[t].ph = "childDone"
      /\ n <= 0 /\ c = Root => /\ ends'[t].ph = "load" /\ ends'[t].at = c
                               /\ ends'[t].from = f
  <2>1. ends[t] \in [at : ctxs, from : ctxs, ph : Phases]
    BY DEF TypeOK
  <2> QED
    BY <2>1, <1>0, <1>1, <1>4, <1>6 DEF Climb
<1>8. EndIds' = EndIds
  BY <1>1 DEF EndIds
<1>9. TypeOK'
  <2>1. Climb(ends[t], c, n) \in [at : ctxs, from : ctxs, ph : Phases]
    <3>1. ends[t] \in [at : ctxs, from : ctxs, ph : Phases]
      BY DEF TypeOK
    <3>2. c # Root => Parent(c) \in ctxs
      BY <1>2, ParentIsContext
    <3> QED
      BY <3>1, <3>2, <1>2, <1>4, Zenon DEF Climb, Phases
  <2>2. ends' \in [EndIds' -> [at : ctxs, from : ctxs, ph : Phases]]
    BY <2>1, <1>1, <1>8 DEF TypeOK
  <2>3. reported' \subseteq ctxs \ {Root}
    BY <1>1, <1>2 DEF TypeOK
  <2> QED
    BY <2>2, <2>3, <1>1, <1>4 DEF TypeOK
<1>10. Routing'
  <2>1. waitingCount'[Root] <= 0
    BY <1>0, <1>4, <1>5 DEF Routing, TypeOK
  <2>2. ASSUME NEW u \in DOMAIN ends
        PROVE  /\ ends'[u].from # Root
               /\ ends'[u].ph = "onEnd" => ends'[u].at = ends'[u].from /\ ends'[u].from = u[1]
               /\ ends'[u].ph = "childDone" =>
                    \/ ends'[u].at = ends'[u].from /\ ends'[u].from = u[1]
                    \/ ends'[u].at = Parent(ends'[u].from)
    <3>1. CASE u = t
      BY <3>1, <1>2, <1>4, <1>7
    <3>2. CASE u # t
      BY <3>2, <1>6 DEF Routing
    <3> QED
      BY <3>1, <3>2
  <2> QED
    BY <2>1, <2>2, <1>1, <1>6 DEF Routing
<1>11. \A x \in ctxs : x # c => Unreported(x)' = Unreported(x)
  <2>1. ASSUME NEW x \in ctxs, x # c, NEW k PROVE <<x, k>> \in reported' <=> <<x, k>> \in reported
    <3>1. f # <<x, k>> \/ f = c
      BY <2>1, <1>3 DEF Parent
    <3> QED
      BY <3>1, <1>1
  <2> QED
    BY <2>1, <1>1 DEF Unreported
<1>12. n <= Cardinality(Unreported(c)')
  <2>1. waitingCount[c] <= Cardinality(Unreported(c))
    BY <1>2 DEF Counting
  <2>2. Counts(Unreported(c)) /\ Cardinality(Unreported(c)) \in Nat
    BY <1>2, Zenon DEF Counts
  <2>3. CASE f = c
    <3>1. Unreported(c)' = Unreported(c)
      BY <2>3, <1>1, <1>2 DEF Unreported
    <3> QED
      BY <3>1, <2>1, <2>2, <1>0, <1>4
  <2>4. CASE f # c
    <3>1. PICK k \in 1..spawned[c] : f = <<c, k>>
      BY <2>4, <1>2, <1>3, ParentIsContext
    <3>2. Unreported(c)' = Unreported(c) \ {k}
      BY <3>1, <2>4, <1>1 DEF Unreported
    <3>5. Cardinality(Unreported(c) \ {k}) =
            IF k \in Unreported(c) THEN Cardinality(Unreported(c)) - 1 ELSE Cardinality(Unreported(c))
      <4>1. ASSUME k \notin Unreported(c) PROVE Unreported(c) \ {k} = Unreported(c)
        BY <4>1
      <4> QED
        BY <2>2, <4>1, Zenon DEF Counts
    <3>3. Cardinality(Unreported(c) \ {k}) >= Cardinality(Unreported(c)) - 1
      BY <3>5, <2>2
    <3>4. Cardinality(Unreported(c) \ {k}) \in Int
      BY <3>5, <2>2
    <3> QED
      BY <3>2, <3>3, <3>4, <2>1, <2>2, <1>0, <1>4
  <2> QED
    BY <2>3, <2>4
<1>13. ASSUME NEW x \in ctxs \ {Root}, Decremented(x)', waitingCount'[x] <= 0
       PROVE  Climbed(x)'
  <2>1. CASE x = c
    <3>1. n <= 0 /\ c # Root
      BY <2>1, <1>5, <1>13
    <3> QED
      BY <3>1, <2>1, <1>6, <1>7 DEF Climbed, HeadingFor
  <2>2. CASE x # c
    <3>1. waitingCount[x] <= 0
      BY <2>2, <1>5, <1>13
    <3>2. \A k : <<x, k>> \in reported' => <<x, k>> \in reported
      BY <2>2, <1>1, <1>3 DEF Parent
    <3>3. ASSUME NEW k \in 1..ended[x], ~HeadingFor(<<x, k>>, x)', ends'[<<x, k>>].ph # "dropped"
          PROVE  ~HeadingFor(<<x, k>>, x) /\ ends[<<x, k>>].ph # "dropped"
      <4>1. <<x, k>> \in DOMAIN ends
        BY EndIdsMember DEF TypeOK
      <4> QED
        BY <4>1, <3>3, <2>2, <1>0, <1>1, <1>6 DEF HeadingFor
    <3>4. Decremented(x)
      BY <3>2, <3>3, <1>1, <1>13, Zenon DEF Decremented
    <3>5. Climbed(x)
      BY <3>1, <3>4 DEF Counting
    <3>6. CASE x \in reported
      BY <3>6, <1>1 DEF Climbed
    <3>7. CASE \E u \in DOMAIN ends : ends[u].from = x /\ HeadingFor(u, Parent(x))
      <4>1. PICK u \in DOMAIN ends : ends[u].from = x /\ HeadingFor(u, Parent(x))
        BY <3>7
      <4>2. CASE u = t
        BY <4>1, <4>2, <2>2, <1>0, <1>1 DEF Climbed
      <4>3. CASE u # t
        BY <4>1, <4>3, <1>6 DEF Climbed, HeadingFor
      <4> QED
        BY <4>2, <4>3
    <3> QED
      BY <3>5, <3>6, <3>7 DEF Climbed
  <2> QED
    BY <2>1, <2>2
<1>14. Counting'
  BY <1>1, <1>5, <1>11, <1>12, <1>13 DEF Counting
<1>15. AtRoot'
  <2>1. CASE c = Root
    <3>1. n <= 0
      BY <2>1, <1>0, <1>4 DEF Routing
    <3> QED
      BY <3>1, <2>1, <1>1, <1>6, <1>7 DEF AtRoot
  <2>2. CASE c # Root
    <3>1. \A k : <<Root, k>> \in reported' => <<Root, k>> \in reported
      BY <2>2, <1>1, <1>3 DEF Parent
    <3>2. ASSUME NEW u \in DOMAIN ends, ends[u].ph \in {"load", "store"}
          PROVE  ends'[u].ph \in {"load", "store"}
      BY <3>2, <1>1, <1>6
    <3> QED
      BY <3>1, <3>2, <1>1, <1>6, Zenon DEF AtRoot
  <2> QED
    BY <2>1, <2>2
<1> QED
  BY <1>9, <1>10, <1>14, <1>15

\* The types of the script state of a context.
LEMMA NextRelationType ==
  ASSUME NEW r \in RunState, r.tells # <<>>
  PROVE  NextRelation(r) \in RunState
<1> DEFINE rels == Head(r.tells)
<1>1. rels \in Seq(Relations) /\ Tail(r.tells) \in Seq(Seq(Relations))
  BY DEF RunState
<1>2. CASE Len(rels) <= 1
  BY <1>1, <1>2, Zenon DEF NextRelation, RunState
<1>3. CASE ~(Len(rels) <= 1)
  <2>1. rels # <<>>
    BY <1>3, <1>1
  <2>2. Tail(rels) \in Seq(Relations)
    BY <2>1, <1>1
  <2>3. <<Tail(rels)>> \o Tail(r.tells) \in Seq(Seq(Relations))
    BY <2>2, <1>1
  <2> QED
    BY <2>3, <1>3, Zenon DEF NextRelation, RunState
<1> QED
  BY <1>2, <1>3

\* The next nodes of a context are nodes of the chain.
LEMMA NextNodesType ==
  ASSUME TypeOK, NEW c \in ctxs, Telling(c)
  PROVE  GetNextNodes(c) \in Seq(Nodes)
<1>1. run[c] \in RunState /\ run[c].tells # <<>>
  BY DEF TypeOK, Telling
<1>2. Head(run[c].tells) \in Seq(Relations)
  BY <1>1 DEF RunState
<1>3. self[c] \in Nodes
  BY DEF TypeOK
<1>4. CASE Head(run[c].tells) = <<>>
  BY <1>4 DEF GetNextNodes
<1>5. CASE Head(run[c].tells) # <<>>
  <2>1. Head(Head(run[c].tells)) \in Relations
    BY <1>2, <1>5
  <2> QED
    BY <2>1, <1>3, <1>5, ChainAssumption DEF GetNextNodes
<1> QED
  BY <1>4, <1>5

\* Every step of a message keeps the inductive invariant.
LEMMA NextIInv ==
  ASSUME IInv, [Next]_vars, \A x \in ctxs : Counts(Unreported(x))
  PROVE  IInv'
<1>1. TypeOK /\ Routing
  BY DEF IInv
<1>2. Idle \in RunState
  BY DEF Idle, RunState
<1>3. CASE OnMsgAndWait
  <2>1. Root \in ctxs /\ FirstNode \in Nodes
    BY <1>1, ChainAssumption DEF TypeOK
  <2>2. Submit(Root, FirstNode, FALSE) /\ UNCHANGED <<ends, reported, done, completions>>
    BY <1>3, Zenon DEF OnMsgAndWait
  <2>3. run' \in [ctxs' -> RunState]
    <3>1. ctxs' = ctxs \cup {<<Root, spawned[Root] + 1>>}
      BY <2>2, Zenon DEF Submit
    <3>2. run' = Extend(run, <<Root, spawned[Root] + 1>>, Idle) /\ run \in [ctxs -> RunState]
      BY <1>1, <1>3 DEF OnMsgAndWait, TypeOK
    <3> QED
      BY <3>1, <3>2, <1>2, ExtendType, Zenon
  <2>4. caller' \in {"idle", "blocked", "returned"}
    BY <1>3 DEF OnMsgAndWait
  <2> QED
    BY <2>1, <2>2, <2>3, <2>4, SubmitStep, Zenon
<1>4. ASSUME NEW c \in ctxs, TellNext(c) PROVE IInv'
  <2>1. PICK s \in Scripts[self[c]] :
          run' = [run EXCEPT ![c] = [tells |-> s.tells, panics |-> s.panics, idx |-> 0]]
    BY <1>4, Zenon DEF TellNext
  <2>2. s \in Script
    BY <1>1, ChainAssumption DEF TypeOK
  <2>3. run' \in [ctxs -> RunState]
    BY <1>1, <2>1, <2>2 DEF Script, RunState, TypeOK
  <2>4. st' \in [ctxs -> Statuses] /\ st'[Root] = st[Root]
    BY <1>1, <1>4 DEF TellNext, Statuses, Routing, TypeOK
  <2>5. UNCHANGED <<ctxs, self, spawned, ended, waitingCount, ends, onEndCalls,
                    reported, done, completions, caller>>
    BY <1>4 DEF TellNext
  <2>6. EndIds' = EndIds
    BY <2>5 DEF EndIds
  <2>7. TypeOK'
    BY <1>1, <2>3, <2>4, <2>5, <2>6 DEF TypeOK
  <2>8. Routing'
    BY <1>1, <2>4, <2>5, Zenon DEF Routing
  <2>9. Counting'
    BY <2>5 DEF IInv, Counting, Unreported, Decremented, Climbed, HeadingFor
  <2>10. AtRoot'
    BY <2>5, Zenon DEF IInv, AtRoot
  <2> QED
    BY <2>7, <2>8, <2>9, <2>10 DEF IInv
<1>5. ASSUME NEW c \in ctxs, TellChild(c) PROVE IInv'
  <2> DEFINE next == GetNextNodes(c)
             i == run[c].idx + 1
             r == IF i = Len(next) THEN NextRelation(run[c]) ELSE [run[c] EXCEPT !.idx = i]
  <2>1. /\ Telling(c) /\ i <= Len(next) /\ Submit(c, next[i], TRUE)
        /\ run' = Extend([run EXCEPT ![c] = r], <<c, spawned[c] + 1>>, Idle)
        /\ UNCHANGED <<ends, reported, done, completions, caller>>
    BY <1>5, Zenon DEF TellChild
  <2>2. run[c] \in RunState /\ run[c].tells # <<>> /\ i \in Nat /\ i >= 1
    <3>1. run[c] \in RunState /\ run[c].tells # <<>>
      BY <1>1, <2>1 DEF TypeOK, Telling
    <3>2. run[c].idx \in Nat
      BY <3>1 DEF RunState
    <3> QED
      BY <3>1, <3>2
  <2>3. next \in Seq(Nodes)
    BY <1>1, <2>1, NextNodesType
  <2>4. next[i] \in Nodes
    BY <2>1, <2>2, <2>3
  <2>5. r \in RunState
    <3>1. NextRelation(run[c]) \in RunState
      BY <2>2, NextRelationType
    <3>2. [run[c] EXCEPT !.idx = i] \in RunState
      BY <2>2, Zenon DEF RunState
    <3> QED
      BY <3>1, <3>2
  <2>6. [run EXCEPT ![c] = r] \in [ctxs -> RunState]
    BY <1>1, <2>5 DEF TypeOK
  <2>7. run' \in [ctxs' -> RunState]
    <3>1. ctxs' = ctxs \cup {<<c, spawned[c] + 1>>}
      BY <2>1 DEF Submit
    <3> HIDE DEF r
    <3> QED
      BY <3>1, <2>1, <2>6, <1>2, ExtendType, Zenon
  <2>8. c # Root
    BY <1>1, <2>1 DEF Telling, Routing
  <2>9. caller' \in {"idle", "blocked", "returned"}
    BY <1>1, <2>1 DEF TypeOK
  <2> HIDE DEF next, i, r
  <2> QED
    BY <2>1, <2>4, <2>7, <2>8, <2>9, SubmitStep, Zenon
<1>6. ASSUME NEW c \in ctxs, TellEnd(c) PROVE IInv'
  <2>1. c # Root
    BY <1>1, <1>6 DEF TellEnd, Telling, Routing
  <2>2. run' \in [ctxs -> RunState]
    <3>1. run[c] \in RunState /\ run[c].tells # <<>>
      BY <1>1, <1>6 DEF TellEnd, Telling, TypeOK
    <3>2. NextRelation(run[c]) \in RunState
      BY <3>1, NextRelationType
    <3> QED
      BY <3>2, <1>1, <1>6 DEF TellEnd, TypeOK
  <2>3. PICK ph \in {"onEnd", "dropped"} : NewEnd(c, c, ph)
    BY <1>6 DEF TellEnd, DoOnEnd
  <2>4. UNCHANGED <<ctxs, self, st, spawned, waitingCount, onEndCalls, reported,
                    done, completions, caller>>
    BY <1>6 DEF TellEnd
  <2>5. st' \in [ctxs -> Statuses]
    BY <1>1, <2>4 DEF TypeOK
  <2> QED
    BY <2>1, <2>2, <2>3, <2>4, <2>5, EndStep
<1>7. ASSUME NEW c \in ctxs, Recover(c) PROVE IInv'
  <2>1. c # Root
    BY <1>1, <1>7, Zenon DEF Recover, Routing
  <2>2. st' \in [ctxs -> Statuses] /\ st'[Root] = st[Root]
    BY <1>1, <1>7, <2>1 DEF Recover, Statuses, TypeOK
  <2>3. NewEnd(c, Parent(c), "childDone")
    BY <1>7, Zenon DEF Recover
  <2>4. UNCHANGED <<ctxs, self, run, spawned, waitingCount, onEndCalls, reported,
                    done, completions, caller>>
    BY <1>7 DEF Recover
  <2>5. run' \in [ctxs -> RunState]
    BY <1>1, <2>4 DEF TypeOK
  <2> QED
    BY <2>1, <2>2, <2>3, <2>4, <2>5, EndStep
<1>8. ASSUME NEW t \in DOMAIN ends, OnEnd(t) \/ LoadDone(t) \/ StoreDone(t) PROVE IInv'
  BY <1>8, PhaseStep
<1>9. ASSUME NEW t \in DOMAIN ends, ChildDone(t) PROVE IInv'
  BY <1>9, ChildDoneStep
<1>10. CASE Return \/ UNCHANGED vars
  <2>1. UNCHANGED <<ctxs, self, st, run, spawned, ended, waitingCount, ends,
                    onEndCalls, reported, done, completions>>
    BY <1>10 DEF Return, vars
  <2>2. caller' \in {"idle", "blocked", "returned"}
    BY <1>1, <1>10 DEF Return, vars, TypeOK
  <2>3. EndIds' = EndIds
    BY <2>1 DEF EndIds
  <2>4. TypeOK'
    BY <1>1, <2>1, <2>2, <2>3 DEF TypeOK
  <2>5. Routing'
    BY <1>1, <2>1, Zenon DEF Routing
  <2>6. Counting'
    BY <2>1 DEF IInv, Counting, Unreported, Decremented, Climbed, HeadingFor
  <2>7. AtRoot'
    BY <2>1, Zenon DEF IInv, AtRoot
  <2> QED
    BY <2>4, <2>5, <2>6, <2>7 DEF IInv
<1> QED
  BY <1>3, <1>4, <1>5, <1>6, <1>7, <1>8, <1>9, <1>10 DEF Next, Step

-----------------------------------------------------------------------------
(* A branch is counted as done only after its onEnd callback.              *)

\* A context that may tell its parent: it has children, onEnd has been called for
\* it, or its node has panicked.
Settled(c) == spawned[c] > 0 \/ onEndCalls[c] > 0 \/ st[c] = "panicked"

\* Only settled contexts tell their parents.
SettledInv ==
  /\ \A t \in DOMAIN ends : ends[t].ph = "childDone" => Settled(ends[t].from)
  /\ \A c \in reported : Settled(c)

\* What Submit does to each context.
LEMMA SubmitFacts ==
  ASSUME TypeOK, NEW c \in ctxs, NEW n, NEW waits, Submit(c, n, waits), NEW d,
         d = <<c, spawned[c] + 1>>
  PROVE  /\ ctxs' = ctxs \cup {d} /\ d \notin ctxs /\ d # Root
         /\ spawned'[c] = spawned[c] + 1 /\ spawned'[d] = 0 /\ ended'[d] = 0
         /\ st'[d] \in {"submitted", "dropped"}
         /\ \A x \in ctxs : x # c => spawned'[x] = spawned[x]
         /\ \A x \in ctxs : /\ ended'[x] = ended[x] /\ st'[x] = st[x]
                            /\ onEndCalls'[x] = onEndCalls[x] /\ self'[x] = self[x]
<1>1. d \notin ctxs /\ d # Root
  BY FreshChild
<1>2. PICK ok \in Accepted :
        /\ ctxs' = ctxs \cup {d}
        /\ self' = Extend(self, d, n)
        /\ st' = Extend(st, d, IF ok THEN "submitted" ELSE "dropped")
        /\ spawned' = Extend([spawned EXCEPT ![c] = @ + 1], d, 0)
        /\ ended' = Extend(ended, d, 0)
        /\ onEndCalls' = Extend(onEndCalls, d, 0)
  BY DEF Submit
<1>3. /\ spawned'[c] = spawned[c] + 1 /\ spawned'[d] = 0
      /\ \A x \in ctxs : x # c => spawned'[x] = spawned[x]
  BY <1>1, <1>2 DEF TypeOK, Extend
<1>4. ended'[d] = 0 /\ st'[d] \in {"submitted", "dropped"}
  BY <1>2 DEF Extend
<1>5. \A x \in ctxs : /\ ended'[x] = ended[x] /\ st'[x] = st[x]
                      /\ onEndCalls'[x] = onEndCalls[x] /\ self'[x] = self[x]
  BY <1>1, <1>2, SMTT(30) DEF TypeOK, Extend
<1> QED
  BY <1>1, <1>2, <1>3, <1>4, <1>5, Zenon

\* What NewEnd does to each goroutine that ends a branch.
LEMMA NewEndFacts ==
  ASSUME TypeOK, NEW c \in ctxs, NEW at, NEW ph, NewEnd(c, at, ph)
  PROVE  /\ ended'[c] = ended[c] + 1
         /\ \A x \in ctxs : x # c => ended'[x] = ended[x]
         /\ \E e \in DOMAIN ends' : ends'[e].from = c /\ ends'[e].ph = ph
         /\ \A t \in DOMAIN ends' :
              \/ ends'[t].from = c /\ ends'[t].ph = ph
              \/ t \in DOMAIN ends /\ ends'[t] = ends[t]
<1> DEFINE e == <<c, ended[c] + 1>>
<1>1. /\ ended' = [ended EXCEPT ![c] = @ + 1]
      /\ ends' = Extend(ends, e, [at |-> at, from |-> c, ph |-> ph])
  BY DEF NewEnd
<1> HIDE DEF e
<1>2. /\ DOMAIN ends' = DOMAIN ends \cup {e} /\ ends'[e].from = c /\ ends'[e].ph = ph
      /\ \A t \in DOMAIN ends : t # e => ends'[t] = ends[t]
  BY <1>1 DEF Extend
<1>3. ended'[c] = ended[c] + 1 /\ \A x \in ctxs : x # c => ended'[x] = ended[x]
  BY <1>1 DEF TypeOK
<1> QED
  BY <1>2, <1>3

\* A context stays settled.
LEMMA StaysSettled ==
  ASSUME TypeOK, [Next]_vars, NEW x \in ctxs, Settled(x)
  PROVE  Settled(x)'
<1>0. spawned[x] \in Nat /\ onEndCalls[x] \in Nat
  BY DEF TypeOK
<1>1. ASSUME NEW c \in ctxs, NEW n, NEW waits, Submit(c, n, waits) PROVE Settled(x)'
  <2>1. /\ spawned'[x] = spawned[x] \/ spawned'[x] = spawned[x] + 1
        /\ st'[x] = st[x] /\ onEndCalls'[x] = onEndCalls[x]
    BY <1>1, SubmitFacts, Zenon
  <2> QED
    BY <1>0, <2>1 DEF Settled
<1>2. CASE OnMsgAndWait
  <2>1. Root \in ctxs
    BY DEF TypeOK
  <2> QED
    BY <1>1, <1>2, <2>1, Zenon DEF OnMsgAndWait
<1>3. ASSUME NEW c \in ctxs, TellChild(c) PROVE Settled(x)'
  BY <1>1, <1>3, Zenon DEF TellChild
<1>4. ASSUME NEW c \in ctxs, TellNext(c) \/ Recover(c) PROVE Settled(x)'
  <2>1. UNCHANGED <<spawned, onEndCalls>> /\ (st[x] = "panicked" => st'[x] = "panicked")
    BY <1>4, SMTT(30) DEF TellNext, Recover, TypeOK
  <2> QED
    BY <2>1 DEF Settled
<1>5. ASSUME NEW c \in ctxs, TellEnd(c) PROVE Settled(x)'
  BY <1>5 DEF TellEnd, Settled
<1>6. ASSUME NEW t \in DOMAIN ends, OnEnd(t) PROVE Settled(x)'
  <2>1. UNCHANGED <<spawned, st>> /\ onEndCalls' = [onEndCalls EXCEPT ![t[1]] = @ + 1]
    BY <1>6 DEF OnEnd
  <2>2. onEndCalls'[x] = onEndCalls[x] \/ onEndCalls'[x] = onEndCalls[x] + 1
    BY <2>1 DEF TypeOK
  <2> QED
    BY <1>0, <2>1, <2>2 DEF Settled
<1>7. ASSUME NEW t \in DOMAIN ends, ChildDone(t) \/ LoadDone(t) \/ StoreDone(t) PROVE Settled(x)'
  BY <1>7 DEF ChildDone, LoadDone, StoreDone, Settled
<1>8. CASE Return \/ UNCHANGED vars
  BY <1>8 DEF Return, vars, Settled
<1> QED
  BY <1>2, <1>3, <1>4, <1>5, <1>6, <1>7, <1>8 DEF Next, Step

\* Every step lets only settled contexts tell their parents.
LEMMA SettledStep ==
  ASSUME IInv, SettledInv, [Next]_vars
  PROVE  SettledInv'
<1>1. TypeOK /\ Routing
  BY DEF IInv
<1>2. /\ \A t \in DOMAIN ends : ends[t] \in [at : ctxs, from : ctxs, ph : Phases]
      /\ reported \subseteq ctxs \ {Root}
  BY <1>1 DEF TypeOK
<1>3. \A x \in ctxs : Settled(x) => Settled(x)'
  BY <1>1, StaysSettled
<1>4. /\ \A t \in DOMAIN ends : \A x \in ctxs : ends[t].ph = "childDone" /\ ends[t].from = x => Settled(x)'
      /\ \A c \in reported : Settled(c)'
  BY <1>2, <1>3 DEF SettledInv
<1>5. CASE UNCHANGED <<ends, reported>>
  BY <1>2, <1>4, <1>5, Zenon DEF SettledInv, Settled
<1>6. ASSUME NEW c \in ctxs, TellEnd(c) PROVE SettledInv'
  <2>1. PICK ph \in {"onEnd", "dropped"} : NewEnd(c, c, ph)
    BY <1>6 DEF TellEnd, DoOnEnd
  <2>2. reported' = reported
    BY <1>6 DEF TellEnd
  <2>3. \A t \in DOMAIN ends' : ends'[t].ph = "childDone" => t \in DOMAIN ends /\ ends'[t] = ends[t]
    BY <1>1, <2>1, NewEndFacts
  <2> QED
    BY <1>2, <1>4, <2>2, <2>3 DEF SettledInv, Settled
<1>7. ASSUME NEW c \in ctxs, Recover(c) PROVE SettledInv'
  <2>1. NewEnd(c, Parent(c), "childDone") /\ reported' = reported
    BY <1>7 DEF Recover
  <2>2. st'[c] = "panicked"
    BY <1>1, <1>7 DEF Recover, TypeOK
  <2>3. Settled(c)'
    BY <2>2 DEF Settled
  <2>4. \A t \in DOMAIN ends' : ends'[t].from = c \/ (t \in DOMAIN ends /\ ends'[t] = ends[t])
    BY <1>1, <2>1, NewEndFacts, Zenon
  <2> QED
    BY <1>2, <1>4, <2>1, <2>3, <2>4 DEF SettledInv, Settled
<1>8. ASSUME NEW t \in DOMAIN ends, OnEnd(t) PROVE SettledInv'
  <2>1. ends[t].from = t[1] /\ t[1] \in ctxs
    BY <1>1, <1>2, <1>8 DEF OnEnd, Routing
  <2>2. onEndCalls'[t[1]] > 0
    BY <1>1, <1>8, <2>1 DEF OnEnd, TypeOK
  <2>3. Settled(t[1])'
    BY <2>2 DEF Settled
  <2>4. /\ DOMAIN ends' = DOMAIN ends /\ reported' = reported /\ ends'[t].from = ends[t].from
        /\ \A u \in DOMAIN ends : u # t => ends'[u] = ends[u]
    BY <1>1, <1>8 DEF OnEnd, TypeOK
  <2>5. ASSUME NEW u \in DOMAIN ends, ends'[u].ph = "childDone", NEW x \in ctxs, x = ends'[u].from
        PROVE  Settled(x)'
    <3>1. CASE u = t
      BY <2>1, <2>3, <2>4, <2>5, <3>1, Zenon
    <3>2. CASE u # t
      BY <1>4, <2>4, <2>5, <3>2, Zenon
    <3> QED
      BY <3>1, <3>2
  <2>6. \A u \in DOMAIN ends : ends'[u].from \in ctxs
    BY <1>2, <2>4
  <2> QED
    BY <1>4, <2>4, <2>5, <2>6, Zenon DEF SettledInv, Settled
<1>9. ASSUME NEW t \in DOMAIN ends, LoadDone(t) \/ StoreDone(t) PROVE SettledInv'
  <2>1. /\ DOMAIN ends' = DOMAIN ends /\ reported' = reported /\ ends'[t].ph # "childDone"
        /\ \A u \in DOMAIN ends : u # t => ends'[u] = ends[u]
    BY <1>1, <1>9 DEF LoadDone, StoreDone, TypeOK
  <2> QED
    BY <1>2, <1>4, <2>1 DEF SettledInv, Settled
<1>10. ASSUME NEW t \in DOMAIN ends, ChildDone(t) PROVE SettledInv'
  <2>1. PICK c \in ctxs, f \in ctxs, n \in Int :
          c = ends[t].at /\ f = ends[t].from /\ n = waitingCount[c] - 1
    BY <1>1 DEF TypeOK
  <2>2. /\ ends[t].ph = "childDone"
        /\ ends' = [ends EXCEPT ![t] = Climb(ends[t], c, n)]
        /\ reported' = IF f = c THEN reported ELSE reported \cup {f}
        /\ UNCHANGED <<st, spawned, onEndCalls>>
    BY <1>10, <2>1 DEF ChildDone
  <2>3. Settled(f)'
    BY <1>4, <2>1, <2>2
  <2>4. f # Root /\ (f = c \/ Parent(f) = c)
    BY <1>1, <2>1, <2>2 DEF Routing
  <2>5. Settled(c)'
    <3>1. CASE f = c
      BY <2>3, <3>1
    <3>2. CASE Parent(f) = c
      <4>1. \E k \in 1..spawned[c] : TRUE
        BY <1>1, <2>4, <3>2, ParentIsContext
      <4>2. spawned[c] > 0
        BY <1>1, <4>1 DEF TypeOK
      <4> QED
        BY <2>2, <4>2 DEF Settled
    <3> QED
      BY <2>4, <3>1, <3>2
  <2>6. ends'[t].from \in {c, f}
    <3>1. ends[t] \in [at : ctxs, from : ctxs, ph : Phases]
      BY <1>2
    <3>2. ends'[t] = Climb(ends[t], c, n)
      BY <2>2
    <3> QED
      BY <2>1, <3>1, <3>2 DEF Climb
  <2>7. DOMAIN ends' = DOMAIN ends /\ \A u \in DOMAIN ends : u # t => ends'[u] = ends[u]
    BY <2>2
  <2> QED
    BY <1>2, <1>4, <2>2, <2>3, <2>5, <2>6, <2>7, Zenon DEF SettledInv, Settled
<1>11. CASE OnMsgAndWait \/ Return \/ UNCHANGED vars
  BY <1>5, <1>11, Zenon DEF OnMsgAndWait, Return, vars
<1>12. ASSUME NEW c \in ctxs, TellNext(c) \/ TellChild(c) PROVE SettledInv'
  BY <1>5, <1>12, Zenon DEF TellNext, TellChild
<1> QED
  BY <1>6, <1>7, <1>8, <1>9, <1>10, <1>11, <1>12 DEF Next, Step

-----------------------------------------------------------------------------
(* Completion is exact for straight chains.                                *)

\* The node of context c has nothing left to tell.
Told(c) == run[c].tells = <<>> /\ ~run[c].panics

\* The node of context c has one thing left to do: a tell of at most one relation,
\* or its panic.
OneLeft(c) ==
  \/ run[c].tells = <<>> /\ run[c].panics
  \/ Len(run[c].tells) = 1 /\ Len(run[c].tells[1]) <= 1 /\ ~run[c].panics

\* A context of a straight node starts one child, or ends one branch, at most.
OneBranch(c) ==
  /\ st[c] # "root" /\ spawned[c] + ended[c] <= 1
  /\ st[c] \in {"submitted", "dropped"} => spawned[c] = 0 /\ ended[c] = 0
  /\ st[c] = "running" =>
       \/ Told(c)
       \/ OneLeft(c) /\ run[c].idx = 0 /\ spawned[c] = 0 /\ ended[c] = 0
  /\ st[c] = "panicked" => spawned[c] = 0

\* The contexts of straight nodes are a line with one last context; the callback
\* is called by the goroutine that ended the branch there, as its last step.
LineInv ==
  /\ \A c \in ctxs \ {Root} : OneBranch(c)
  /\ spawned[Root] <= 1 /\ (caller = "idle" => spawned[Root] = 0)
  /\ \A c, d \in ctxs : spawned[c] = 0 /\ spawned[d] = 0 => c = d
  /\ completions <= 1
  /\ completions = 1 => DOMAIN ends # {} /\ \A t \in DOMAIN ends : ends[t].ph = "finished"

AllStraight == \A c \in ctxs : Straight(self[c])

\* A goroutine that ends a branch belongs to a context that has ended one.
LEMMA EndOfContext ==
  ASSUME TypeOK, NEW t \in DOMAIN ends
  PROVE  \E c \in ctxs : \E k \in 1..ended[c] : t = <<c, k>>
BY EndIdsMember DEF TypeOK

\* In a line there is one goroutine that ends a branch, of the last context.
LEMMA OneEnd ==
  ASSUME IInv, LineInv
  PROVE  /\ \A t, u \in DOMAIN ends : t = u
         /\ \A c \in ctxs \ {Root} : spawned[c] = 0 /\ DOMAIN ends # {} => ended[c] # 0
<1>1. TypeOK /\ ended[Root] = 0
  BY DEF IInv, Routing
<1>2. ASSUME NEW t \in DOMAIN ends
      PROVE  \E c \in ctxs : c # Root /\ spawned[c] = 0 /\ ended[c] = 1 /\ t = <<c, 1>>
  <2>1. PICK c \in ctxs : \E k \in 1..ended[c] : t = <<c, k>>
    BY <1>1, EndOfContext
  <2>2. PICK k \in 1..ended[c] : t = <<c, k>>
    BY <2>1
  <2>3. ended[c] \in Nat /\ spawned[c] \in Nat
    BY <1>1 DEF TypeOK
  <2>4. c # Root
    BY <1>1, <2>2
  <2>5. spawned[c] + ended[c] <= 1
    BY <2>4 DEF LineInv, OneBranch
  <2>6. spawned[c] = 0 /\ ended[c] = 1 /\ k = 1
    BY <2>2, <2>3, <2>5
  <2> QED
    BY <2>2, <2>4, <2>6
<1>3. \A c, d \in ctxs : spawned[c] = 0 /\ spawned[d] = 0 => c = d
  BY Zenon DEF LineInv
<1>4. ASSUME NEW t \in DOMAIN ends, NEW u \in DOMAIN ends PROVE t = u
  <2>1. PICK c \in ctxs : spawned[c] = 0 /\ t = <<c, 1>>
    BY <1>2
  <2>2. PICK d \in ctxs : spawned[d] = 0 /\ u = <<d, 1>>
    BY <1>2
  <2> QED
    BY <1>3, <2>1, <2>2
<1>5. ASSUME NEW c \in ctxs \ {Root}, spawned[c] = 0, DOMAIN ends # {} PROVE ended[c] # 0
  <2>1. PICK t \in DOMAIN ends : TRUE
    BY <1>5
  <2>2. PICK d \in ctxs : spawned[d] = 0 /\ ended[d] = 1
    BY <1>2, <2>1
  <2>3. c = d
    BY <1>3, <1>5, <2>2
  <2> QED
    BY <2>2, <2>3
<1> QED
  BY <1>4, <1>5

\* The last context of a line gets a child, which is the last one then.
LEMMA LineGrows ==
  ASSUME IInv, LineInv, NEW c \in ctxs, NEW n, NEW waits, Submit(c, n, waits),
         spawned[c] = 0, c # Root => ended[c] = 0 /\ st[c] = "running" /\ Told(c)',
         \A x \in ctxs : x # c => run'[x] = run[x],
         UNCHANGED <<ends, completions>>, caller' = "idle" => caller = "idle" /\ c # Root
  PROVE  LineInv'
<1>1. TypeOK
  BY Zenon DEF IInv
<1>2. PICK d : d = <<c, spawned[c] + 1>>
  BY Zenon
<1>3. /\ ctxs' = ctxs \cup {d} /\ d \notin ctxs /\ d # Root
      /\ spawned'[c] = spawned[c] + 1 /\ spawned'[d] = 0 /\ ended'[d] = 0
      /\ st'[d] \in {"submitted", "dropped"}
      /\ \A x \in ctxs : x # c => spawned'[x] = spawned[x]
      /\ \A x \in ctxs : ended'[x] = ended[x] /\ st'[x] = st[x]
  BY <1>1, <1>2, SubmitFacts
<1>4. spawned'[c] = 1
  BY <1>3
<1>5. ASSUME NEW x \in ctxs' \ {Root} PROVE OneBranch(x)'
  <2>1. CASE x = d
    BY <1>3, <2>1 DEF OneBranch
  <2>2. CASE x = c
    BY <1>3, <1>4, <1>5, <2>2 DEF OneBranch
  <2>3. CASE x \in ctxs /\ x # c
    <3>1. OneBranch(x)
      BY <1>5, <2>3, Zenon DEF LineInv
    <3>2. spawned'[x] = spawned[x] /\ ended'[x] = ended[x] /\ st'[x] = st[x] /\ run'[x] = run[x]
      BY <1>3, <2>3, Zenon
    <3> QED
      BY <3>1, <3>2, Zenon DEF OneBranch, Told, OneLeft
  <2> QED
    BY <1>3, <2>1, <2>2, <2>3, Zenon
<1>6. spawned'[Root] <= 1
  BY <1>1, <1>3, <1>4 DEF LineInv, TypeOK
<1>7. ASSUME NEW x \in ctxs', spawned'[x] = 0 PROVE x = d
  <2>1. CASE x \in ctxs
    <3>1. x # c
      BY <1>4, <1>7
    <3>2. spawned[x] = 0
      BY <1>3, <1>7, <2>1, <3>1, Zenon
    <3> QED
      BY <2>1, <3>1, <3>2, Zenon DEF LineInv
  <2> QED
    BY <1>3, <2>1, Zenon
<1>8. caller' = "idle" => spawned'[Root] = 0
  BY <1>1, <1>3, Zenon DEF LineInv, TypeOK
<1> QED
  BY <1>5, <1>6, <1>7, <1>8, Zenon DEF LineInv

\* The last context of a line ends its branch; nobody has completed before.
LEMMA LineEnds ==
  ASSUME IInv, LineInv, NEW c \in ctxs \ {Root}, NEW at, NEW ph, NewEnd(c, at, ph),
         spawned[c] = 0, ended[c] = 0,
         \/ st'[c] = "panicked"
         \/ st'[c] = "running" /\ Told(c)',
         \A x \in ctxs : x # c => st'[x] = st[x] /\ run'[x] = run[x],
         UNCHANGED <<ctxs, spawned, completions, caller>>
  PROVE  LineInv'
<1>1. TypeOK
  BY Zenon DEF IInv
<1>2. /\ ended'[c] = ended[c] + 1
      /\ \A x \in ctxs : x # c => ended'[x] = ended[x]
  BY <1>1, NewEndFacts, Zenon
<1>3. DOMAIN ends = {}
  BY OneEnd, Zenon
<1>4. completions <= 1 /\ completions # 1
  BY <1>3, Zenon DEF LineInv
<1>5. ASSUME NEW x \in ctxs \ {Root} PROVE OneBranch(x)'
  <2>1. CASE x = c
    BY <1>2, <2>1 DEF OneBranch
  <2>2. CASE x # c
    <3>1. OneBranch(x)
      BY <1>5, Zenon DEF LineInv
    <3> QED
      BY <1>2, <2>2, <3>1, Zenon DEF OneBranch, Told, OneLeft
  <2> QED
    BY <2>1, <2>2, Zenon
<1> QED
  BY <1>4, <1>5, Zenon DEF LineInv

\* A straight node that begins has one thing to do, or nothing.
LEMMA BeginsWithOne ==
  ASSUME NEW s \in Script, Len(s.tells) + (IF s.panics THEN 1 ELSE 0) <= 1,
         \A i \in DOMAIN s.tells : Len(s.tells[i]) <= 1
  PROVE  \/ s.tells = <<>> /\ ~s.panics
         \/ s.tells = <<>> /\ s.panics
         \/ Len(s.tells) = 1 /\ Len(s.tells[1]) <= 1 /\ ~s.panics
<1>1. s.tells \in Seq(Seq(Relations)) /\ s.panics \in BOOLEAN /\ Len(s.tells) \in Nat
  BY DEF Script
<1>2. CASE Len(s.tells) = 0
  <2>1. s.tells = <<>>
    BY <1>1, <1>2
  <2> QED
    BY <1>1, <2>1
<1>3. CASE Len(s.tells) # 0
  <2>1. PICK m : m = Len(s.tells)
    BY Zenon
  <2>2. ASSUME s.panics PROVE FALSE
    <3>1. Len(s.tells) + 1 <= 1
      BY <2>2
    <3> QED
      BY <1>1, <1>3, <3>1
  <2>3. m \in Nat /\ m # 0 /\ m + 0 <= 1
    BY <1>1, <1>3, <2>1, <2>2, Zenon
  <2>4. m = 1
    BY ONLY <2>3
  <2>5. 1 \in DOMAIN s.tells
    <3>1. s.tells \in Seq(Seq(Relations)) /\ Len(s.tells) = 1
      BY <1>1, <2>1, <2>4
    <3> QED
      BY ONLY <3>1
  <2> QED
    BY <2>1, <2>2, <2>4, <2>5
<1> QED
  BY <1>2, <1>3

\* After its one tell a straight node has told everything.
LEMMA TellsOnce ==
  ASSUME NEW r \in RunState, Len(r.tells) = 1, Len(r.tells[1]) <= 1, ~r.panics
  PROVE  NextRelation(r).tells = <<>> /\ ~NextRelation(r).panics
<1>1. r.tells \in Seq(Seq(Relations))
  BY DEF RunState
<1>2. Head(r.tells) = r.tells[1] /\ Tail(r.tells) = <<>>
  <2> DEFINE q == r.tells
  <2>1. q \in Seq(Seq(Relations)) /\ Len(q) = 1 /\ q # <<>>
    BY <1>1
  <2> HIDE DEF q
  <2>2. Tail(q) \in Seq(Seq(Relations)) /\ Len(Tail(q)) = 0 /\ Head(q) = q[1]
    BY <2>1
  <2>3. PICK z : z = Tail(q)
    BY Zenon
  <2>4. z \in Seq(Seq(Relations)) /\ Len(z) = 0
    BY <2>2, <2>3
  <2>5. z = <<>>
    BY ONLY <2>4
  <2> QED
    BY <2>2, <2>3, <2>5 DEF q
<1>3. NextRelation(r) = [r EXCEPT !.idx = 0, !.tells = Tail(r.tells)]
  BY <1>2, Zenon DEF NextRelation
<1> QED
  BY <1>2, <1>3 DEF RunState

\* A message that has met only straight nodes after a step has met only such
\* nodes before it: contexts stay, and keep their nodes.
LEMMA StraightBefore ==
  ASSUME TypeOK, [Next]_vars, AllStraight'
  PROVE  AllStraight
<1>1. ASSUME NEW c \in ctxs, NEW n, NEW waits, Submit(c, n, waits) PROVE AllStraight
  <2>1. PICK d : d = <<c, spawned[c] + 1>>
    BY Zenon
  <2>2. ctxs' = ctxs \cup {d} /\ \A x \in ctxs : self'[x] = self[x]
    BY <1>1, <2>1, SubmitFacts, Zenon
  <2> QED
    BY <2>2, Zenon DEF AllStraight, Straight
<1>2. CASE UNCHANGED <<ctxs, self>>
  BY <1>2, Zenon DEF AllStraight, Straight
<1>3. CASE OnMsgAndWait
  <2>1. Root \in ctxs
    BY Zenon DEF TypeOK
  <2> QED
    BY <1>1, <1>3, <2>1, Zenon DEF OnMsgAndWait
<1>4. ASSUME NEW c \in ctxs, TellChild(c) PROVE AllStraight
  BY <1>1, <1>4, Zenon DEF TellChild
<1>5. ASSUME NEW c \in ctxs, TellNext(c) \/ TellEnd(c) \/ Recover(c) PROVE AllStraight
  BY <1>2, <1>5, Zenon DEF TellNext, TellEnd, Recover
<1>6. ASSUME NEW t \in DOMAIN ends, OnEnd(t) \/ ChildDone(t) \/ LoadDone(t) \/ StoreDone(t)
      PROVE  AllStraight
  BY <1>2, <1>6 DEF OnEnd, ChildDone, LoadDone, StoreDone
<1>7. CASE Return \/ UNCHANGED vars
  BY <1>2, <1>7 DEF Return, vars
<1> QED
  BY <1>3, <1>4, <1>5, <1>6, <1>7 DEF Next, Step

\* Every step of a message among straight nodes keeps the line.
LEMMA LineStep ==
  ASSUME IInv, AllStraight, LineInv, [Next]_vars
  PROVE  LineInv'
<1>1. TypeOK /\ Routing
  BY DEF IInv
<1>2. CASE OnMsgAndWait
  <2>1. Root \in ctxs /\ spawned[Root] = 0 /\ Submit(Root, FirstNode, FALSE)
    BY <1>1, <1>2, Zenon DEF OnMsgAndWait, LineInv, TypeOK
  <2>2. \A x \in ctxs : x # Root => run'[x] = run[x]
    <3>1. <<Root, spawned[Root] + 1>> \notin ctxs
      BY <1>1, <2>1, FreshChild
    <3> QED
      BY <1>1, <1>2, <3>1, Zenon DEF OnMsgAndWait, Extend, TypeOK
  <2>3. UNCHANGED <<ends, completions>> /\ caller' # "idle"
    BY <1>2 DEF OnMsgAndWait
  <2> QED
    BY <2>1, <2>2, <2>3, LineGrows, Zenon
<1>3. ASSUME NEW c \in ctxs, TellNext(c) PROVE LineInv'
  <2>1. PICK s \in Scripts[self[c]] :
          run' = [run EXCEPT ![c] = [tells |-> s.tells, panics |-> s.panics, idx |-> 0]]
    BY <1>3, Zenon DEF TellNext
  <2>2. s \in Script
    BY <1>1, ChainAssumption DEF TypeOK
  <2>3. /\ Len(s.tells) + (IF s.panics THEN 1 ELSE 0) <= 1
        /\ \A i \in DOMAIN s.tells : Len(s.tells[i]) <= 1
    <3>1. Straight(self[c])
      BY DEF AllStraight
    <3> QED
      BY <3>1, Zenon DEF Straight
  <2>4. \/ s.tells = <<>> /\ ~s.panics
        \/ s.tells = <<>> /\ s.panics
        \/ Len(s.tells) = 1 /\ Len(s.tells[1]) <= 1 /\ ~s.panics
    BY <2>2, <2>3, BeginsWithOne, Zenon
  <2>5. /\ st[c] = "submitted" /\ st'[c] = "running" /\ run'[c].idx = 0
        /\ run'[c].tells = s.tells /\ run'[c].panics = s.panics
        /\ \A x \in ctxs : x # c => st'[x] = st[x] /\ run'[x] = run[x]
    BY <1>1, <1>3, <2>1, Zenon DEF TellNext, TypeOK
  <2>6. UNCHANGED <<ctxs, spawned, ended, ends, completions, caller>>
    BY <1>3, Zenon DEF TellNext
  <2>7. c # Root
    BY <1>1, <2>5, Zenon DEF Routing
  <2>8. ASSUME NEW x \in ctxs \ {Root} PROVE OneBranch(x)'
    <3>0. OneBranch(x)
      BY DEF LineInv
    <3>1. CASE x = c
      <4>1. spawned[c] = 0 /\ ended[c] = 0
        BY <2>5, <3>0, <3>1, Zenon DEF OneBranch
      <4>2. Told(c)' \/ OneLeft(c)'
        BY <2>4, <2>5, Zenon DEF Told, OneLeft
      <4>3. spawned'[c] = 0 /\ ended'[c] = 0
        BY <2>6, <4>1
      <4>4. spawned'[c] + ended'[c] <= 1
        BY <4>3
      <4>5. OneBranch(c)'
        BY <2>5, <4>2, <4>3, <4>4, Zenon DEF OneBranch
      <4> QED
        BY <3>1, <4>5, Zenon
    <3>2. CASE x # c
      BY <2>5, <2>6, <3>0, <3>2, Zenon DEF OneBranch, Told, OneLeft
    <3> QED
      BY <3>1, <3>2, Zenon
  <2> QED
    BY <2>6, <2>8 DEF LineInv
<1>4. ASSUME NEW c \in ctxs, Telling(c)
      PROVE  /\ c # Root /\ spawned[c] = 0 /\ ended[c] = 0 /\ st[c] = "running"
             /\ run[c] \in RunState /\ run[c].idx = 0
             /\ NextRelation(run[c]).tells = <<>> /\ ~NextRelation(run[c]).panics
  <2>1. c # Root /\ st[c] = "running" /\ run[c].tells # <<>>
    BY <1>1, <1>4, Zenon DEF Telling, Routing
  <2>2. OneBranch(c)
    BY <2>1, Zenon DEF LineInv
  <2>3. OneLeft(c) /\ run[c].idx = 0 /\ spawned[c] = 0 /\ ended[c] = 0
    BY <2>1, <2>2 DEF OneBranch, Told
  <2>4. Len(run[c].tells) = 1 /\ Len(run[c].tells[1]) <= 1 /\ ~run[c].panics
    BY <2>1, <2>3 DEF OneLeft
  <2>5. run[c] \in RunState
    BY <1>1 DEF TypeOK
  <2> QED
    BY <2>1, <2>3, <2>4, <2>5, TellsOnce, Zenon
<1>5. ASSUME NEW c \in ctxs, TellChild(c) PROVE LineInv'
  <2> DEFINE next == GetNextNodes(c)
             i == run[c].idx + 1
             r == IF i = Len(next) THEN NextRelation(run[c]) ELSE [run[c] EXCEPT !.idx = i]
  <2>1. /\ Telling(c) /\ i <= Len(next) /\ Submit(c, next[i], TRUE)
        /\ run' = Extend([run EXCEPT ![c] = r], <<c, spawned[c] + 1>>, Idle)
        /\ UNCHANGED <<ends, completions, caller>>
    BY <1>5, Zenon DEF TellChild
  <2>2. i = 1
    BY <1>4, <2>1
  <2>3. next \in Seq(Nodes) /\ Len(next) \in Nat
    BY <1>1, <2>1, NextNodesType
  <2>4. Len(next) <= 1
    <3>1. CASE Head(run[c].tells) = <<>>
      BY <3>1 DEF GetNextNodes
    <3>2. CASE Head(run[c].tells) # <<>>
      <4>1. Head(run[c].tells) \in Seq(Relations)
        BY <1>4, <2>1 DEF RunState, Telling
      <4>2. Head(Head(run[c].tells)) \in Relations
        BY <3>2, <4>1
      <4> QED
        BY <3>2, <4>2, Zenon DEF GetNextNodes, AllStraight, Straight
    <3> QED
      BY <3>1, <3>2
  <2>5. r = NextRelation(run[c])
    BY <2>1, <2>2, <2>3, <2>4
  <2>6. <<c, spawned[c] + 1>> \notin ctxs
    BY <1>1, FreshChild
  <2>7. run'[c] = NextRelation(run[c]) /\ \A x \in ctxs : x # c => run'[x] = run[x]
    <3>1. run' = Extend([run EXCEPT ![c] = NextRelation(run[c])], <<c, spawned[c] + 1>>, Idle)
      BY <2>1, <2>5, Zenon
    <3> QED
      BY <1>1, <2>6, <3>1, Zenon DEF Extend, TypeOK
  <2>8. Told(c)'
    BY <1>4, <2>1, <2>7, Zenon DEF Told
  <2> HIDE DEF next, i, r
  <2> QED
    BY <1>4, <2>1, <2>7, <2>8, LineGrows, Zenon
<1>6. ASSUME NEW c \in ctxs, TellEnd(c) PROVE LineInv'
  <2>1. Telling(c) /\ UNCHANGED <<ctxs, st, spawned, completions, caller>>
    BY <1>6 DEF TellEnd
  <2>2. PICK ph \in {"onEnd", "dropped"} : NewEnd(c, c, ph)
    BY <1>6 DEF TellEnd, DoOnEnd
  <2>3. run'[c] = NextRelation(run[c]) /\ \A x \in ctxs : x # c => run'[x] = run[x]
    BY <1>1, <1>6 DEF TellEnd, TypeOK
  <2>4. Told(c)'
    BY <1>4, <2>1, <2>3, Zenon DEF Told
  <2> QED
    BY <1>4, <2>1, <2>2, <2>3, <2>4, LineEnds, Zenon
<1>7. ASSUME NEW c \in ctxs, Recover(c) PROVE LineInv'
  <2>1. /\ st[c] = "running" /\ run[c].panics /\ NewEnd(c, Parent(c), "childDone")
        /\ UNCHANGED <<ctxs, run, spawned, completions, caller>>
    BY <1>7, Zenon DEF Recover
  <2>2. c # Root
    BY <1>1, <2>1, Zenon DEF Routing
  <2>3. OneBranch(c)
    BY <2>2, Zenon DEF LineInv
  <2>4. spawned[c] = 0 /\ ended[c] = 0
    BY <2>1, <2>3, Zenon DEF OneBranch, Told
  <2>5. st'[c] = "panicked" /\ \A x \in ctxs : x # c => st'[x] = st[x]
    BY <1>1, <1>7 DEF Recover, TypeOK
  <2> QED
    BY <2>1, <2>2, <2>4, <2>5, LineEnds, Zenon
<1>8. ASSUME UNCHANGED <<ctxs, st, run, spawned, ended>>, caller' = "idle" => caller = "idle",
             completions' <= 1,
             completions' = 1 => DOMAIN ends' # {} /\ \A t \in DOMAIN ends' : ends'[t].ph = "finished"
      PROVE  LineInv'
  <2>1. \A x \in ctxs : OneBranch(x) => OneBranch(x)'
    BY <1>8, Zenon DEF OneBranch, Told, OneLeft
  <2> QED
    BY <1>8, <2>1, Zenon DEF LineInv
<1>9. ASSUME NEW t \in DOMAIN ends, OnEnd(t) \/ ChildDone(t) \/ LoadDone(t) PROVE LineInv'
  <2>1. /\ ends[t].ph # "finished"
        /\ UNCHANGED <<ctxs, st, run, spawned, ended, completions, caller>>
    BY <1>9 DEF OnEnd, ChildDone, LoadDone
  <2>2. completions <= 1 /\ completions # 1
    BY <2>1 DEF LineInv
  <2> QED
    BY <1>8, <2>1, <2>2
<1>10. ASSUME NEW t \in DOMAIN ends, StoreDone(t) PROVE LineInv'
  <2>1. /\ ends[t].ph = "store" /\ completions' = completions + 1
        /\ ends' = [ends EXCEPT ![t].ph = "finished"]
        /\ UNCHANGED <<ctxs, st, run, spawned, ended, caller>>
    BY <1>10 DEF StoreDone
  <2>2. completions # 1
    BY <2>1 DEF LineInv
  <2>3. completions \in Nat /\ completions <= 1
    BY <1>1 DEF LineInv, TypeOK
  <2>4. completions = 0
    BY <2>2, <2>3
  <2>5. DOMAIN ends' = DOMAIN ends /\ ends'[t].ph = "finished"
    BY <1>1, <2>1 DEF TypeOK
  <2>6. \A u \in DOMAIN ends : u = t
    BY OneEnd
  <2> QED
    BY <1>8, <2>1, <2>4, <2>5, <2>6
<1>11. CASE Return \/ UNCHANGED vars
  <2>1. UNCHANGED <<ctxs, st, run, spawned, ended, ends, completions>> /\ (caller' = "idle" => caller = "idle")
    BY <1>11 DEF Return, vars
  <2> QED
    BY <1>8, <2>1, Zenon DEF LineInv
<1> QED
  BY <1>2, <1>3, <1>5, <1>6, <1>7, <1>9, <1>10, <1>11 DEF Next, Step

-----------------------------------------------------------------------------
(* The number of children that have not reported, and what follows.        *)
INSTANCE FiniteSetTheorems

\* The children that have not reported are finitely many.
LEMMA UnreportedCounts ==
  ASSUME TypeOK, NEW c \in ctxs
  PROVE  Counts(Unreported(c))
<1>1. spawned[c] \in Int
  BY DEF TypeOK
<1>2. IsFiniteSet(1..spawned[c])
  BY <1>1, FS_Interval
<1>3. Unreported(c) \in SUBSET (1..spawned[c])
  BY DEF Unreported
<1>4. IsFiniteSet(Unreported(c))
  BY <1>2, <1>3, FS_Subset, Zenon
<1>5. Cardinality({}) = 0 /\ Cardinality(Unreported(c)) \in Nat
  BY <1>4, FS_EmptySet, FS_CardinalityType
<1>6. ASSUME NEW x, x \notin Unreported(c)
      PROVE  Cardinality(Unreported(c) \cup {x}) = Cardinality(Unreported(c)) + 1
  BY <1>4, <1>6, FS_AddElement, Zenon
<1>7. ASSUME NEW x \in Unreported(c)
      PROVE  Cardinality(Unreported(c) \ {x}) = Cardinality(Unreported(c)) - 1
  BY <1>4, FS_RemoveElement, Zenon
<1> QED
  BY <1>5, <1>6, <1>7, Zenon DEF Counts

\* onMsgAndWait starts with Root alone and nothing to wait for.
LEMMA InitIInv == Init => IInv
<1> SUFFICES ASSUME Init PROVE IInv
  OBVIOUS
<1> USE DEF Init
<1>1. EndIds = {}
  BY DEF EndIds
<1>2. TypeOK
  BY <1>1, ChainAssumption DEF TypeOK, Idle, Phases, RunState, Statuses
<1>3. Routing
  BY DEF Routing
<1>4. Counting
  <2>1. Unreported(Root) = {}
    BY DEF Unreported
  <2>2. Cardinality(Unreported(Root)) = 0
    BY <2>1, FS_EmptySet
  <2>3. QED
    BY <2>2 DEF Counting
<1>5. AtRoot
  BY DEF AtRoot
<1> QED
  BY <1>2, <1>3, <1>4, <1>5 DEF IInv

\* A context whose branches are all back has been brought down to zero, so the
\* counting part of the invariant says that it has told its parent.
LEMMA IInvImpliesNoLost == IInv => NoLostCompletion
<1> SUFFICES ASSUME IInv PROVE NoLostCompletion
  OBVIOUS
<1> USE DEF IInv
<1>1. ASSUME NEW c \in ctxs \ {Root}, BranchesBack(c)
      PROVE  Climbed(c)
  <2>1. Unreported(c) = {}
    BY <1>1, Zenon DEF BranchesBack, Unreported
  <2>2. waitingCount[c] <= 0
    BY <2>1, FS_EmptySet, SMTT(30) DEF Counting
  <2>3. spawned[c] \in Nat /\ ended[c] \in Nat /\ spawned[c] + ended[c] > 0
    BY <1>1 DEF BranchesBack, TypeOK
  <2>4. 1 \in 1..spawned[c] \/ 1 \in 1..ended[c]
    BY <2>3
  <2>5. Decremented(c)
    BY <2>4, <1>1 DEF BranchesBack, Decremented
  <2> QED
    BY <2>2, <2>5 DEF Counting
<1>2. ASSUME BranchesBack(Root)
      PROVE  completions > 0 \/ \E t \in DOMAIN ends : ends[t].ph \in {"load", "store"}
  <2>1. spawned[Root] \in Nat /\ spawned[Root] > 0
    BY <1>2 DEF BranchesBack, Routing, TypeOK
  <2>2. 1 \in 1..spawned[Root]
    BY <2>1
  <2>3. <<Root, 1>> \in reported
    BY <1>2, <2>2 DEF BranchesBack
  <2> QED
    BY <2>2, <2>3 DEF AtRoot
<1> QED
  BY <1>1, <1>2, Zenon DEF NoLostCompletion, Climbed

\* The inductive invariant holds in every reachable state of every chain.
THEOREM Invariance == Spec => []IInv
<1>1. IInv /\ [Next]_vars => IInv'
  BY UnreportedCounts, NextIInv DEF IInv
<1> QED
  BY <1>1, InitIInv, PTL DEF Spec

\* The variables keep their types and the contexts form a tree, for every chain
\* (NewRuleContext, NewNextNodeRuleContext).
THEOREM TypeCorrect == Spec => []TypeOK
<1>1. IInv => TypeOK
  BY DEF IInv
<1> QED
  BY <1>1, Invariance, PTL

\* childReady and childDone lose no completion, whatever the chain, whatever its
\* nodes tell, whether they panic, and whatever tasks the pool rejects.
THEOREM NothingLost == Spec => []NoLostCompletion
  BY Invariance, IInvImpliesNoLost, PTL
(***************************************************************************)
(* A branch is counted as done only after its onEnd callback (DoOnEnd), in *)
(* every chain: a context without children that has told its parent has    *)
(* had onEnd called for it, unless its node panicked.                      *)
(***************************************************************************)
THEOREM OnEndComesFirst == Spec => []ReportedAfterOnEnd
<1>1. Init => SettledInv
  BY Zenon DEF Init, SettledInv
<1>2. IInv /\ SettledInv /\ [Next]_vars => SettledInv'
  BY SettledStep
<1>3. IInv /\ SettledInv => ReportedAfterOnEnd
  <2> SUFFICES ASSUME IInv, SettledInv, NEW c \in reported, spawned[c] = 0
               PROVE  onEndCalls[c] > 0 \/ st[c] = "panicked"
    BY DEF ReportedAfterOnEnd
  <2> QED
    BY DEF SettledInv, Settled
<1> QED
  BY <1>1, <1>2, <1>3, Invariance, PTL DEF Spec
(***************************************************************************)
(* Completion is exact for a message that meets only straight nodes        *)
(* (childDone, DoOnEnd), whatever the chain and whatever the pool rejects: *)
(* the callback runs at most once, and only when every node has run and    *)
(* every ended branch has had its onEnd call.                              *)
(***************************************************************************)
THEOREM StraightIsExact == Spec => []CompletionExact
<1> DEFINE Line == AllStraight => LineInv
<1>1. Init => Line
  <2> SUFFICES ASSUME Init PROVE LineInv
    OBVIOUS
  <2> QED
    BY DEF Init, LineInv
<1>2. IInv /\ Line /\ [Next]_vars => Line'
  <2> SUFFICES ASSUME IInv, Line, [Next]_vars, AllStraight' PROVE LineInv'
    OBVIOUS
  <2>1. AllStraight
    BY StraightBefore DEF IInv
  <2> QED
    BY <2>1, LineStep
<1>3. IInv /\ Line => CompletionExact
  <2> SUFFICES ASSUME IInv, LineInv
               PROVE  /\ completions <= 1
                      /\ completions = 1 =>
                           /\ \A c \in ctxs \ {Root} : Executed(c)
                           /\ \A t \in DOMAIN ends : ends[t].ph = "finished"
    BY DEF CompletionExact, AllStraight
  <2>1. ASSUME completions = 1, NEW c \in ctxs \ {Root} PROVE Executed(c)
    <3>1. OneBranch(c) /\ DOMAIN ends # {}
      BY <2>1 DEF LineInv
    <3>2. spawned[c] # 0 \/ ended[c] # 0
      BY <3>1, OneEnd
    <3>3. st[c] \in Statuses
      BY DEF IInv, TypeOK
    <3>4. st[c] = "panicked" \/ (st[c] = "running" /\ Told(c))
      BY <3>1, <3>2, <3>3 DEF OneBranch, Statuses
    <3> QED
      BY <3>4, Zenon DEF Executed, Told
  <2> QED
    BY <2>1 DEF LineInv
<1> HIDE DEF Line
<1> QED
  BY <1>1, <1>2, <1>3, Invariance, PTL DEF Spec
=============================================================================
