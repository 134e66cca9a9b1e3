-------------------------- MODULE WorkerPoolProofs --------------------------
(***************************************************************************)
(* The worker pool never shares a worker, counts its workers exactly, and  *)
(* implements TaskPool, for any tasks, workers and limit.                  *)
(***************************************************************************)
EXTENDS WorkerPool, TLAPS

-----------------------------------------------------------------------------
(* The lists of workers.                                                   *)

Last(s) == s[Len(s)]
Front(s) == SubSeq(s, 1, Len(s) - 1)

\* A list without repetitions that loses its last element (getCh).
LEMMA FrontOf ==
  ASSUME NEW S, NEW s \in Seq(S), s # <<>>, IsInjective(s)
  PROVE  /\ Last(s) \in S /\ Last(s) \in Range(s)
         /\ Front(s) \in Seq(S) /\ IsInjective(Front(s))
         /\ Range(Front(s)) = Range(s) \ {Last(s)}
<1>1. /\ Len(s) \in Nat \ {0} /\ DOMAIN s = 1..Len(s)
      /\ \A i \in 1..Len(s) : s[i] \in S
  OBVIOUS
<1>2. /\ Front(s) \in Seq(S) /\ Len(Front(s)) = Len(s) - 1
      /\ \A i \in 1..(Len(s) - 1) : Front(s)[i] = s[i]
  BY <1>1 DEF Front
<1>3. DOMAIN Front(s) = 1..(Len(s) - 1)
  BY <1>1, <1>2
<1>4. Last(s) \in S /\ Last(s) \in Range(s)
  BY <1>1 DEF Last, Range
<1>5. IsInjective(Front(s))
  BY <1>1, <1>2, <1>3 DEF IsInjective
<1>6. ASSUME NEW x \in Range(Front(s)) PROVE x \in Range(s) \ {Last(s)}
  BY <1>1, <1>2, <1>3, <1>6 DEF Range, Last, IsInjective
<1>7. ASSUME NEW x \in Range(s), x # Last(s) PROVE x \in Range(Front(s))
  <2>1. PICK i \in 1..Len(s) : x = s[i]
    BY <1>1, <1>7 DEF Range
  <2>2. i \in 1..(Len(s) - 1)
    BY <1>1, <1>7, <2>1 DEF Last
  <2> QED
    BY <1>2, <1>3, <2>1, <2>2, SMTT(30) DEF Range
<1> QED
  BY <1>2, <1>4, <1>5, <1>6, <1>7

\* A list without repetitions that loses its first element (clean).
LEMMA TailOf ==
  ASSUME NEW S, NEW s \in Seq(S), s # <<>>, IsInjective(s)
  PROVE  /\ Head(s) \in S /\ Head(s) \in Range(s)
         /\ Tail(s) \in Seq(S) /\ IsInjective(Tail(s))
         /\ Range(Tail(s)) = Range(s) \ {Head(s)}
<1>1. /\ Len(s) \in Nat \ {0} /\ DOMAIN s = 1..Len(s)
      /\ \A i \in 1..Len(s) : s[i] \in S
  OBVIOUS
<1>2. /\ Tail(s) \in Seq(S) /\ Len(Tail(s)) = Len(s) - 1 /\ Head(s) = s[1]
      /\ \A i \in 1..(Len(s) - 1) : Tail(s)[i] = s[i + 1]
  BY <1>1
<1>3. DOMAIN Tail(s) = 1..(Len(s) - 1)
  BY <1>1, <1>2
<1>4. Head(s) \in S /\ Head(s) \in Range(s)
  BY <1>1, <1>2 DEF Range
<1>5. IsInjective(Tail(s))
  BY <1>1, <1>2, <1>3 DEF IsInjective
<1>6. ASSUME NEW x \in Range(Tail(s)) PROVE x \in Range(s) \ {Head(s)}
  BY <1>1, <1>2, <1>3, <1>6 DEF Range, IsInjective
<1>7. ASSUME NEW x \in Range(s), x # Head(s) PROVE x \in Range(Tail(s))
  <2>1. PICK i \in 1..Len(s) : x = s[i]
    BY <1>1, <1>7 DEF Range
  <2>2. i - 1 \in 1..(Len(s) - 1) /\ Tail(s)[i - 1] = s[i]
    BY <1>1, <1>2, <1>7, <2>1
  <2> QED
    BY <1>3, <2>1, <2>2 DEF Range
<1> QED
  BY <1>2, <1>4, <1>5, <1>6, <1>7

\* A list without repetitions that gets a new element (release).
LEMMA AppendOf ==
  ASSUME NEW S, NEW s \in Seq(S), IsInjective(s), NEW x \in S, x \notin Range(s)
  PROVE  /\ Append(s, x) \in Seq(S) /\ IsInjective(Append(s, x))
         /\ Range(Append(s, x)) = Range(s) \cup {x}
<1>1. /\ Len(s) \in Nat /\ DOMAIN s = 1..Len(s)
      /\ Append(s, x) \in Seq(S) /\ DOMAIN Append(s, x) = 1..(Len(s) + 1)
      /\ \A i \in 1..Len(s) : Append(s, x)[i] = s[i]
      /\ Append(s, x)[Len(s) + 1] = x
  OBVIOUS
<1>2. IsInjective(Append(s, x))
  BY <1>1 DEF IsInjective, Range
<1>3. Range(Append(s, x)) = Range(s) \cup {x}
  BY <1>1 DEF Range
<1> QED
  BY <1>1, <1>2, <1>3

\* A list without repetitions that is cut in two (clean).
LEMMA CutOf ==
  ASSUME NEW S, NEW s \in Seq(S), IsInjective(s), NEW n \in 0..Len(s)
  PROVE  LET a == SubSeq(s, 1, n)
             b == SubSeq(s, n + 1, Len(s))
         IN  /\ a \in Seq(S) /\ IsInjective(a)
             /\ b \in Seq(S) /\ IsInjective(b)
             /\ Range(a) \cup Range(b) = Range(s)
             /\ Range(a) \cap Range(b) = {}
<1> DEFINE a == SubSeq(s, 1, n)
           b == SubSeq(s, n + 1, Len(s))
<1>1. /\ Len(s) \in Nat /\ n \in Nat /\ DOMAIN s = 1..Len(s)
      /\ \A i \in 1..Len(s) : s[i] \in S
  OBVIOUS
<1>2. /\ a \in Seq(S) /\ DOMAIN a = 1..n
      /\ \A i \in 1..n : a[i] = s[i]
  BY <1>1
<1>3. /\ b \in Seq(S) /\ DOMAIN b = 1..(Len(s) - n)
      /\ \A i \in 1..(Len(s) - n) : b[i] = s[n + i]
  BY <1>1
<1> HIDE DEF a, b
<1>4. IsInjective(a)
  BY <1>1, <1>2 DEF IsInjective
<1>5. IsInjective(b)
  <2> SUFFICES ASSUME NEW i \in 1..(Len(s) - n), NEW j \in 1..(Len(s) - n), b[i] = b[j]
               PROVE  i = j
    BY <1>3 DEF IsInjective
  <2>1. n + i \in 1..Len(s) /\ n + j \in 1..Len(s) /\ s[n + i] = s[n + j]
    BY <1>1, <1>3
  <2>2. n + i = n + j
    BY <1>1, <2>1 DEF IsInjective
  <2> QED
    BY <1>1, <2>2
<1>6. /\ Range(a) \subseteq Range(s) /\ Range(b) \subseteq Range(s)
      /\ Range(a) \cap Range(b) = {}
  <2>1. \A i \in 1..n : i \in 1..Len(s)
    BY <1>1
  <2>2. \A j \in 1..(Len(s) - n) : n + j \in 1..Len(s) /\ ~(n + j \in 1..n)
    BY <1>1
  <2>3. \A i \in 1..n, j \in 1..(Len(s) - n) : a[i] # b[j]
    <3> SUFFICES ASSUME NEW i \in 1..n, NEW j \in 1..(Len(s) - n), a[i] = b[j] PROVE FALSE
      BY Zenon
    <3>1. s[i] = s[n + j] /\ i \in 1..Len(s) /\ n + j \in 1..Len(s)
      BY <1>2, <1>3, <2>1, <2>2, Zenon
    <3>2. i = n + j
      BY <1>1, <3>1 DEF IsInjective
    <3> QED
      BY <2>2, <3>2, Zenon
  <2>4. Range(a) = {s[i] : i \in 1..n}
    BY <1>2 DEF Range
  <2>5. Range(b) = {s[n + j] : j \in 1..(Len(s) - n)}
    BY <1>3, Zenon DEF Range
  <2>6. Range(s) = {s[i] : i \in 1..Len(s)}
    BY <1>1 DEF Range
  <2>7. Range(a) \cap Range(b) = {}
    <3>1. Range(a) = {a[i] : i \in 1..n} /\ Range(b) = {b[j] : j \in 1..(Len(s) - n)}
      BY <1>2, <1>3, Zenon DEF Range
    <3> QED
      BY <2>3, <3>1, Zenon
  <2> QED
    BY <2>1, <2>2, <2>4, <2>5, <2>6, <2>7, Zenon
<1>7. ASSUME NEW x \in Range(s) PROVE x \in Range(a) \cup Range(b)
  <2>1. PICK i \in 1..Len(s) : x = s[i]
    BY <1>1, <1>7 DEF Range
  <2>2. CASE i <= n
    BY <1>1, <1>2, <2>1, <2>2 DEF Range
  <2>3. CASE i > n
    <3>1. i - n \in 1..(Len(s) - n) /\ b[i - n] = s[i]
      BY <1>1, <1>3, <2>1, <2>3
    <3> QED
      BY <1>3, <2>1, <3>1, Zenon DEF Range
  <2> QED
    BY <1>1, <2>1, <2>2, <2>3
<1> QED
  BY <1>2, <1>3, <1>4, <1>5, <1>6, <1>7 DEF a, b

-----------------------------------------------------------------------------
(* The inductive invariant.                                                *)

PoolType ==
  /\ now \in 0..MaxTime /\ lastUseTime \in [Workers -> 0..MaxTime]
  /\ mustStop \in BOOLEAN /\ stop \in {"no", "closed", "stopped"}
  /\ task \in [Tasks -> {"new", "rejected", "sending", "sent", "running", "done"}]
  /\ ch \in [Tasks -> Workers \cup {Nil}]
  /\ pc \in [Workers -> {"free", "recv", "run", "release", "exit"}]
  /\ buf \in [Workers -> {<<>>, <<Nil>>} \cup {<<t>> : t \in Tasks}]
  /\ ready \in Seq(Workers)
  /\ cleaner \in [pc : {"clean", "lock", "notify", "exited"},
                  criticalTime : Int, scratch : Seq(Workers)]

Ready == Range(ready)
Scratch == Range(cleaner.scratch)

NoSender(w) == \A t \in Tasks : task[t] = "sending" => ch[t] # w

\* Who holds a receiving worker: the ready list, the cleaner, its channel or a
\* Submit, and no two of them.
Held ==
  /\ IsInjective(ready) /\ IsInjective(cleaner.scratch)
  /\ \A w \in Ready : pc[w] = "recv" /\ w \notin Scratch /\ buf[w] = <<>> /\ NoSender(w)
  /\ \A w \in Scratch : pc[w] = "recv" /\ buf[w] = <<>> /\ NoSender(w)
  /\ \A w \in Workers : buf[w] # <<>> => pc[w] = "recv" /\ NoSender(w)
  /\ \A t \in Tasks : task[t] = "sending" => ch[t] \in Workers /\ pc[ch[t]] = "recv"
  /\ \A t, u \in Tasks : task[t] = "sending" /\ task[u] = "sending" /\ ch[t] = ch[u] => t = u

\* No receiving worker is lost; the cleaner drops none from its list.
Owned ==
  /\ \A w \in Workers : pc[w] = "recv" =>
       \/ w \in Ready \/ w \in Scratch \/ buf[w] # <<>>
       \/ \E t \in Tasks : task[t] = "sending" /\ ch[t] = w
  /\ cleaner.pc # "notify" => cleaner.scratch = <<>>

\* A task that was sent is in one channel; a running task is with one worker.
Carried ==
  /\ \A w \in Workers, t \in Tasks : buf[w] = <<t>> => task[t] = "sent"
  /\ \A v, w \in Workers, t \in Tasks : buf[v] = <<t>> /\ buf[w] = <<t>> => v = w
  /\ \A t \in Tasks : task[t] = "sent" => \E w \in Workers : buf[w] = <<t>>
  /\ \A t \in Tasks : task[t] = "running" => ch[t] \in Workers /\ pc[ch[t]] = "run"
  /\ \A t, u \in Tasks : task[t] = "running" /\ task[u] = "running" /\ ch[t] = ch[u] => t = u

Live == {w \in Workers : pc[w] # "free"}

Counted ==
  /\ workersCount = Cardinality(Live)
  /\ workersCount <= MaxWorkersCount

PoolInv == PoolType /\ Held /\ Owned /\ Carried /\ Counted
\* Nothing that the lists are made of changes.
LEMMA SameLists ==
  ASSUME UNCHANGED <<ready, cleaner>>
  PROVE  /\ Ready' = Ready /\ Scratch' = Scratch
         /\ IsInjective(ready)' = IsInjective(ready)
         /\ IsInjective(cleaner.scratch)' = IsInjective(cleaner.scratch)
  BY DEF Ready, Scratch, IsInjective

\* getCh takes the last idle worker.
LEMMA GetReadyLists ==
  ASSUME PoolType, Held, NEW t \in Tasks, GetReady(t)
  PROVE  /\ ready' \in Seq(Workers) /\ IsInjective(ready)'
         /\ Last(ready) \in Ready /\ Last(ready) \in Workers
         /\ Ready' = Ready \ {Last(ready)}
         /\ Scratch' = Scratch /\ IsInjective(cleaner.scratch)'
<1>1. /\ ready \in Seq(Workers) /\ ready # <<>> /\ IsInjective(ready)
      /\ ready' = Front(ready) /\ cleaner' = cleaner
  BY DEF PoolType, Held, GetReady, Front
<1>2. IsInjective(cleaner.scratch)' /\ Scratch' = Scratch
  BY <1>1 DEF Held, Scratch, IsInjective
<1> QED
  BY <1>1, <1>2, FrontOf DEF Ready

\* release puts its worker at the end of the idle ones.
LEMMA ReleaseLists ==
  ASSUME PoolType, Held, NEW w \in Workers, Release(w), ~mustStop
  PROVE  /\ ready' \in Seq(Workers) /\ IsInjective(ready)'
         /\ Ready' = Ready \cup {w}
         /\ Scratch' = Scratch /\ IsInjective(cleaner.scratch)'
<1>1. /\ ready \in Seq(Workers) /\ IsInjective(ready) /\ w \notin Range(ready)
      /\ ready' = Append(ready, w) /\ cleaner' = cleaner
  BY DEF PoolType, Held, Release, Ready
<1>2. IsInjective(cleaner.scratch)' /\ Scratch' = Scratch
  BY <1>1 DEF Held, Scratch, IsInjective
<1> QED
  BY <1>1, <1>2, AppendOf DEF Ready

\* clean moves the obsolete workers from ready to scratch.
LEMMA CleanLockLists ==
  ASSUME PoolType, Held, CleanLock
  PROVE  /\ ready' \in Seq(Workers) /\ IsInjective(ready)'
         /\ cleaner'.scratch \in Seq(Workers) /\ IsInjective(cleaner.scratch)'
         /\ Ready' \cup Scratch' = Ready /\ Ready' \cap Scratch' = {}
<1>1. ready \in Seq(Workers) /\ IsInjective(ready)
  BY DEF PoolType, Held
<1>2. PICK n \in 0..Len(ready) :
        /\ cleaner' = [cleaner EXCEPT !.pc = "notify", !.scratch = SubSeq(ready, 1, n)]
        /\ ready' = SubSeq(ready, n + 1, Len(ready))
  BY Zenon DEF CleanLock
<1>3. cleaner'.scratch = SubSeq(ready, 1, n)
  BY <1>2, Zenon DEF PoolType
<1> QED
  BY <1>1, <1>2, <1>3, CutOf DEF Ready, Scratch

\* clean has told one more worker to stop.
LEMMA CleanNotifyLists ==
  ASSUME PoolType, Held, CleanNotify
  PROVE  /\ cleaner'.scratch \in Seq(Workers) /\ IsInjective(cleaner.scratch)'
         /\ Head(cleaner.scratch) \in Workers /\ Head(cleaner.scratch) \in Scratch
         /\ Scratch' = Scratch \ {Head(cleaner.scratch)}
         /\ Ready' = Ready /\ IsInjective(ready)'
<1>1. /\ cleaner.scratch \in Seq(Workers) /\ cleaner.scratch # <<>>
      /\ IsInjective(cleaner.scratch) /\ ready' = ready
  BY DEF PoolType, Held, CleanNotify
<1>2. cleaner'.scratch = Tail(cleaner.scratch)
  BY DEF PoolType, CleanNotify
<1>3. IsInjective(ready)' /\ Ready' = Ready
  BY <1>1 DEF Held, Ready, IsInjective
<1> QED
  BY <1>1, <1>2, <1>3, TailOf DEF Scratch

\* The other steps of the cleaner leave its list alone.
LEMMA CleanerLists ==
  ASSUME PoolType, Held, CleanTime \/ CleanSelect
  PROVE  /\ Ready' = Ready /\ Scratch' = Scratch
         /\ IsInjective(ready)' /\ IsInjective(cleaner.scratch)'
<1>1. cleaner'.scratch = cleaner.scratch /\ ready' = ready
  BY Zenon DEF PoolType, CleanTime, CleanSelect
<1> QED
  BY <1>1 DEF Held, Ready, Scratch, IsInjective

\* Stop empties ready.
LEMMA StopLists ==
  ASSUME PoolType, Held, StopLock
  PROVE  /\ Ready' = {} /\ Scratch' = Scratch
         /\ IsInjective(ready)' /\ IsInjective(cleaner.scratch)'
<1>1. ready' = <<>> /\ cleaner' = cleaner
  BY DEF StopLock
<1>2. DOMAIN ready' = {}
  BY <1>1
<1> QED
  BY <1>1, <1>2 DEF Held, Ready, Scratch, Range, IsInjective
\* Every step keeps the types.
LEMMA TypeStep ==
  ASSUME PoolType, Held, [Next]_vars
  PROVE  PoolType'
<1>0. Nil \notin Tasks /\ Nil \notin Workers /\ MaxTime \in Nat /\ MaxIdle \in Nat
  BY PoolAssumption, Zenon
<1>1. CASE Tick
  BY <1>0, <1>1 DEF PoolType, Tick
<1>2. ASSUME NEW t \in Tasks, GetReady(t) PROVE PoolType'
  BY <1>2, GetReadyLists, SMTT(30) DEF PoolType, GetReady
<1>3. ASSUME NEW t \in Tasks, GetNew(t) PROVE PoolType'
  BY <1>3 DEF PoolType, GetNew
<1>4. ASSUME NEW t \in Tasks, Reject(t) PROVE PoolType'
  BY <1>4 DEF PoolType, Reject
<1>5. ASSUME NEW t \in Tasks, Send(t) PROVE PoolType'
  BY <1>5, Zenon DEF PoolType, Send
<1>6. ASSUME NEW w \in Workers, Receive(w) PROVE PoolType'
  <2>1. Head(buf[w]) = Nil \/ Head(buf[w]) \in Tasks
    BY <1>6 DEF PoolType, Receive
  <2> QED
    BY <1>6, <2>1 DEF PoolType, Receive
<1>7. ASSUME NEW w \in Workers, Finish(w) PROVE PoolType'
  BY <1>7 DEF PoolType, Finish
<1>8. ASSUME NEW w \in Workers, Release(w) PROVE PoolType'
  <2>1. CASE mustStop
    BY <1>8, <2>1, Zenon DEF PoolType, Release
  <2>2. CASE ~mustStop
    BY <1>8, <2>2, ReleaseLists, Zenon DEF PoolType, Release
  <2> QED
    BY <2>1, <2>2
<1>9. ASSUME NEW w \in Workers, Exit(w) PROVE PoolType'
  BY <1>9 DEF PoolType, Exit
<1>10. CASE CleanTime
  <2>1. now - MaxIdle \in Int
    BY <1>0 DEF PoolType
  <2> QED
    BY <1>10, <2>1, Zenon DEF PoolType, CleanTime
<1>11. CASE CleanLock
  <2>1. PICK n \in 0..Len(ready) :
          cleaner' = [cleaner EXCEPT !.pc = "notify", !.scratch = SubSeq(ready, 1, n)]
    BY <1>11, Zenon DEF CleanLock
  <2>2. cleaner' = [pc |-> "notify", criticalTime |-> cleaner.criticalTime,
                    scratch |-> cleaner'.scratch]
    BY <2>1, Zenon DEF PoolType
  <2> QED
    BY <1>11, <2>2, CleanLockLists, Zenon DEF PoolType, CleanLock
<1>12. CASE CleanNotify
  BY <1>12, CleanNotifyLists, Zenon DEF PoolType, CleanNotify
<1>13. CASE CleanSelect
  BY <1>13, Zenon DEF PoolType, CleanSelect
<1>14. CASE StopClose
  BY <1>14, Zenon DEF PoolType, StopClose
<1>15. CASE StopLock
  BY <1>15 DEF PoolType, StopLock
<1>16. CASE UNCHANGED vars
  BY <1>16 DEF PoolType, vars
<1> QED
  BY <1>1, <1>2, <1>3, <1>4, <1>5, <1>6, <1>7, <1>8, <1>9, <1>10, <1>11, <1>12, <1>13,
     <1>14, <1>15, <1>16 DEF Next, Submit, Sending, Work, Clean

\* No step gives a worker a second holder.
LEMMA HeldStep ==
  ASSUME PoolType, Held, Carried, [Next]_vars
  PROVE  Held'
<1>0. Nil \notin Tasks /\ Nil \notin Workers
  BY PoolAssumption, Zenon
<1>0a. Ready \subseteq Workers /\ Scratch \subseteq Workers
  BY DEF PoolType, Ready, Scratch, Range
<1>1. CASE Tick
  BY <1>1, SameLists DEF Held, NoSender, Tick
<1>2. ASSUME NEW t \in Tasks, GetReady(t) PROVE Held'
  <2> DEFINE w == Last(ready)
  <2>1. /\ w \in Workers /\ w \in Ready /\ Ready' = Ready \ {w} /\ Scratch' = Scratch
        /\ IsInjective(ready)' /\ IsInjective(cleaner.scratch)'
    BY <1>2, GetReadyLists
  <2>2. /\ ch'[t] = w /\ UNCHANGED <<buf, pc>>
        /\ \A u \in Tasks : u # t => task'[u] = task[u] /\ ch'[u] = ch[u]
    BY <1>2 DEF PoolType, GetReady, Last
  <2> HIDE DEF w
  <2>3. pc[w] = "recv" /\ w \notin Scratch /\ buf[w] = <<>> /\ NoSender(w)
    BY <2>1 DEF Held
  <2> QED
    BY <2>1, <2>2, <2>3, <1>0a DEF Held, NoSender
<1>3. ASSUME NEW t \in Tasks, GetNew(t) PROVE Held'
  <2>1. PICK w \in Workers : /\ pc[w] = "free" /\ pc' = [pc EXCEPT ![w] = "recv"]
                            /\ ch' = [ch EXCEPT ![t] = w]
    BY <1>3, Zenon DEF GetNew
  <2>2. w \notin Ready /\ w \notin Scratch /\ buf[w] = <<>> /\ NoSender(w)
    BY <2>1, Zenon DEF Held, NoSender
  <2>3. /\ \A v \in Workers : v # w => pc'[v] = pc[v]
        /\ pc'[w] = "recv" /\ ch'[t] = w
        /\ \A u \in Tasks : u # t => task'[u] = task[u] /\ ch'[u] = ch[u]
        /\ UNCHANGED <<buf, ready, cleaner>>
    BY <1>3, <2>1 DEF PoolType, GetNew
  <2> QED
    BY <2>2, <2>3, <1>0a, SameLists DEF Held, NoSender
<1>4. ASSUME NEW t \in Tasks, Reject(t) PROVE Held'
  BY <1>4, <1>0a, SameLists DEF PoolType, Held, NoSender, Reject
<1>5. ASSUME NEW t \in Tasks, Send(t) PROVE Held'
  <2>1. /\ ch[t] \in Workers /\ pc[ch[t]] = "recv" /\ ch[t] \notin Ready /\ ch[t] \notin Scratch
        /\ \A u \in Tasks : task[u] = "sending" /\ ch[u] = ch[t] => u = t
    BY <1>5, <1>0a DEF Held, NoSender, Send
  <2>2. /\ \A u \in Tasks : task'[u] = "sending" => u # t /\ task[u] = "sending" /\ ch'[u] = ch[u]
        /\ \A w \in Workers : w # ch[t] => buf'[w] = buf[w]
        /\ UNCHANGED <<pc, ready, cleaner>>
    BY <1>5 DEF PoolType, Send
  <2> QED
    BY <2>1, <2>2, <1>0a, SameLists DEF Held, NoSender
<1>6. ASSUME NEW w \in Workers, Receive(w) PROVE Held'
  <2>1. w \notin Ready /\ w \notin Scratch /\ NoSender(w)
    BY <1>6 DEF Held, Receive
  <2>2. /\ \A u \in Tasks : task'[u] = "sending" => task[u] = "sending" /\ ch'[u] = ch[u]
        /\ \A v \in Workers : v # w => buf'[v] = buf[v] /\ pc'[v] = pc[v]
        /\ buf'[w] = <<>> /\ UNCHANGED <<ready, cleaner>>
    <3>1. CASE buf[w] = <<Nil>>
      <4>1. Head(buf[w]) = Nil
        BY <3>1
      <4> QED
        BY <1>6, <4>1 DEF PoolType, Receive
    <3>2. ASSUME NEW t \in Tasks, buf[w] = <<t>>
          PROVE  /\ \A u \in Tasks : task'[u] = "sending" => task[u] = "sending" /\ ch'[u] = ch[u]
                 /\ \A v \in Workers : v # w => buf'[v] = buf[v] /\ pc'[v] = pc[v]
                 /\ buf'[w] = <<>> /\ UNCHANGED <<ready, cleaner>>
      <4>1. Head(buf[w]) = t /\ t # Nil
        BY <1>0, <3>2
      <4> QED
        BY <1>6, <4>1 DEF PoolType, Receive
    <3> QED
      BY <1>6, <3>1, <3>2 DEF PoolType, Receive
  <2> QED
    BY <2>1, <2>2, <1>0a, SameLists DEF Held, NoSender
<1>7. ASSUME NEW w \in Workers, Finish(w) PROVE Held'
  BY <1>7, <1>0a, SameLists DEF PoolType, Held, NoSender, Finish
<1>8. ASSUME NEW w \in Workers, Release(w) PROVE Held'
  <2>1. CASE mustStop
    BY <1>8, <2>1, <1>0a, SameLists DEF PoolType, Held, NoSender, Release
  <2>2. CASE ~mustStop
    BY <1>8, <2>2, <1>0a, ReleaseLists, SMTT(30) DEF PoolType, Held, NoSender, Release
  <2> QED
    BY <2>1, <2>2
<1>9. ASSUME NEW w \in Workers, Exit(w) PROVE Held'
  BY <1>9, <1>0a, SameLists DEF PoolType, Held, NoSender, Exit
<1>10. CASE CleanTime
  BY <1>10, CleanerLists DEF Held, NoSender, CleanTime
<1>11. CASE CleanLock
  <2>1. /\ UNCHANGED <<task, ch, pc, buf>> /\ IsInjective(ready)' /\ IsInjective(cleaner.scratch)'
        /\ Ready' \cup Scratch' = Ready /\ Ready' \cap Scratch' = {}
    BY <1>11, CleanLockLists, Zenon DEF CleanLock
  <2>2. \A w \in Ready : pc[w] = "recv" /\ buf[w] = <<>> /\ NoSender(w)
    BY Zenon DEF Held
  <2>3. \A w \in Workers : NoSender(w) = NoSender(w)'
    BY <2>1, Zenon DEF NoSender
  <2>4. /\ \A w \in Ready' : pc'[w] = "recv" /\ w \notin Scratch' /\ buf'[w] = <<>> /\ NoSender(w)'
        /\ \A w \in Scratch' : pc'[w] = "recv" /\ buf'[w] = <<>> /\ NoSender(w)'
    BY <2>1, <2>2, <2>3, <1>0a, Zenon
  <2> QED
    BY <2>1, <2>3, <2>4, Zenon DEF Held
<1>12. CASE CleanNotify
  BY <1>12, <1>0a, CleanNotifyLists, SMTT(30) DEF PoolType, Held, NoSender, CleanNotify
<1>13. CASE CleanSelect
  BY <1>13, CleanerLists DEF Held, NoSender, CleanSelect
<1>14. CASE StopClose
  BY <1>14, SameLists, Zenon DEF Held, NoSender, StopClose
<1>15. CASE StopLock
  BY <1>15, <1>0a, StopLists DEF PoolType, Held, NoSender, StopLock, Ready
<1>16. CASE UNCHANGED vars
  BY <1>16, SameLists, Zenon DEF Held, NoSender, vars
<1> QED
  BY <1>1, <1>2, <1>3, <1>4, <1>5, <1>6, <1>7, <1>8, <1>9, <1>10, <1>11, <1>12, <1>13,
     <1>14, <1>15, <1>16 DEF Next, Submit, Sending, Work, Clean
\* What a worker that receives takes out of its channel.
LEMMA ReceiveParts ==
  ASSUME PoolType, NEW w \in Workers, Receive(w)
  PROVE  /\ pc[w] = "recv" /\ buf[w] # <<>> /\ buf'[w] = <<>>
         /\ \A v \in Workers : v # w => buf'[v] = buf[v] /\ pc'[v] = pc[v]
         /\ \/ /\ buf[w] = <<Nil>> /\ pc'[w] = "exit"
               /\ UNCHANGED <<task, ch>>
            \/ \E t \in Tasks :
                 /\ buf[w] = <<t>> /\ pc'[w] = "run"
                 /\ task' = [task EXCEPT ![t] = "running"]
                 /\ ch' = [ch EXCEPT ![t] = w]
         /\ UNCHANGED <<ready, workersCount, cleaner>>
<1>0. Nil \notin Tasks
  BY PoolAssumption
<1>1. CASE buf[w] = <<Nil>>
  <2>1. Head(buf[w]) = Nil
    BY <1>1
  <2> QED
    BY <1>1, <2>1 DEF PoolType, Receive
<1>2. CASE \E t \in Tasks : buf[w] = <<t>>
  <2>1. PICK t \in Tasks : buf[w] = <<t>>
    BY <1>2
  <2>2. Head(buf[w]) = t /\ t # Nil
    BY <1>0, <2>1
  <2> QED
    BY <2>1, <2>2, Zenon DEF PoolType, Receive
<1>3. buf[w] = <<Nil>> \/ \E t \in Tasks : buf[w] = <<t>>
  BY DEF PoolType, Receive
<1> QED
  BY <1>1, <1>2, <1>3

\* No step loses a receiving worker.
LEMMA OwnedStep ==
  ASSUME PoolType, Held, Owned, Carried, [Next]_vars
  PROVE  Owned'
<1>0a. Ready \subseteq Workers /\ Scratch \subseteq Workers
  BY DEF PoolType, Ready, Scratch, Range
<1>1. CASE Tick
  BY <1>1, SameLists DEF Owned, Tick
<1>2. ASSUME NEW t \in Tasks, GetReady(t) PROVE Owned'
  <2>1. Ready' = Ready \ {Last(ready)} /\ Scratch' = Scratch
    BY <1>2, GetReadyLists
  <2>2. /\ task'[t] = "sending" /\ ch'[t] = Last(ready) /\ UNCHANGED <<buf, pc, cleaner>>
        /\ \A u \in Tasks : u # t => task'[u] = task[u] /\ ch'[u] = ch[u]
        /\ task[t] = "new"
    BY <1>2 DEF PoolType, GetReady, Last
  <2> QED
    BY <2>1, <2>2 DEF Owned
<1>3. ASSUME NEW t \in Tasks, GetNew(t) PROVE Owned'
  <2>1. PICK w \in Workers : /\ pc[w] = "free" /\ pc' = [pc EXCEPT ![w] = "recv"]
                            /\ ch' = [ch EXCEPT ![t] = w]
    BY <1>3, Zenon DEF GetNew
  <2>2. /\ \A v \in Workers : v # w => pc'[v] = pc[v]
        /\ ch'[t] = w /\ task'[t] = "sending" /\ task[t] = "new"
        /\ \A u \in Tasks : u # t => task'[u] = task[u] /\ ch'[u] = ch[u]
        /\ UNCHANGED <<buf, ready, cleaner>>
    BY <1>3, <2>1 DEF PoolType, GetNew
  <2> QED
    BY <2>2, SameLists DEF Owned
<1>4. ASSUME NEW t \in Tasks, Reject(t) PROVE Owned'
  BY <1>4, SameLists DEF PoolType, Owned, Reject
<1>5. ASSUME NEW t \in Tasks, Send(t) PROVE Owned'
  <2>1. /\ ch[t] \in Workers
        /\ \A u \in Tasks : u # t => task'[u] = task[u] /\ ch'[u] = ch[u]
        /\ \A w \in Workers : w # ch[t] => buf'[w] = buf[w]
        /\ buf'[ch[t]] = <<t>>
        /\ UNCHANGED <<pc, ready, cleaner>>
    BY <1>5 DEF PoolType, Held, Send
  <2>2. buf'[ch[t]] # <<>>
    BY <2>1
  <2> QED
    BY <2>1, <2>2, SameLists DEF Owned
<1>6. ASSUME NEW w \in Workers, Receive(w) PROVE Owned'
  <2>1. pc'[w] # "recv"
    BY <1>6, ReceiveParts, Zenon
  <2>2. \A u \in Tasks : task[u] = "sending" => task'[u] = "sending" /\ ch'[u] = ch[u]
    <3>1. CASE UNCHANGED <<task, ch>>
      BY <3>1
    <3>2. ASSUME NEW t \in Tasks, buf[w] = <<t>>, task' = [task EXCEPT ![t] = "running"],
                 ch' = [ch EXCEPT ![t] = w], NEW u \in Tasks, task[u] = "sending"
          PROVE  task'[u] = "sending" /\ ch'[u] = ch[u]
      BY <3>2, Zenon DEF PoolType, Carried
    <3> QED
      BY <1>6, <3>1, <3>2, ReceiveParts
  <2> QED
    BY <1>6, <2>1, <2>2, ReceiveParts, SameLists DEF Owned
<1>7. ASSUME NEW w \in Workers, Finish(w) PROVE Owned'
  BY <1>7, SameLists DEF PoolType, Owned, Finish
<1>8. ASSUME NEW w \in Workers, Release(w) PROVE Owned'
  <2>1. CASE mustStop
    <3>1. /\ \A v \in Workers : v # w => pc'[v] = pc[v]
          /\ pc'[w] = "exit" /\ UNCHANGED <<task, ch, buf, ready, cleaner>>
      BY <1>8, <2>1 DEF PoolType, Release
    <3> QED
      BY <3>1, SameLists DEF Owned
  <2>2. CASE ~mustStop
    BY <1>8, <2>2, ReleaseLists DEF PoolType, Owned, Release
  <2> QED
    BY <2>1, <2>2
<1>9. ASSUME NEW w \in Workers, Exit(w) PROVE Owned'
  BY <1>9, SameLists DEF PoolType, Owned, Exit
<1>10. CASE CleanTime
  BY <1>10, CleanerLists DEF PoolType, Owned, CleanTime
<1>11. CASE CleanLock
  <2>1. cleaner.scratch = <<>> /\ cleaner'.pc = "notify" /\ UNCHANGED <<task, ch, pc, buf>>
    BY <1>11 DEF PoolType, Owned, CleanLock
  <2>2. Scratch = {}
    <3>1. DOMAIN cleaner.scratch = {}
      BY <2>1
    <3> QED
      BY <3>1 DEF Scratch, Range
  <2> QED
    BY <1>11, <2>1, <2>2, CleanLockLists, Zenon DEF Owned
<1>12. CASE CleanNotify
  <2> DEFINE w == Head(cleaner.scratch)
  <2>1. w \in Workers /\ Scratch' = Scratch \ {w} /\ Ready' = Ready
    BY <1>12, CleanNotifyLists
  <2>2. /\ buf' = [buf EXCEPT ![w] = <<Nil>>] /\ UNCHANGED <<task, ch, pc>>
        /\ cleaner'.pc = "notify"
    BY <1>12 DEF PoolType, CleanNotify
  <2> HIDE DEF w
  <2>3. buf'[w] # <<>> /\ \A v \in Workers : v # w => buf'[v] = buf[v]
    BY <2>1, <2>2 DEF PoolType
  <2> QED
    BY <2>1, <2>2, <2>3 DEF Owned
<1>13. CASE CleanSelect
  BY <1>13, CleanerLists DEF PoolType, Owned, CleanSelect
<1>14. CASE StopClose
  BY <1>14, SameLists DEF Owned, StopClose
<1>15. CASE StopLock
  <2>1. \A w \in Workers : (w \in Ready => buf'[w] # <<>>) /\ (w \notin Ready => buf'[w] = buf[w])
    BY <1>15 DEF StopLock, Ready
  <2>2. UNCHANGED <<task, ch, pc, cleaner>> /\ Scratch' = Scratch
    BY <1>15, StopLists DEF StopLock
  <2> QED
    BY <2>1, <2>2 DEF Owned
<1>16. CASE UNCHANGED vars
  BY <1>16, SameLists DEF Owned, vars
<1> QED
  BY <1>1, <1>2, <1>3, <1>4, <1>5, <1>6, <1>7, <1>8, <1>9, <1>10, <1>11, <1>12, <1>13,
     <1>14, <1>15, <1>16 DEF Next, Submit, Sending, Work, Clean
\* No step loses or duplicates a task.
LEMMA CarriedStep ==
  ASSUME PoolType, Held, Carried, [Next]_vars
  PROVE  Carried'
<1>0. Nil \notin Tasks /\ Nil \notin Workers
  BY PoolAssumption
<1>0b. \A t, u : <<t>> # <<>> /\ (<<t>> = <<u>> => t = u)
  BY Zenon
<1>1. CASE UNCHANGED <<task, ch, pc, buf>>
  BY <1>1 DEF Carried
<1>2. ASSUME NEW t \in Tasks, GetReady(t) \/ Reject(t) PROVE Carried'
  <2>1. /\ task[t] = "new" /\ task'[t] \in {"sending", "rejected"} /\ UNCHANGED <<buf, pc>>
        /\ \A u \in Tasks : u # t => task'[u] = task[u] /\ ch'[u] = ch[u]
    BY <1>2 DEF PoolType, GetReady, Reject
  <2> QED
    BY <2>1 DEF Carried
<1>3. ASSUME NEW t \in Tasks, GetNew(t) PROVE Carried'
  <2>1. PICK w \in Workers : /\ pc[w] = "free" /\ pc' = [pc EXCEPT ![w] = "recv"]
                             /\ ch' = [ch EXCEPT ![t] = w]
    BY <1>3, Zenon DEF GetNew
  <2>2. /\ task[t] = "new" /\ task'[t] = "sending" /\ UNCHANGED buf
        /\ \A u \in Tasks : u # t => task'[u] = task[u] /\ ch'[u] = ch[u]
        /\ \A v \in Workers : v # w => pc'[v] = pc[v]
    BY <1>3, <2>1, Zenon DEF PoolType, GetNew
  <2> QED
    BY <2>1, <2>2, SMTT(30) DEF Carried
<1>4. ASSUME NEW t \in Tasks, Send(t) PROVE Carried'
  <2> DEFINE c == ch[t]
  <2>1. /\ c \in Workers /\ task[t] = "sending" /\ task'[t] = "sent" /\ UNCHANGED pc
        /\ buf[c] = <<>> /\ buf'[c] = <<t>>
        /\ \A u \in Tasks : u # t => task'[u] = task[u] /\ ch'[u] = ch[u]
        /\ \A w \in Workers : w # c => buf'[w] = buf[w]
    BY <1>4 DEF PoolType, Held, Send, CanSend
  <2> HIDE DEF c
  <2>2. \A w \in Workers : buf[w] # <<t>>
    BY <2>1 DEF Carried
  <2>3. \A w \in Workers, u \in Tasks : buf'[w] = <<u>> =>
          \/ w = c /\ u = t
          \/ w # c /\ u # t /\ buf[w] = <<u>>
    BY <2>1, <2>2, <1>0b
  <2>4. \A w \in Workers, u \in Tasks : buf[w] = <<u>> => w # c
    BY <1>0b, <2>1
  <2> QED
    BY <2>1, <2>3, <2>4 DEF Carried
<1>5. ASSUME NEW w \in Workers, Receive(w) PROVE Carried'
  <2>1. /\ pc[w] = "recv" /\ buf'[w] = <<>> /\ pc'[w] \in {"exit", "run"}
        /\ \A v \in Workers : v # w => buf'[v] = buf[v] /\ pc'[v] = pc[v]
    BY <1>5, ReceiveParts
  <2>2. \A v \in Workers, u \in Tasks : buf'[v] = <<u>> => v # w /\ buf[v] = <<u>>
    BY <1>0b, <2>1, Zenon
  <2>3. CASE buf[w] = <<Nil>> /\ UNCHANGED <<task, ch>>
    <3>1. \A u \in Tasks : buf[w] # <<u>>
      BY <1>0, <1>0b, <2>3
    <3> QED
      BY <2>1, <2>2, <2>3, <3>1, SMTT(30) DEF Carried
  <2>4. ASSUME NEW t \in Tasks, buf[w] = <<t>>, pc'[w] = "run",
               task' = [task EXCEPT ![t] = "running"], ch' = [ch EXCEPT ![t] = w]
        PROVE  Carried'
    <3>1. /\ task[t] = "sent" /\ task'[t] = "running" /\ ch'[t] = w
          /\ \A u \in Tasks : u # t => task'[u] = task[u] /\ ch'[u] = ch[u]
      BY <2>4 DEF PoolType, Carried
    <3>2. \A u \in Tasks : buf[w] = <<u>> => u = t
      BY <1>0b, <2>4
    <3>3. \A v \in Workers : buf'[v] # <<t>>
      BY <2>2, <2>4 DEF Carried
    <3>4. \A u \in Tasks : task[u] = "running" => ch[u] # w
      BY <2>1 DEF Carried
    <3>5. \A v \in Workers, u \in Tasks : buf'[v] = <<u>> => task'[u] = "sent"
      BY <2>2, <3>1, <3>3 DEF Carried
    <3>6. ASSUME NEW u \in Tasks, task'[u] = "sent" PROVE \E v \in Workers : buf'[v] = <<u>>
      <4>1. u # t /\ task[u] = "sent"
        BY <3>1, <3>6
      <4>2. PICK v \in Workers : buf[v] = <<u>>
        BY <4>1 DEF Carried
      <4> QED
        BY <2>1, <3>2, <4>1, <4>2
    <3>7. \A u \in Tasks : task'[u] = "running" => ch'[u] \in Workers /\ pc'[ch'[u]] = "run"
      BY <2>1, <2>4, <3>1, <3>4 DEF Carried
    <3>8. \A u, x \in Tasks : task'[u] = "running" /\ task'[x] = "running" /\ ch'[u] = ch'[x] => u = x
      BY <3>1, <3>4 DEF Carried
    <3> QED
      BY <2>2, <3>5, <3>6, <3>7, <3>8, SMTT(30) DEF Carried
  <2> QED
    BY <1>5, <2>3, <2>4, ReceiveParts
<1>6. ASSUME NEW w \in Workers, Finish(w) PROVE Carried'
  <2>1. PICK t \in Tasks : /\ task[t] = "running" /\ ch[t] = w
                           /\ task' = [task EXCEPT ![t] = "done"]
                           /\ ch' = [ch EXCEPT ![t] = Nil]
    BY <1>6, Zenon DEF Finish
  <2>2. /\ task'[t] = "done" /\ UNCHANGED buf
        /\ \A u \in Tasks : u # t => task'[u] = task[u] /\ ch'[u] = ch[u]
        /\ \A v \in Workers : v # w => pc'[v] = pc[v]
    BY <1>6, <2>1, Zenon DEF PoolType, Finish
  <2>3. \A u \in Tasks : u # t /\ task[u] = "running" => ch[u] # w
    BY <2>1, Zenon DEF Carried
  <2>4. \A u \in Tasks : task'[u] = "running" => u # t /\ ch'[u] \in Workers /\ pc'[ch'[u]] = "run"
    BY <2>2, <2>3 DEF Carried
  <2>5. \A u \in Tasks : (task'[u] = "sent") = (task[u] = "sent")
    BY <2>1, <2>2
  <2> QED
    BY <2>2, <2>4, <2>5 DEF Carried
<1>7. ASSUME NEW w \in Workers, Release(w) \/ Exit(w) PROVE Carried'
  <2>1. /\ pc[w] # "run" /\ UNCHANGED <<buf, task, ch>>
        /\ \A v \in Workers : v # w => pc'[v] = pc[v]
    BY <1>7 DEF PoolType, Release, Exit
  <2> QED
    BY <2>1 DEF Carried
<1>8. CASE CleanNotify
  <2> DEFINE w == Head(cleaner.scratch)
  <2>1. w \in Workers /\ buf[w] = <<>>
    BY <1>8, CleanNotifyLists, Zenon DEF Held
  <2>2. /\ buf' = [buf EXCEPT ![w] = <<Nil>>] /\ UNCHANGED <<task, ch, pc>>
    BY <1>8 DEF CleanNotify
  <2> HIDE DEF w
  <2>3. buf'[w] = <<Nil>> /\ \A v \in Workers : v # w => buf'[v] = buf[v]
    BY <2>1, <2>2 DEF PoolType
  <2>4. \A v \in Workers, u \in Tasks : (buf'[v] = <<u>>) = (buf[v] = <<u>>)
    BY <1>0, <1>0b, <2>1, <2>3
  <2> QED
    BY <2>2, <2>4, SMTT(30) DEF Carried
<1>9. CASE StopLock
  <2>1. \A v \in Workers : IF v \in Ready THEN buf[v] = <<>> /\ buf'[v] = <<Nil>> ELSE buf'[v] = buf[v]
    BY <1>9 DEF StopLock, Held, Ready
  <2>2. \A v \in Workers, u \in Tasks : (buf'[v] = <<u>>) = (buf[v] = <<u>>)
    BY <1>0, <1>0b, <2>1
  <2>3. UNCHANGED <<task, ch, pc>>
    BY <1>9 DEF StopLock
  <2> QED
    BY <2>2, <2>3 DEF Carried
<1>10. CASE Tick \/ CleanTime \/ CleanLock \/ CleanSelect \/ StopClose \/ UNCHANGED vars
  BY <1>1, <1>10, Zenon DEF Tick, CleanTime, CleanLock, CleanSelect, StopClose, vars
<1> QED
  BY <1>2, <1>3, <1>4, <1>5, <1>6, <1>7, <1>8, <1>9, <1>10
     DEF Next, Submit, Sending, Work, Clean

INSTANCE FiniteSetTheorems

\* workersCount follows the workers.
LEMMA CountedStep ==
  ASSUME PoolType, Counted, [Next]_vars
  PROVE  Counted'
<1>0. IsFiniteSet(Workers) /\ MaxWorkersCount \in Nat
  BY PoolAssumption, Zenon
<1>1. IsFiniteSet(Live) /\ Cardinality(Live) \in Nat
  <2>1. Live \in SUBSET Workers
    BY DEF Live
  <2> QED
    BY <1>0, <2>1, FS_Subset, FS_CardinalityType
<1>2. CASE Live' = Live /\ workersCount' = workersCount
  BY <1>2 DEF Counted
<1>3. ASSUME NEW t \in Tasks, GetNew(t) PROVE Counted'
  <2>1. PICK w \in Workers : pc[w] = "free" /\ pc' = [pc EXCEPT ![w] = "recv"]
    BY <1>3, Zenon DEF GetNew
  <2>2. w \notin Live /\ Live' = Live \cup {w}
    BY <2>1, Zenon DEF PoolType, Live
  <2>3. Cardinality(Live') = Cardinality(Live) + 1
    BY <1>1, <2>2, FS_AddElement, SMTT(30)
  <2>4. workersCount < MaxWorkersCount /\ workersCount' = workersCount + 1
    BY <1>3, Zenon DEF GetNew
  <2> QED
    BY <1>0, <1>1, <2>3, <2>4 DEF Counted
<1>4. ASSUME NEW w \in Workers, Exit(w) PROVE Counted'
  <2>1. w \in Live /\ Live' = Live \ {w} /\ workersCount' = workersCount - 1
    BY <1>4, Zenon DEF PoolType, Live, Exit
  <2>2. Cardinality(Live') = Cardinality(Live) - 1
    BY <1>1, <2>1, FS_RemoveElement, SMTT(30)
  <2> QED
    BY <1>0, <1>1, <2>1, <2>2 DEF Counted
<1>5. ASSUME NEW w \in Workers, Receive(w) \/ Finish(w) \/ Release(w) PROVE Counted'
  <2>1. pc[w] # "free" /\ pc'[w] # "free" /\ \A v \in Workers : v # w => pc'[v] = pc[v]
    <3>1. CASE Receive(w)
      BY <3>1, ReceiveParts
    <3>2. CASE Finish(w) \/ Release(w)
      BY <3>2, Zenon DEF PoolType, Finish, Release
    <3> QED
      BY <1>5, <3>1, <3>2, Zenon
  <2>2. workersCount' = workersCount
    BY <1>5 DEF Receive, Finish, Release
  <2> QED
    BY <1>2, <2>1, <2>2 DEF Live
<1>6. ASSUME NEW t \in Tasks, GetReady(t) \/ Reject(t) \/ Send(t) PROVE Counted'
  BY <1>2, <1>6 DEF Live, GetReady, Reject, Send
<1>7. CASE \/ Tick \/ CleanTime \/ CleanLock \/ CleanNotify \/ CleanSelect
           \/ StopClose \/ StopLock \/ UNCHANGED vars
  <2>1. UNCHANGED <<pc, workersCount>>
    BY <1>7, Zenon DEF Tick, CleanTime, CleanLock, CleanNotify, CleanSelect, StopClose, StopLock, vars
  <2> QED
    BY <1>2, <2>1 DEF Live
<1> QED
  BY <1>3, <1>4, <1>5, <1>6, <1>7, Zenon DEF Next, Submit, Sending, Work, Clean
-----------------------------------------------------------------------------
(* What follows.                                                           *)

\* The inductive invariant holds always.
LEMMA PoolInvariant == Spec => []PoolInv
<1>1. Init => PoolInv
  <2> SUFFICES ASSUME Init PROVE PoolInv
    OBVIOUS
  <2>0. /\ MaxWorkersCount \in Nat /\ MaxTime \in Nat
        /\ DOMAIN ready = {} /\ DOMAIN cleaner.scratch = {}
    BY PoolAssumption DEF Init
  <2>1. PoolType
    <3>1. <<>> \in Seq(Workers) /\ 0 \in 0..MaxTime
      BY <2>0
    <3>2. cleaner \in [pc : {"clean", "lock", "notify", "exited"},
                      criticalTime : Int, scratch : Seq(Workers)]
      BY <3>1 DEF Init
    <3>3. buf \in [Workers -> {<<>>, <<Nil>>} \cup {<<t>> : t \in Tasks}]
      BY DEF Init
    <3> QED
      BY <3>1, <3>2, <3>3, Zenon DEF Init, PoolType
  <2>2. Ready = {} /\ Scratch = {} /\ IsInjective(ready) /\ IsInjective(cleaner.scratch)
    BY <2>0 DEF Ready, Scratch, Range, IsInjective
  <2>3. Held /\ Owned
    BY <2>2 DEF Init, Held, Owned, NoSender
  <2>4. Carried
    <3>1. \A t \in Tasks : <<>> # <<t>>
      OBVIOUS
    <3> QED
      BY <3>1 DEF Init, Carried
  <2>5. Counted
    <3>1. Live = {}
      BY DEF Init, Live
    <3> QED
      BY <2>0, <3>1, FS_EmptySet DEF Init, Counted
  <2> QED
    BY <2>1, <2>3, <2>4, <2>5, Zenon DEF PoolInv
<1>2. PoolInv /\ [Next]_vars => PoolInv'
  BY TypeStep, HeldStep, OwnedStep, CarriedStep, CountedStep DEF PoolInv
<1> QED
  BY <1>1, <1>2, PTL DEF Spec

(***************************************************************************)
(* The types hold, and workersCount never passes MaxWorkersCount, for any  *)
(* number of tasks and workers.                                            *)
(***************************************************************************)
THEOREM TypesHold == Spec => []TypeOK
<1>1. PoolInv => TypeOK
  <2> SUFFICES ASSUME PoolInv PROVE TypeOK
    OBVIOUS
  <2>1. IsFiniteSet(Live)
    <3>1. Live \in SUBSET Workers /\ IsFiniteSet(Workers)
      BY PoolAssumption DEF Live
    <3> QED
      BY <3>1, FS_Subset
  <2>2. workersCount \in 0..MaxWorkersCount
    BY <2>1, PoolAssumption, FS_CardinalityType DEF PoolInv, Counted
  <2> QED
    BY <2>2, Zenon DEF PoolInv, PoolType, TypeOK
<1> QED
  BY <1>1, PoolInvariant, PTL

(***************************************************************************)
(* A receiving worker has exactly one holder and every other worker none   *)
(* (getCh, release, clean, Stop), for any number of tasks and workers and  *)
(* both channel capacities.                                                *)
(***************************************************************************)
THEOREM WorkersAreNotShared == Spec => []OneHolder
<1>1. PoolInv => OneHolder
  <2> SUFFICES ASSUME PoolInv, NEW w \in Workers
               PROVE  Cardinality(Sender(w))
                        + (IF w \in Range(ready) THEN 1 ELSE 0)
                        + (IF w \in Range(cleaner.scratch) THEN 1 ELSE 0)
                        + Len(buf[w])
                      = IF pc[w] = "recv" THEN 1 ELSE 0
    BY Zenon DEF PoolInv, Held, OneHolder
  <2> USE DEF PoolInv
  <2>1. /\ buf[w] = <<>> => Len(buf[w]) = 0
        /\ buf[w] # <<>> => Len(buf[w]) = 1
    BY DEF PoolType
  <2>2. NoSender(w) => Cardinality(Sender(w)) = 0
    <3>1. NoSender(w) => Sender(w) = {}
      BY DEF NoSender, Sender
    <3> QED
      BY <3>1, FS_EmptySet
  <2>3. ~NoSender(w) => Cardinality(Sender(w)) = 1
    <3>1. ASSUME ~NoSender(w) PROVE \E t : Sender(w) = {t}
      BY <3>1 DEF NoSender, Sender, Held
    <3> QED
      BY <3>1, FS_Singleton
  <2>4. /\ w \in Ready => pc[w] = "recv" /\ w \notin Scratch /\ buf[w] = <<>> /\ NoSender(w)
        /\ w \in Scratch => pc[w] = "recv" /\ buf[w] = <<>> /\ NoSender(w)
        /\ buf[w] # <<>> => pc[w] = "recv" /\ NoSender(w)
        /\ ~NoSender(w) => pc[w] = "recv"
        /\ pc[w] = "recv" => w \in Ready \/ w \in Scratch \/ buf[w] # <<>> \/ ~NoSender(w)
    BY DEF Held, Owned, NoSender
  <2> HIDE DEF PoolInv
  <2> DEFINE c == Cardinality(Sender(w))
             n == Len(buf[w])
             r == IF w \in Ready THEN 1 ELSE 0
             k == IF w \in Scratch THEN 1 ELSE 0
  <2>5. /\ c \in {0, 1} /\ r \in {0, 1} /\ k \in {0, 1} /\ n \in {0, 1}
        /\ c = 1 <=> ~NoSender(w)
        /\ n = 1 <=> buf[w] # <<>>
    BY <2>1, <2>2, <2>3
  <2>6. c + r + k + n = IF pc[w] = "recv" THEN 1 ELSE 0
    <3> HIDE DEF c, n
    <3> QED
      BY <2>4, <2>5
  <2> QED
    BY <2>6 DEF Ready, Scratch
<1> QED
  BY <1>1, PoolInvariant, PTL

(***************************************************************************)
(* workersCount is the number of workers that exist (getCh, the end of     *)
(* workerFunc).                                                            *)
(***************************************************************************)
THEOREM CountIsExact == Spec => []CountIsLive
<1>1. PoolInv => CountIsLive
  BY DEF PoolInv, Counted, Live, CountIsLive
<1> QED
  BY <1>1, PoolInvariant, PTL
\* Every unfinished task has a worker of its own, and not an idle one.
LEMMA OneWorkerEach ==
  ASSUME PoolInv
  PROVE  /\ IsFiniteSet(Live \ Ready)
         /\ IsFiniteSet(Pool!Unfinished)
         /\ Cardinality(Pool!Unfinished) <= Cardinality(Live \ Ready)
<1> DEFINE U == {t \in Tasks : task[t] \in {"sending", "sent", "running"}}
           With(t) == IF task[t] = "sent" THEN CHOOSE w \in Workers : buf[w] = <<t>> ELSE ch[t]
           f == [t \in U |-> With(t)]
<1> USE DEF PoolInv
<1>0. Pool!Unfinished = U
  BY Zenon DEF Pool!Unfinished, PoolType
<1>1. IsFiniteSet(Live \ Ready)
  <2>1. IsFiniteSet(Workers) /\ (Live \ Ready) \in SUBSET Workers
    BY PoolAssumption DEF Live
  <2> QED
    BY <2>1, FS_Subset
<1>2. \A t \in U : task[t] = "sent" => With(t) \in Workers /\ buf[With(t)] = <<t>>
  BY DEF Carried
<1>3. ASSUME NEW t \in U PROVE With(t) \in Live \ Ready
  <2>1. CASE task[t] = "sent"
    <3>1. With(t) \in Workers /\ buf[With(t)] = <<t>>
      BY <1>2, <2>1, Zenon
    <3>2. buf[With(t)] # <<>>
      BY <3>1
    <3> HIDE DEF With
    <3> QED
      BY <3>1, <3>2, Zenon DEF Held, Live
  <2>2. CASE task[t] = "sending"
    BY <2>2, Zenon DEF Held, Live, NoSender
  <2>3. CASE task[t] = "running"
    BY <2>3, Zenon DEF Held, Carried, Live
  <2> QED
    BY <2>1, <2>2, <2>3
<1>4. ASSUME NEW t \in U, NEW u \in U, With(t) = With(u) PROVE t = u
  <2>1. ASSUME NEW x \in U, task[x] = "sent", NEW y \in U, With(x) = With(y) PROVE x = y
    <3>0. With(x) \in Workers /\ buf[With(x)] = <<x>>
      BY <1>2, <2>1, Zenon
    <3>1. With(x) \in Workers /\ buf[With(x)] = <<x>> /\ buf[With(x)] # <<>>
      BY <3>0
    <3>2. CASE task[y] = "sent"
      <4>1. buf[With(y)] = <<y>>
        BY <1>2, <3>2, Zenon
      <4> HIDE DEF With
      <4>2. <<x>> = <<y>>
        BY <2>1, <3>1, <4>1, Zenon
      <4> QED
        BY <4>2
    <3>3. CASE task[y] = "sending"
      BY <2>1, <3>1, <3>3, Zenon DEF Held, NoSender
    <3>4. CASE task[y] = "running"
      BY <2>1, <3>1, <3>4, Zenon DEF Held, Carried
    <3> QED
      BY <3>2, <3>3, <3>4
  <2>2. CASE task[t] = "sent" \/ task[u] = "sent"
    <3> HIDE DEF With
    <3> QED
      BY <1>4, <2>1, <2>2
  <2>3. CASE task[t] # "sent" /\ task[u] # "sent"
    BY <1>4, <2>3, Zenon DEF Held, Carried
  <2> QED
    BY <2>2, <2>3
<1> HIDE DEF With, U
<1>5. f \in [U -> Live \ Ready] /\ IsInjective(f)
  BY <1>3, <1>4 DEF IsInjective
<1>6. f \in Injection(U, Live \ Ready)
  BY <1>5 DEF Injection
<1> QED
  BY <1>0, <1>1, <1>6, FS_Injection

\* A Submit that gets a worker finds room in the pool of tasks.
LEMMA RoomForTask ==
  ASSUME PoolInv, NEW t \in Tasks, GetReady(t) \/ GetNew(t)
  PROVE  Cardinality(Pool!Unfinished) < MaxWorkersCount
<1>0. /\ IsFiniteSet(Live) /\ Cardinality(Live) \in Nat /\ MaxWorkersCount \in Nat
      /\ Cardinality(Live) <= MaxWorkersCount /\ workersCount = Cardinality(Live)
  <2>1. IsFiniteSet(Workers) /\ Live \in SUBSET Workers /\ MaxWorkersCount \in Nat
    BY PoolAssumption DEF Live
  <2>2. IsFiniteSet(Live)
    BY <2>1, FS_Subset
  <2> QED
    BY <2>1, <2>2, FS_CardinalityType DEF PoolInv, Counted
<1>1. /\ Cardinality(Pool!Unfinished) \in Nat /\ Cardinality(Live \ Ready) \in Nat
      /\ Cardinality(Pool!Unfinished) <= Cardinality(Live \ Ready)
  BY OneWorkerEach, FS_CardinalityType
<1>2. CASE GetReady(t)
  <2>1. Last(ready) \in Ready /\ Last(ready) \in Live
    BY <1>2, GetReadyLists, Zenon DEF PoolInv, Held, Live
  <2>2. (Live \ Ready) \in SUBSET (Live \ {Last(ready)})
    BY <2>1
  <2>3. /\ IsFiniteSet(Live \ {Last(ready)})
        /\ Cardinality(Live \ {Last(ready)}) = Cardinality(Live) - 1
    BY <1>0, <2>1, FS_RemoveElement
  <2>4. Cardinality(Live \ Ready) <= Cardinality(Live) - 1
    BY <2>2, <2>3, FS_Subset
  <2> QED
    BY <1>0, <1>1, <2>4
<1>3. CASE GetNew(t)
  <2>1. workersCount < MaxWorkersCount
    BY <1>3 DEF GetNew
  <2>2. Cardinality(Live \ Ready) <= Cardinality(Live)
    BY <1>0, FS_Subset
  <2> QED
    BY <1>0, <1>1, <2>1, <2>2
<1> QED
  BY <1>2, <1>3
\* The status of a task as the users of the pool see it.
Status == [t \in Tasks |-> IF task[t] \in {"sending", "sent"} THEN "accepted" ELSE task[t]]

(***************************************************************************)
(* The pool implements the safety part of TaskPool: a task is accepted or  *)
(* rejected once, an accepted one runs once and to its end, and no more    *)
(* than MaxWorkersCount are unfinished (Submit, workerFunc), whatever the  *)
(* cleaner and Stop do.                                                    *)
(***************************************************************************)
THEOREM ImplementsTaskPool == Spec => Pool!Spec
<1>1. Init => Pool!Init
  BY Zenon DEF Init, Pool!Init
<1>2. ASSUME PoolInv, [Next]_vars PROVE [Pool!Next]_Status
  <2>0. PoolType /\ Carried
    BY <1>2, Zenon DEF PoolInv
  <2>1. ASSUME NEW t \in Tasks, GetReady(t) \/ GetNew(t) PROVE Pool!Accept(t)
    <3>1. task[t] = "new" /\ task' = [task EXCEPT ![t] = "sending"]
      BY <2>1 DEF GetReady, GetNew
    <3>2. Status[t] = "new" /\ Status' = [Status EXCEPT ![t] = "accepted"]
      BY <2>0, <3>1, Zenon DEF PoolType, Status
    <3>3. Cardinality(Pool!Unfinished) < MaxWorkersCount
      BY <1>2, <2>1, RoomForTask
    <3>4. Pool!Cardinality(Pool!Unfinished) = Cardinality(Pool!Unfinished)
      BY Zenon DEF Pool!Cardinality, Cardinality
    <3> QED
      BY <3>2, <3>3, <3>4, Zenon DEF Pool!Accept, Status
  <2>2. ASSUME NEW t \in Tasks, Reject(t) PROVE Pool!Reject(t)
    <3>1. task[t] = "new" /\ task' = [task EXCEPT ![t] = "rejected"]
      BY <2>2 DEF Reject
    <3>2. Status[t] = "new" /\ Status' = [Status EXCEPT ![t] = "rejected"]
      BY <2>0, <3>1, Zenon DEF PoolType, Status
    <3> QED
      BY <3>2, Zenon DEF Pool!Reject, Status
  <2>3. ASSUME NEW t \in Tasks, Send(t) PROVE UNCHANGED Status
    BY <2>0, <2>3, Zenon DEF PoolType, Status, Send
  <2>4. ASSUME NEW w \in Workers, Receive(w) PROVE Pool!Next \/ UNCHANGED Status
    <3>1. CASE UNCHANGED task
      BY <3>1 DEF Status
    <3>2. ASSUME NEW t \in Tasks, buf[w] = <<t>>, task' = [task EXCEPT ![t] = "running"]
          PROVE  Pool!Begin(t)
      <4>1. task[t] = "sent"
        BY <2>0, <3>2 DEF Carried
      <4>2. Status[t] = "accepted" /\ Status' = [Status EXCEPT ![t] = "running"]
        BY <2>0, <3>2, <4>1, Zenon DEF PoolType, Status
      <4> QED
        BY <4>2 DEF Pool!Begin, Status
    <3> QED
      BY <2>0, <2>4, <3>1, <3>2, ReceiveParts, Zenon DEF Pool!Next
  <2>5. ASSUME NEW w \in Workers, Finish(w) PROVE Pool!Next
    <3>1. PICK t \in Tasks : task[t] = "running" /\ task' = [task EXCEPT ![t] = "done"]
      BY <2>5, Zenon DEF Finish
    <3>2. Status[t] = "running" /\ Status' = [Status EXCEPT ![t] = "done"]
      BY <2>0, <3>1, Zenon DEF PoolType, Status
    <3>3. Pool!Finish(t)
      BY <3>2, Zenon DEF Pool!Finish, Status
    <3> QED
      BY <3>3 DEF Pool!Next
  <2>6. CASE UNCHANGED task
    BY <2>6 DEF Status
  <2>7. CASE Clean \/ Tick \/ StopClose \/ StopLock \/ UNCHANGED vars
    BY <2>6, <2>7, Zenon DEF Clean, CleanTime, CleanLock, CleanNotify, CleanSelect, Tick,
                      StopClose, StopLock, vars
  <2>8. ASSUME NEW w \in Workers, Release(w) \/ Exit(w) PROVE UNCHANGED Status
    BY <2>8, Zenon DEF Release, Exit, Status
  <2>9. CASE Submit
    BY <2>1, <2>2, <2>9 DEF Submit, Pool!Next
  <2> QED
    BY <1>2, <2>3, <2>4, <2>5, <2>7, <2>8, <2>9 DEF Next, Sending, Work
<1> QED
  BY <1>1, <1>2, PoolInvariant, PTL DEF Spec, Pool!Spec, Status
=============================================================================
