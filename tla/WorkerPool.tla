----------------------------- MODULE WorkerPool -----------------------------
(***************************************************************************)
(* The worker pool of pool/workerpool.go: callers of Submit, workers, the  *)
(* cleaner goroutine of Start and a call of Stop.  A region between Lock   *)
(* and Unlock is one step; so is each send, receive and task.              *)
(*                                                                         *)
(* A worker is named by its workerChan.  The pool of channels              *)
(* (workerChanPool) is the set of workers that are "free".                 *)
(***************************************************************************)
EXTENDS Integers, Sequences, FiniteSets, Functions

CONSTANTS
  Tasks,            \* the functions that are submitted
  Workers,          \* workerChan values, at least as many as workers
  MaxWorkersCount,
  ChanCap,          \* workerChanCap: 0 when GOMAXPROCS is 1, else 1
  MaxIdle,          \* MaxIdleWorkerDuration
  MaxTime,          \* bound on the clock
  Nil               \* the nil function that stops a worker

ASSUME PoolAssumption ==
  /\ MaxWorkersCount \in Nat /\ MaxIdle \in Nat /\ MaxTime \in Nat
  /\ ChanCap \in {0, 1}
  /\ IsFiniteSet(Workers) /\ MaxWorkersCount <= Cardinality(Workers)
  /\ Nil \notin Tasks /\ Nil \notin Workers

VARIABLES
  now,           \* time.Now()
  task,          \* where each task is
  ch,            \* the channel that the Submit of a task has got from getCh
  pc,            \* where each worker is in workerFunc
  buf,           \* the content of its channel
  lastUseTime,
  ready, workersCount, mustStop,
  cleaner,       \* where the cleaner is: [pc, criticalTime, scratch]
  stop           \* where the call of Stop is

vars == <<now, task, ch, pc, buf, lastUseTime, ready, workersCount, mustStop,
          cleaner, stop>>

\* Start has been called; no worker exists.
Init ==
  /\ now = 0
  /\ task = [t \in Tasks |-> "new"]
  /\ ch = [t \in Tasks |-> Nil]
  /\ pc = [w \in Workers |-> "free"]
  /\ buf = [w \in Workers |-> <<>>]
  /\ lastUseTime = [w \in Workers |-> 0]
  /\ ready = <<>>
  /\ workersCount = 0
  /\ mustStop = FALSE
  /\ cleaner = [pc |-> "clean", criticalTime |-> 0, scratch |-> <<>>]
  /\ stop = "no"

\* ch <- x can go ahead.  A send on a channel without buffer waits for a worker
\* that is receiving.
CanSend(w) == buf[w] = <<>> /\ (ChanCap = 1 \/ pc[w] = "recv")

Tick ==
  /\ now < MaxTime
  /\ now' = now + 1
  /\ UNCHANGED <<task, ch, pc, buf, lastUseTime, ready, workersCount, mustStop, cleaner, stop>>

-----------------------------------------------------------------------------
(* Submit.                                                                 *)

\* Mutant: the worker is counted again when it is reused.
GetReadyCounted(t) ==
  /\ task[t] = "new"
  /\ ready # <<>>
  /\ ch' = [ch EXCEPT ![t] = ready[Len(ready)]]
  /\ ready' = SubSeq(ready, 1, Len(ready) - 1)
  /\ workersCount' = workersCount + 1
  /\ task' = [task EXCEPT ![t] = "sending"]
  /\ UNCHANGED <<now, pc, buf, lastUseTime, mustStop, cleaner, stop>>

\* getCh, with an idle worker: the one that became idle last.
GetReady(t) ==
  /\ task[t] = "new"
  /\ ready # <<>>
  /\ ch' = [ch EXCEPT ![t] = ready[Len(ready)]]
  /\ ready' = SubSeq(ready, 1, Len(ready) - 1)
  /\ task' = [task EXCEPT ![t] = "sending"]
  /\ UNCHANGED <<now, pc, buf, lastUseTime, workersCount, mustStop, cleaner, stop>>

\* Mutant: off by one at the limit.
GetNewOverLimit(t) ==
  /\ task[t] = "new"
  /\ ready = <<>>
  /\ workersCount <= MaxWorkersCount
  /\ workersCount' = workersCount + 1
  /\ \E w \in Workers :
       /\ pc[w] = "free"
       /\ pc' = [pc EXCEPT ![w] = "recv"]
       /\ ch' = [ch EXCEPT ![t] = w]
  /\ task' = [task EXCEPT ![t] = "sending"]
  /\ UNCHANGED <<now, buf, lastUseTime, ready, mustStop, cleaner, stop>>

\* getCh, with a new worker.
GetNew(t) ==
  /\ task[t] = "new"
  /\ ready = <<>>
  /\ workersCount < MaxWorkersCount
  /\ workersCount' = workersCount + 1
  /\ \E w \in Workers :
       /\ pc[w] = "free"
       /\ pc' = [pc EXCEPT ![w] = "recv"]
       /\ ch' = [ch EXCEPT ![t] = w]
  /\ task' = [task EXCEPT ![t] = "sending"]
  /\ UNCHANGED <<now, buf, lastUseTime, ready, mustStop, cleaner, stop>>

\* getCh returns nil, Submit an error.
Reject(t) ==
  /\ task[t] = "new"
  /\ ready = <<>>
  /\ workersCount >= MaxWorkersCount
  /\ task' = [task EXCEPT ![t] = "rejected"]
  /\ UNCHANGED <<now, ch, pc, buf, lastUseTime, ready, workersCount, mustStop, cleaner, stop>>

\* Submit: ch.ch <- fn.
Send(t) ==
  /\ task[t] = "sending"
  /\ CanSend(ch[t])
  /\ buf' = [buf EXCEPT ![ch[t]] = <<t>>]
  /\ ch' = [ch EXCEPT ![t] = Nil]
  /\ task' = [task EXCEPT ![t] = "sent"]
  /\ UNCHANGED <<now, pc, lastUseTime, ready, workersCount, mustStop, cleaner, stop>>

-----------------------------------------------------------------------------
(* workerFunc.                                                             *)

\* for fn = range ch.ch
Receive(w) ==
  /\ pc[w] = "recv"
  /\ buf[w] # <<>>
  /\ buf' = [buf EXCEPT ![w] = <<>>]
  /\ LET fn == Head(buf[w])
     IN /\ pc' = [pc EXCEPT ![w] = IF fn = Nil THEN "exit" ELSE "run"]
        /\ task' = IF fn = Nil THEN task ELSE [task EXCEPT ![fn] = "running"]
        /\ ch' = IF fn = Nil THEN ch ELSE [ch EXCEPT ![fn] = w]
  /\ UNCHANGED <<now, lastUseTime, ready, workersCount, mustStop, cleaner, stop>>

\* fn() returns; release takes the time.
Finish(w) ==
  /\ pc[w] = "run"
  /\ \E t \in Tasks :
       /\ task[t] = "running" /\ ch[t] = w
       /\ task' = [task EXCEPT ![t] = "done"]
       /\ ch' = [ch EXCEPT ![t] = Nil]
  /\ pc' = [pc EXCEPT ![w] = "release"]
  /\ lastUseTime' = [lastUseTime EXCEPT ![w] = now]
  /\ UNCHANGED <<now, buf, ready, workersCount, mustStop, cleaner, stop>>

\* Mutant: release does not look at mustStop.
ReleaseAlways(w) ==
  /\ pc[w] = "release"
  /\ pc' = [pc EXCEPT ![w] = "recv"]
  /\ ready' = Append(ready, w)
  /\ UNCHANGED <<now, task, ch, buf, lastUseTime, workersCount, mustStop, cleaner, stop>>

\* release, between Lock and Unlock.
Release(w) ==
  /\ pc[w] = "release"
  /\ IF mustStop
       THEN pc' = [pc EXCEPT ![w] = "exit"] /\ UNCHANGED ready
       ELSE pc' = [pc EXCEPT ![w] = "recv"] /\ ready' = Append(ready, w)
  /\ UNCHANGED <<now, task, ch, buf, lastUseTime, workersCount, mustStop, cleaner, stop>>

\* The end of workerFunc, and workerChanPool.Put.
Exit(w) ==
  /\ pc[w] = "exit"
  /\ pc' = [pc EXCEPT ![w] = "free"]
  /\ workersCount' = workersCount - 1
  /\ UNCHANGED <<now, task, ch, buf, lastUseTime, ready, mustStop, cleaner, stop>>

-----------------------------------------------------------------------------
(* The cleaner.                                                            *)

\* The number of workers to clean: the binary search over the times of ready.
Obsolete(times, criticalTime) ==
  LET n == Len(times)
      search[l \in 0..n, r \in -1..n-1] ==
        IF l > r THEN r
        ELSE LET mid == (l + r) \div 2
             IN IF criticalTime > times[mid + 1]
                  THEN search[mid + 1, r] ELSE search[l, mid - 1]
  IN search[0, n - 1] + 1

IdleTimes == [i \in 1..Len(ready) |-> lastUseTime[ready[i]]]

\* clean reads the clock.
CleanTime ==
  /\ cleaner.pc = "clean"
  /\ cleaner' = [cleaner EXCEPT !.pc = "lock", !.criticalTime = now - MaxIdle]
  /\ UNCHANGED <<now, task, ch, pc, buf, lastUseTime, ready, workersCount, mustStop, stop>>

\* Mutant: the obsolete workers are notified but stay in ready.
CleanLockKeeps ==
  /\ cleaner.pc = "lock"
  /\ LET n == Obsolete(IdleTimes, cleaner.criticalTime)
     IN cleaner' = [cleaner EXCEPT !.pc = "notify", !.scratch = SubSeq(ready, 1, n)]
  /\ UNCHANGED <<now, task, ch, pc, buf, lastUseTime, ready, workersCount, mustStop, stop>>

\* clean, between Lock and Unlock.  n is within the bounds of ready, or the slice
\* expression ready[:i+1] would panic (MCWorkerPool checks that it always is).
CleanLock ==
  /\ cleaner.pc = "lock"
  /\ \E n \in 0..Len(ready) :
       /\ n = Obsolete(IdleTimes, cleaner.criticalTime)
       /\ cleaner' = [cleaner EXCEPT !.pc = "notify", !.scratch = SubSeq(ready, 1, n)]
       /\ ready' = SubSeq(ready, n + 1, Len(ready))
  /\ UNCHANGED <<now, task, ch, pc, buf, lastUseTime, workersCount, mustStop, stop>>

\* clean: tmp[i].ch <- nil, outside the lock.
CleanNotify ==
  /\ cleaner.pc = "notify"
  /\ cleaner.scratch # <<>>
  /\ CanSend(Head(cleaner.scratch))
  /\ buf' = [buf EXCEPT ![Head(cleaner.scratch)] = <<Nil>>]
  /\ cleaner' = [cleaner EXCEPT !.scratch = Tail(@)]
  /\ UNCHANGED <<now, task, ch, pc, lastUseTime, ready, workersCount, mustStop, stop>>

\* The select of the loop in Start: return, or sleep and clean again.
CleanSelect ==
  /\ cleaner.pc = "notify"
  /\ cleaner.scratch = <<>>
  /\ cleaner' = [cleaner EXCEPT !.pc = IF stop = "no" THEN "clean" ELSE "exited"]
  /\ UNCHANGED <<now, task, ch, pc, buf, lastUseTime, ready, workersCount, mustStop, stop>>

-----------------------------------------------------------------------------
(* Stop.                                                                   *)

\* close(wp.stopCh)
StopClose ==
  /\ stop = "no"
  /\ stop' = "closed"
  /\ UNCHANGED <<now, task, ch, pc, buf, lastUseTime, ready, workersCount, mustStop, cleaner>>

\* Stop, between Lock and Unlock.  Its sends cannot block for long: the workers
\* in ready are receiving from empty channels.
StopLock ==
  /\ stop = "closed"
  /\ \A w \in Range(ready) : CanSend(w)
  /\ stop' = "stopped"
  /\ buf' = [w \in Workers |-> IF w \in Range(ready) THEN <<Nil>> ELSE buf[w]]
  /\ ready' = <<>>
  /\ mustStop' = TRUE
  /\ UNCHANGED <<now, task, ch, pc, lastUseTime, workersCount, cleaner>>

Submit == \E t \in Tasks : GetReady(t) \/ GetNew(t) \/ Reject(t)

Sending == \E t \in Tasks : Send(t)

Work ==
  \/ \E w \in Workers : Receive(w)
  \/ \E w \in Workers : Finish(w)
  \/ \E w \in Workers : Release(w)
  \/ \E w \in Workers : Exit(w)

Clean == CleanTime \/ CleanLock \/ CleanNotify \/ CleanSelect

Next == Tick \/ Submit \/ Sending \/ Work \/ Clean \/ StopClose \/ StopLock

Spec == Init /\ [][Next]_vars

\* A goroutine that can go on does; a task returns; nobody has to submit tasks
\* or to call Stop.
FairSpec ==
  /\ Spec
  /\ \A t \in Tasks : WF_vars(Send(t))
  /\ \A w \in Workers : WF_vars(Receive(w)) /\ WF_vars(Finish(w))
  /\ \A w \in Workers : WF_vars(Release(w)) /\ WF_vars(Exit(w))
  /\ WF_vars(CleanNotify) /\ WF_vars(StopLock)
-----------------------------------------------------------------------------
\* Types of the variables; workersCount keeps to its limit.
TypeOK ==
  /\ now \in 0..MaxTime
  /\ task \in [Tasks -> {"new", "rejected", "sending", "sent", "running", "done"}]
  /\ ch \in [Tasks -> Workers \cup {Nil}]
  /\ pc \in [Workers -> {"free", "recv", "run", "release", "exit"}]
  /\ buf \in [Workers -> {<<>>, <<Nil>>} \cup {<<t>> : t \in Tasks}]
  /\ lastUseTime \in [Workers -> 0..MaxTime]
  /\ ready \in Seq(Workers)
  /\ workersCount \in 0..MaxWorkersCount
  /\ mustStop \in BOOLEAN
  /\ cleaner.pc \in {"clean", "lock", "notify", "exited"}
  /\ cleaner.criticalTime \in Int
  /\ cleaner.scratch \in Seq(Workers)
  /\ stop \in {"no", "closed", "stopped"}

Sender(w) == {t \in Tasks : task[t] = "sending" /\ ch[t] = w}

(***************************************************************************)
(* A receiving worker belongs to exactly one holder: the ready list, a     *)
(* Submit about to send to it, the cleaner about to stop it, or a message  *)
(* in its channel; every other worker belongs to none.  So no send blocks, *)
(* no task is sent to a worker that is told to stop, and a channel that    *)
(* goes back to workerChanPool is empty (getCh, release, clean, Stop).     *)
(***************************************************************************)
OneHolder ==
  /\ IsInjective(ready) /\ IsInjective(cleaner.scratch)
  /\ \A w \in Workers :
       Cardinality(Sender(w))
         + (IF w \in Range(ready) THEN 1 ELSE 0)
         + (IF w \in Range(cleaner.scratch) THEN 1 ELSE 0)
         + Len(buf[w])
       = IF pc[w] = "recv" THEN 1 ELSE 0

(***************************************************************************)
(* workersCount is the number of workers that exist (getCh, the end of     *)
(* workerFunc); with its type this keeps them within MaxWorkersCount.      *)
(***************************************************************************)
CountIsLive ==
  workersCount = Cardinality({w \in Workers : pc[w] # "free"})

\* The pool as its users see it: a task is accepted when getCh finds a worker.
Pool == INSTANCE TaskPool WITH
  Limit <- MaxWorkersCount,
  status <- [t \in Tasks |->
               IF task[t] \in {"sending", "sent"} THEN "accepted" ELSE task[t]]

\* Each accepted task is run exactly once, to its end, whatever Stop and the cleaner
\* do meanwhile, and there are never more of them unfinished than workers (Submit and
\* workerFunc implement TaskPool).
RunsOnce == Pool!FairSpec

\* After Stop all workers exit, the busy ones included, and those that a later
\* Submit creates (Stop: "they will stop after serving the connection and
\* noticing wp.mustStop = true").
WorkersExit == <>mustStop => <>[](workersCount = 0)
=============================================================================
