---------------------------- MODULE MCWorkerPool ----------------------------
(***************************************************************************)
(* Instances of WorkerPool for model checking.                             *)
(***************************************************************************)
EXTENDS WorkerPool, TLC

(***************************************************************************)
(* The binary search of clean on every list of up to 5 times: it stays     *)
(* within the list, and on a sorted one it counts the times before         *)
(* criticalTime.                                                           *)
(***************************************************************************)
ASSUME SearchCounts ==
  \A n \in 0..5 : \A times \in [1..n -> 0..2] : \A criticalTime \in -1..3 :
    /\ Obsolete(times, criticalTime) \in 0..n
    /\ (\A i, j \in 1..n : i < j => times[i] <= times[j])
         => Obsolete(times, criticalTime) = Cardinality({i \in 1..n : times[i] < criticalTime})

Symmetry == Permutations(Tasks) \cup Permutations(Workers)
=============================================================================
