------------------------------ MODULE MC_Mutex ------------------------------
(* The main thread and two others with two mutexes: the least instance in    *)
(* which two threads lock in opposite orders while a third sleeps or joins.  *)
(* The threads other than the first are alike, and so are the mutexes.       *)
EXTENDS Mutex, TLC

CONSTANTS main, t1, t2, m1, m2

Symmetry == Permutations(Threads \ {FirstThread}) \cup Permutations(Mutexes)
=============================================================================
