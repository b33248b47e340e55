------------------------------ MODULE MC_Queue ------------------------------
(* A queue of at most two elements between four threads, which is the least  *)
(* number at which one thread is killed after its wakeup, a second sleeps, a *)
(* third kills and a fourth competes.                                        *)
EXTENDS Queue

CONSTANTS t1, t2, t3, t4
=============================================================================
