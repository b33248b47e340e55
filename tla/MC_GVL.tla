------------------------------- MODULE MC_GVL -------------------------------
(* The lock with a main thread and two others, which is the least number at  *)
(* which one thread yields, a second queues behind it and a third waits.     *)
EXTENDS GVL

CONSTANTS main, t1, t2
=============================================================================
