---------------------------- MODULE AbstractLock ----------------------------
(***************************************************************************)
(* What gvl_acquire, gvl_release and gvl_yield of ruby/thread_pthread.c    *)
(* promise to the rest of the interpreter: a lock with at most one owner,  *)
(* which a newcomer may take before the threads that wait for it, and      *)
(* which is not left free while threads wait.                              *)
(***************************************************************************)
CONSTANTS Threads, FirstOwner, NULL

VARIABLES owner, waiters

Init == owner = FirstOwner /\ waiters = {}

Request(t) ==
  /\ owner # t /\ t \notin waiters
  /\ waiters' = waiters \cup {t}
  /\ UNCHANGED owner

Grant(t) ==
  /\ owner = NULL
  /\ owner' = t
  /\ waiters' = waiters \ {t}

Free(t) ==
  /\ owner = t
  /\ owner' = NULL
  /\ UNCHANGED waiters

Next == \E t \in Threads : Request(t) \/ Grant(t) \/ Free(t)

Safety == Init /\ [][Next]_<<owner, waiters>>

Spec == Safety /\ WF_<<owner, waiters>>(\E t \in waiters : Grant(t))
=============================================================================
