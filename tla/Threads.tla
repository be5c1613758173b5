------------------------------ MODULE Threads -------------------------------
(***************************************************************************)
(* llib.thread.lock and llib.thread.async side by side.  Lock ids and      *)
(* handles share nothing, so a behaviour uses the one or the other.        *)
(***************************************************************************)
EXTENDS ThreadLocks, AsyncThread

NoLock == \A t \in Threads : calls[t] = 0
NoWorker == \A h \in Handles : info[h] = "none"

ThreadsInit == Init /\ AsyncInit

ThreadsNext ==
    \/ NoWorker /\ Next /\ UNCHANGED asyncVars
    \/ NoLock /\ AsyncNext /\ UNCHANGED vars

\* The fairness of both: what one asks for is disabled while the other is used.
ThreadsSpec ==
    ThreadsInit /\ [][ThreadsNext]_<<vars, asyncVars>> /\ Fairness /\ AsyncFairness
=============================================================================
