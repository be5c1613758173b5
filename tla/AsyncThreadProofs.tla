------------------------- MODULE AsyncThreadProofs --------------------------
(***************************************************************************)
(* Theorems about AsyncThread for any number of handles, pthread_t values  *)
(* and results, and for any use of the handles.                            *)
(***************************************************************************)
EXTENDS AsyncThread, TLAPS

-----------------------------------------------------------------------------
(* The inductive invariant.                                                *)

\* The handles for which l_async has been called.
Made(h) == info[h] # "none"

\* The worker will not touch ret again, and an await may read it.
Settled(h) == worker[h] \in {"unlocked", "ended"} /\ ret[h] = sent[h]

(* What the lock protects: it is open, or has been taken by an await, only *)
(* when the worker has settled.                                            *)
LockInv ==
    \A h \in Handles :
        /\ ~Made(h) => worker[h] = "none" /\ ~done[h]
        /\ Made(h) /\ (done[h] \/ ~lock[h]) => Settled(h)

(* A worker sets ret once, as the last thing before it unlocks.            *)
RetInv ==
    \A h \in Handles :
        /\ worker[h] \in {"none", "created", "running"} => ret[h] = NoValue
        /\ worker[h] = "result" => ret[h] = sent[h]

(* An await that has returned has returned ret.                            *)
GotInv ==
    /\ \A h \in Handles : got[h] # Unreturned => done[h] /\ got[h] = ret[h]
    /\ awaiting # Nobody => info[awaiting] = "live"

Inv == AsyncTypeOK /\ LockInv /\ RetInv /\ GotInv /\ UseAfterFreeOnlyIfDropped

-----------------------------------------------------------------------------
(* Every step keeps the types.                                             *)
LEMMA TypeStep == AsyncTypeOK /\ [AsyncNext]_asyncVars => AsyncTypeOK'
<1> SUFFICES ASSUME AsyncTypeOK, [AsyncNext]_asyncVars PROVE AsyncTypeOK'
    OBVIOUS
<1> USE AsyncAssumption DEF AsyncTypeOK, Results, Stages
<1>1. ASSUME NEW h \in Handles, NEW x \in Tids, Async(h, x) PROVE AsyncTypeOK'
    BY <1>1 DEF Async
<1>2. ASSUME NEW h \in Handles, AwaitCall(h) PROVE AsyncTypeOK'
    BY <1>2 DEF AwaitCall
<1>3. ASSUME NEW h \in Handles, AwaitReturn(h) PROVE AsyncTypeOK'
    BY <1>3 DEF AwaitReturn
<1>4. ASSUME NEW h \in Handles, AwaitAgain(h) PROVE AsyncTypeOK'
    BY <1>4 DEF AwaitAgain
<1>5. ASSUME NEW h \in Handles, Clean(h) PROVE AsyncTypeOK'
    BY <1>5 DEF Clean, PthreadCancel
<1>6. ASSUME NEW h \in Handles, Close(h) PROVE AsyncTypeOK'
    BY <1>6 DEF Close, PthreadCancel
<1>7. ASSUME NEW h \in Handles, Start(h) PROVE AsyncTypeOK'
    BY <1>7 DEF Start
<1>8. ASSUME NEW h \in Handles, NEW v \in Values, Res(h, v) PROVE AsyncTypeOK'
    BY <1>8 DEF Res
<1>9. ASSUME NEW h \in Handles, Return(h) PROVE AsyncTypeOK'
    BY <1>9 DEF Return
<1>10. ASSUME NEW h \in Handles, Error(h) PROVE AsyncTypeOK'
    BY <1>10 DEF Error
<1>11. ASSUME NEW h \in Handles, Unlock(h) PROVE AsyncTypeOK'
    BY <1>11 DEF Unlock
<1>12. ASSUME NEW h \in Handles, End(h) PROVE AsyncTypeOK'
    BY <1>12 DEF End
<1>13. ASSUME NEW h \in Handles, UseFreed(h) PROVE AsyncTypeOK'
    BY <1>13 DEF UseFreed
<1>14. CASE UNCHANGED asyncVars
    BY <1>14 DEF asyncVars
<1> QED
    BY <1>1, <1>2, <1>3, <1>4, <1>5, <1>6, <1>7, <1>8, <1>9, <1>10, <1>11,
       <1>12, <1>13, <1>14 DEF AsyncNext, Caller, Worker, Exit, Die

(* The steps of the caller keep the invariant.                             *)
LEMMA CallerStep ==
    ASSUME Inv, AsyncTypeOK', NEW h \in Handles, Caller(h)
    PROVE  Inv'
<1> USE AsyncAssumption DEF AsyncTypeOK, Results, Stages, Inv, LockInv, RetInv, GotInv, Made,
        Settled, UseAfterFreeOnlyIfDropped, Free
<1>1. ASSUME NEW x \in Tids, Async(h, x) PROVE Inv'
    BY <1>1 DEF Async
<1>2. CASE AwaitCall(h)
    BY <1>2 DEF AwaitCall
<1>3. CASE AwaitReturn(h)
    BY <1>3 DEF AwaitReturn
<1>4. CASE AwaitAgain(h)
    BY <1>4 DEF AwaitAgain
<1>5. CASE Clean(h)
    BY <1>5 DEF Clean, PthreadCancel
<1>6. CASE Close(h)
    BY <1>6 DEF Close, PthreadCancel
<1> QED
    BY <1>1, <1>2, <1>3, <1>4, <1>5, <1>6 DEF Caller

(* So do the steps of a worker.                                            *)
LEMMA WorkerStep ==
    ASSUME Inv, AsyncTypeOK', NEW h \in Handles, Worker(h)
    PROVE  Inv'
<1> USE AsyncAssumption DEF AsyncTypeOK, Results, Stages, Inv, LockInv, RetInv, GotInv, Made,
                            Settled,
        UseAfterFreeOnlyIfDropped
<1>1. CASE Start(h)
    BY <1>1 DEF Start, Alive
<1>2. ASSUME NEW v \in Values, Res(h, v) PROVE Inv'
    BY <1>2 DEF Res, Alive
<1>3. CASE Return(h)
    BY <1>3 DEF Return, Alive
<1>4. CASE Error(h)
    BY <1>4 DEF Error, Alive
<1>5. CASE Unlock(h)
    BY <1>5 DEF Unlock, Alive
<1>6. CASE Exit(h)
    BY <1>6 DEF Exit, End
<1>7. CASE Die(h)
    BY <1>7 DEF Die, End
<1>8. CASE UseFreed(h)
    BY <1>8 DEF UseFreed
<1> QED
    BY <1>1, <1>2, <1>3, <1>4, <1>5, <1>6, <1>7, <1>8 DEF Worker

(* Every step of the caller and of the workers keeps the invariant.        *)
LEMMA InvStep == Inv /\ [AsyncNext]_asyncVars => Inv'
<1> SUFFICES ASSUME Inv, [AsyncNext]_asyncVars PROVE Inv'
    OBVIOUS
<1>1. AsyncTypeOK'
    BY TypeStep DEF Inv
<1>2. CASE AsyncNext
    BY <1>1, <1>2, CallerStep, WorkerStep DEF AsyncNext
<1>3. CASE UNCHANGED asyncVars
    BY <1>3 DEF Inv, AsyncTypeOK, LockInv, RetInv, GotInv, Made, Settled,
                UseAfterFreeOnlyIfDropped, asyncVars, Results, Stages
<1> QED
    BY <1>2, <1>3

(* No handle has been made.                                                *)
LEMMA InvInit == AsyncInit => Inv
BY AsyncAssumption DEF AsyncInit, Inv, AsyncTypeOK, LockInv, RetInv, GotInv, Made, Settled,
   UseAfterFreeOnlyIfDropped, Results, Stages

(* The invariant holds throughout.                                         *)
THEOREM Invariant == AsyncSpec => []Inv
<1>1. AsyncInit => Inv
    BY InvInit
<1>2. Inv /\ [AsyncNext]_asyncVars => Inv'
    BY InvStep
<1> QED
    BY <1>1, <1>2, PTL DEF AsyncSpec

-----------------------------------------------------------------------------
(* Every state of async threads has the types of AsyncTypeOK.              *)
THEOREM TypeCorrect == AsyncSpec => []AsyncTypeOK
<1>1. Inv => AsyncTypeOK
    BY DEF Inv
<1> QED
    BY <1>1, Invariant, PTL

(* _thread_await returns what the worker's function ended with, whatever   *)
(* workers are cancelled or cleaned up and however pthread_t values are    *)
(* reused.                                                                 *)
THEOREM AwaitCorrect == AsyncSpec => []AwaitGivesResult
<1>1. Inv => AwaitGivesResult
    BY DEF Inv, LockInv, GotInv, Made, Settled, AwaitGivesResult
<1> QED
    BY <1>1, Invariant, PTL

(* _thread_clean on an awaited handle frees nothing that is still in use.  *)
THEOREM CleanAfterAwaitSafe == AsyncSpec => []UseAfterFreeOnlyIfDropped
<1>1. Inv => UseAfterFreeOnlyIfDropped
    BY DEF Inv
<1> QED
    BY <1>1, Invariant, PTL
=============================================================================
