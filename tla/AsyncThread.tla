---------------------------- MODULE AsyncThread -----------------------------
(***************************************************************************)
(* llib.thread.async of thread.c: a Lua function run by a detached pthread *)
(* in a Lua state of its own, and the handle through which the thread that *)
(* started it awaits its result, closes it or cleans it up (by hand or     *)
(* through __gc).                                                          *)
(*                                                                         *)
(* One caller owns all handles; each handle has one worker.  A struct      *)
(* thread_info, its mutex and its Lua state are made and freed together    *)
(* and are one entry of `info'.  pthread_t values are the members of Tids: *)
(* the C library gives the value of a detached thread that has ended to    *)
(* the next thread it creates.                                             *)
(***************************************************************************)
EXTENDS Integers

CONSTANTS
    Handles,    \* handles, one for each call of async
    Tids,       \* pthread_t values
    Values,     \* what a worker may pass to res
    NoValue,    \* no value: return_count is 0
    Nobody,     \* no handle, no tid
    Unreturned, \* an await has not returned yet
    Uses        \* what the caller does with a handle, see below

\* await    waits for the worker's result
\* clean    frees a handle that has been awaited
\* drop     lets __gc free a handle that has not been awaited
\* close    asks for the worker to be cancelled
\* error    gives async a function that raises a Lua error
AllUses == {"await", "clean", "drop", "close", "error"}

ASSUME AsyncAssumption ==
    /\ Uses \subseteq AllUses
    /\ Nobody \notin Handles \cup Tids
    /\ Unreturned \notin Values \cup {NoValue}

VARIABLES
    info,       \* each struct thread_info: not made yet, live or freed
    lock,       \* info->lock: TRUE while locked
    done,       \* info->done: the lock has been taken by an await
    ret,        \* the values return_count counts on the worker's stack
    tid,        \* info->tid
    worker,     \* where each handle's worker is
    thread,     \* the worker that runs under a pthread_t value now
    cancelled,  \* cancellation of the worker has been requested
    awaiting,   \* the handle whose await blocks the caller
    sent,       \* what the worker's function ended with
    got,        \* what the last await of a handle returned
    process     \* it runs, has used freed memory ("wild"), has aborted

asyncVars == <<info, lock, done, ret, tid, worker, thread, cancelled, awaiting,
          sent, got, process>>

\* A worker is created, runs its function, is about to unlock, has unlocked,
\* has ended.
Stages == {"none", "created", "running", "result", "unlocked", "ended"}

Results == Values \cup {NoValue}

\* One type invariant.
AsyncTypeOK ==
    /\ info \in [Handles -> {"none", "live", "freed"}]
    /\ lock \in [Handles -> BOOLEAN]
    /\ done \in [Handles -> BOOLEAN]
    /\ ret \in [Handles -> Results]
    /\ tid \in [Handles -> Tids \cup {Nobody}]
    /\ worker \in [Handles -> Stages]
    /\ thread \in [Tids -> Handles \cup {Nobody}]
    /\ cancelled \in [Handles -> BOOLEAN]
    /\ awaiting \in Handles \cup {Nobody}
    /\ sent \in [Handles -> Results \cup {Unreturned}]
    /\ got \in [Handles -> Results \cup {Unreturned}]
    /\ process \in {"runs", "wild", "aborted"}

AsyncInit ==
    /\ info = [h \in Handles |-> "none"]
    /\ lock = [h \in Handles |-> FALSE]
    /\ done = [h \in Handles |-> FALSE]
    /\ ret = [h \in Handles |-> NoValue]
    /\ tid = [h \in Handles |-> Nobody]
    /\ worker = [h \in Handles |-> "none"]
    /\ thread = [x \in Tids |-> Nobody]
    /\ cancelled = [h \in Handles |-> FALSE]
    /\ awaiting = Nobody
    /\ sent = [h \in Handles |-> Unreturned]
    /\ got = [h \in Handles |-> Unreturned]
    /\ process = "runs"

-----------------------------------------------------------------------------
(* The caller.  It is free when no await blocks it.                        *)
Free == awaiting = Nobody /\ process = "runs"

\* pthread_cancel: the request goes to whichever thread has this pthread_t
\* now.  For a detached thread that has ended, and whose value is not in use
\* again, it does nothing.
PthreadCancel(x) ==
    cancelled' = IF x \in Tids /\ thread[x] # Nobody
                 THEN [cancelled EXCEPT ![thread[x]] = TRUE]
                 ELSE cancelled

\* Mutant: return_count is not initialised.
AsyncGarbage(h, x) ==
    /\ Free
    /\ info[h] = "none"
    /\ thread[x] = Nobody
    /\ info' = [info EXCEPT ![h] = "live"]
    /\ lock' = [lock EXCEPT ![h] = TRUE]
    /\ ret' = [ret EXCEPT ![h] = Nobody]
    /\ tid' = [tid EXCEPT ![h] = x]
    /\ thread' = [thread EXCEPT ![x] = h]
    /\ worker' = [worker EXCEPT ![h] = "created"]
    /\ UNCHANGED <<done, cancelled, awaiting, sent, got, process>>

\* l_async: return_count is 0, and the lock is locked before the thread exists.
Async(h, x) ==
    /\ Free
    /\ info[h] = "none"
    /\ thread[x] = Nobody
    /\ info' = [info EXCEPT ![h] = "live"]
    /\ lock' = [lock EXCEPT ![h] = TRUE]
    /\ ret' = [ret EXCEPT ![h] = NoValue]
    /\ tid' = [tid EXCEPT ![h] = x]
    /\ thread' = [thread EXCEPT ![x] = h]
    /\ worker' = [worker EXCEPT ![h] = "created"]
    /\ UNCHANGED <<done, cancelled, awaiting, sent, got, process>>

\* _thread_await on a thread whose lock the caller does not have yet.
AwaitCall(h) ==
    /\ Free
    /\ "await" \in Uses
    /\ info[h] = "live"
    /\ ~done[h]
    /\ awaiting' = h
    /\ UNCHANGED <<info, lock, done, ret, tid, worker, thread, cancelled, sent, got, process>>

\* Mutant: the result is read without waiting for the lock.
AwaitReturnAtOnce(h) ==
    /\ awaiting = h
    /\ process = "runs"
    /\ lock' = [lock EXCEPT ![h] = TRUE]
    /\ done' = [done EXCEPT ![h] = TRUE]
    /\ got' = [got EXCEPT ![h] = ret[h]]
    /\ awaiting' = Nobody
    /\ UNCHANGED <<info, ret, tid, worker, thread, cancelled, sent, process>>

\* pthread_mutex_lock returns and the results are copied: exactly, as long as no
\* earlier worker has given the caller a table that was at the same address as
\* one of them (luaI_deepcopy; module DeepCopy has that case).
AwaitReturn(h) ==
    /\ awaiting = h
    /\ process = "runs"
    /\ ~lock[h]
    /\ lock' = [lock EXCEPT ![h] = TRUE]
    /\ done' = [done EXCEPT ![h] = TRUE]
    /\ got' = [got EXCEPT ![h] = ret[h]]
    /\ awaiting' = Nobody
    /\ UNCHANGED <<info, ret, tid, worker, thread, cancelled, sent, process>>

\* A second _thread_await: done is set, the results are copied once more.
AwaitAgain(h) ==
    /\ Free
    /\ "await" \in Uses
    /\ info[h] = "live"
    /\ done[h]
    /\ got' = [got EXCEPT ![h] = ret[h]]
    /\ UNCHANGED <<info, lock, done, ret, tid, worker, thread, cancelled, awaiting, sent, process>>

\* The caller may give up a handle that has been awaited, or any handle.
MayClean(h) ==
    \/ "clean" \in Uses /\ done[h]
    \/ "drop" \in Uses

\* _thread_clean, called by name or as __gc.  The second call finds NULL.
Clean(h) ==
    /\ Free
    /\ info[h] = "live"
    /\ MayClean(h)
    /\ info' = [info EXCEPT ![h] = "freed"]
    /\ PthreadCancel(tid[h])
    /\ UNCHANGED <<lock, done, ret, tid, worker, thread, awaiting, sent, got, process>>

\* _thread_close.
Close(h) ==
    /\ Free
    /\ "close" \in Uses
    /\ info[h] = "live"
    /\ PthreadCancel(tid[h])
    /\ UNCHANGED <<info, lock, done, ret, tid, worker, thread, awaiting, sent, got, process>>

-----------------------------------------------------------------------------
(* The worker.  Until it has unlocked it uses its info and its Lua state.  *)

\* The worker's memory is still there.
Alive(h) == process = "runs" /\ info[h] = "live"

\* handle_thread up to lua_call.
Start(h) ==
    /\ worker[h] = "created"
    /\ Alive(h)
    /\ worker' = [worker EXCEPT ![h] = "running"]
    /\ UNCHANGED <<info, lock, done, ret, tid, thread, cancelled, awaiting, sent, got, process>>

\* The function calls res(v): return_count is set.
Res(h, v) ==
    /\ worker[h] = "running"
    /\ Alive(h)
    /\ ret' = [ret EXCEPT ![h] = v]
    /\ sent' = [sent EXCEPT ![h] = v]
    /\ worker' = [worker EXCEPT ![h] = "result"]
    /\ UNCHANGED <<info, lock, done, tid, thread, cancelled, awaiting, got, process>>

\* The function returns without having called res.
Return(h) ==
    /\ worker[h] = "running"
    /\ Alive(h)
    /\ sent' = [sent EXCEPT ![h] = NoValue]
    /\ worker' = [worker EXCEPT ![h] = "result"]
    /\ UNCHANGED <<info, lock, done, ret, tid, thread, cancelled, awaiting, got, process>>

\* The function raises an error: lua_call is not protected, Lua panics.
Error(h) ==
    /\ worker[h] = "running"
    /\ Alive(h)
    /\ "error" \in Uses
    /\ process' = "aborted"
    /\ UNCHANGED <<info, lock, done, ret, tid, worker, thread, cancelled, awaiting, sent, got>>

\* Mutant: the function's end is not announced when it has no result.
UnlockOnlyRes(h) ==
    /\ worker[h] = "result"
    /\ Alive(h)
    /\ lock' = [lock EXCEPT ![h] = ret[h] = NoValue]
    /\ worker' = [worker EXCEPT ![h] = "unlocked"]
    /\ UNCHANGED <<info, done, ret, tid, thread, cancelled, awaiting, sent, got, process>>

\* pthread_mutex_unlock(info->lock), the worker's last use of its info.
Unlock(h) ==
    /\ worker[h] = "result"
    /\ Alive(h)
    /\ lock' = [lock EXCEPT ![h] = FALSE]
    /\ worker' = [worker EXCEPT ![h] = "unlocked"]
    /\ UNCHANGED <<info, done, ret, tid, thread, cancelled, awaiting, sent, got, process>>

\* The thread ends: its pthread_t may be given to another one.
End(h) ==
    /\ process = "runs"
    /\ worker' = [worker EXCEPT ![h] = "ended"]
    /\ thread' = [thread EXCEPT ![tid[h]] = Nobody]
    /\ UNCHANGED <<info, lock, done, ret, tid, cancelled, awaiting, sent, got, process>>

\* pthread_exit, or handle_thread returns.
Exit(h) == worker[h] = "unlocked" /\ End(h)

\* A cancellation takes effect: handle_thread has made itself cancellable at
\* any point, so whatever is left of the worker's work is not done.
Die(h) ==
    /\ worker[h] \in {"running", "result", "unlocked"}
    /\ cancelled[h]
    /\ End(h)

\* A worker goes on although its info and its Lua state have been freed.
UseFreed(h) ==
    /\ worker[h] \in {"created", "running", "result"}
    /\ info[h] = "freed"
    /\ process = "runs"
    /\ process' = "wild"
    /\ UNCHANGED <<info, lock, done, ret, tid, worker, thread, cancelled, awaiting, sent, got>>

-----------------------------------------------------------------------------
Caller(h) ==
    \/ \E x \in Tids : Async(h, x)
    \/ AwaitCall(h) \/ AwaitReturn(h) \/ AwaitAgain(h)
    \/ Clean(h) \/ Close(h)

Worker(h) ==
    \/ Start(h) \/ \E v \in Values : Res(h, v)
    \/ Return(h) \/ Error(h) \/ Unlock(h) \/ Exit(h) \/ Die(h) \/ UseFreed(h)

AsyncNext == \E h \in Handles : Caller(h) \/ Worker(h)

AsyncSpec == AsyncInit /\ [][AsyncNext]_asyncVars

\* Worker functions end, and an await goes on once it has the lock.
AsyncFairness == \A h \in Handles : WF_asyncVars(Worker(h)) /\ WF_asyncVars(AwaitReturn(h))

AsyncFairSpec == AsyncSpec /\ AsyncFairness

-----------------------------------------------------------------------------
(* What await returns is what the worker's function ended with: the value  *)
(* passed to res, or nothing when it returned without calling res.  Holds  *)
(* whenever the worker is scheduled, cancelled or cleaned up.              *)
AwaitGivesResult == \A h \in Handles : got[h] # Unreturned => got[h] = sent[h]

(* Freed memory is used only where a handle was given up that had not been *)
(* awaited: after an await the worker may still run, but it has no use     *)
(* left for the memory that clean frees.                                   *)
UseAfterFreeOnlyIfDropped ==
    process = "wild" => \E h \in Handles : info[h] = "freed" /\ ~done[h]

(* A blocked await returns (docs/thread.md: it waits for the thread to     *)
(* return, and returns whatever it returned).                              *)
AwaitReturns == \A h \in Handles : awaiting = h ~> awaiting = Nobody

\* The cancellation of a worker whose own handle is still in use.
StrayCancel == \E h \in Handles : cancelled[h] /\ info[h] = "live"

(* What the code achieves of it: awaits return in a run in which           *)
(* pthread_cancel never reaches a worker whose own handle is in use and no *)
(* worker uses freed memory or raises an error.                            *)
AwaitReturnsUnlessCancelled == [](~StrayCancel /\ process = "runs") => AwaitReturns
=============================================================================
