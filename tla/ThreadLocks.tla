---------------------------- MODULE ThreadLocks -----------------------------
(***************************************************************************)
(* llib.thread.lock(id) and unlock(id) of thread.c: mutexes that are made  *)
(* on first use and kept, by id, in the larray thread_locks.               *)
(*                                                                         *)
(* l_tlock and l_tunlock are split where a thread may block: at            *)
(* thread_lock_lock (here lock_lock, guards the table), at                 *)
(* thread_priority_lock (here priority_lock, held by the one thread that   *)
(* waits for an id's mutex) and at the mutex itself.  What a thread does   *)
(* while it holds lock_lock and does not block is one step, but for the    *)
(* larray_set, which runs as in LArraySet on the table thread_locks.  A    *)
(* table that has not been made yet is taken for an empty one.             *)
(***************************************************************************)
EXTENDS LArraySet

CONSTANTS
    Threads,
    Ids,        \* the lock ids used, a set of naturals
    MaxLocks,   \* bound: calls of lock made by each thread, [Threads -> Nat]
    None        \* not a thread

ASSUME ThreadLocksAssumption ==
    /\ Ids \subseteq Nat /\ Ids # {}
    /\ None \notin Threads
    /\ MaxLocks \in [Threads -> Nat]

VARIABLES
    pc,             \* where each thread is
    arg,            \* the id of its call
    saved,          \* l_tlock's i and m, kept across the unlocked wait
    lock_lock,      \* owner of thread_lock_lock
    priority_lock,  \* owner of thread_priority_lock
    mutexes,        \* owner of each mutex allocated so far
    holds,          \* the ids each thread has locked and not yet unlocked
    calls           \* lock calls made so far

vars == <<pc, arg, saved, lock_lock, priority_lock, mutexes, holds, calls, setVars>>

\* The lines of l_tlock and l_tunlock at which a thread may stand.
Lines == {"idle", "tlock", "tlock:set", "tlock:priority", "tlock:mutex",
          "tlock:retake", "tunlock"}

\* A thread there keeps an index into the table and a mutex.
WaitLines == {"tlock:priority", "tlock:mutex", "tlock:retake"}

\* The table from ids to mutexes.
thread_locks == Outer

Owners == Threads \cup {None}
Mutex == DOMAIN mutexes

\* The slots that are used name mutexes.
NamesMutexes(l) ==
    \A i \in DOMAIN l.arr : l.arr[i].used => l.arr[i].value \in Mutex

\* One type invariant: locals, owners and tables hold what they may; the index
\* that a waiting thread keeps stays inside the table.
TypeOK ==
    /\ pc \in [Threads -> Lines]
    /\ arg \in [Threads -> Ids]
    /\ saved \in [Threads -> [i : Nat, m : Nat]]
    /\ \A t \in Threads : pc[t] \in WaitLines =>
          saved[t].i \in DOMAIN thread_locks.arr /\ saved[t].m \in Mutex
    /\ {lock_lock, priority_lock} \subseteq Owners
    /\ mutexes \in Seq(Owners)
    /\ NamesMutexes(table)
    /\ \A j \in DOMAIN stack : NamesMutexes(stack[j].table)
    /\ holds \in [Threads -> SUBSET Ids]
    /\ calls \in [Threads -> Nat]
    /\ \A t \in Threads : calls[t] =< MaxLocks[t]

Init ==
    /\ SetInit
    /\ pc = [t \in Threads |-> "idle"]
    /\ arg = [t \in Threads |-> CHOOSE id \in Ids : TRUE]
    /\ saved = [t \in Threads |-> [i |-> 0, m |-> 0]]
    /\ lock_lock = None
    /\ priority_lock = None
    /\ mutexes = <<>>
    /\ holds = [t \in Threads |-> {}]
    /\ calls = [t \in Threads |-> 0]

-----------------------------------------------------------------------------
\* larray_geti as l_tlock and l_tunlock call it.
SlotOf(id) == larray_geti(thread_locks, id)

\* The mutex that the table names for id.
MutexOf(id) == thread_locks.arr[SlotOf(id)].value

\* A thread locks an id it has not locked (the mutexes are not recursive).
TLockCall(t, id) ==
    /\ pc[t] = "idle"
    /\ id \notin holds[t]
    /\ calls[t] < MaxLocks[t]
    /\ calls' = [calls EXCEPT ![t] = @ + 1]
    /\ pc' = [pc EXCEPT ![t] = "tlock"]
    /\ arg' = [arg EXCEPT ![t] = id]
    /\ UNCHANGED <<saved, lock_lock, priority_lock, mutexes, holds, setVars>>

\* Mutant: the new mutex is not locked before it is shared.
TLockNewUnlocked(t) ==
    /\ pc[t] = "tlock"
    /\ lock_lock = None
    /\ SlotOf(arg[t]) = -1
    /\ mutexes' = Append(mutexes, None)
    /\ SetCall(arg[t], Len(mutexes) + 1)
    /\ lock_lock' = t
    /\ pc' = [pc EXCEPT ![t] = "tlock:set"]
    /\ UNCHANGED <<arg, saved, priority_lock, holds, calls>>

\* The id is new: its mutex is made, locked, and larray_set is called.
TLockNew(t) ==
    /\ pc[t] = "tlock"
    /\ lock_lock = None
    /\ SlotOf(arg[t]) = -1
    /\ mutexes' = Append(mutexes, t)
    /\ SetCall(arg[t], Len(mutexes) + 1)
    /\ lock_lock' = t
    /\ pc' = [pc EXCEPT ![t] = "tlock:set"]
    /\ UNCHANGED <<arg, saved, priority_lock, holds, calls>>

\* A step of its larray_set.
TLockSet(t) ==
    /\ pc[t] = "tlock:set"
    /\ SetStep
    /\ UNCHANGED <<pc, arg, saved, lock_lock, priority_lock, mutexes, holds, calls>>

\* The new mutex is in the table.
TLockMade(t) ==
    /\ pc[t] = "tlock:set"
    /\ at = "idle"
    /\ lock_lock' = None
    /\ holds' = [holds EXCEPT ![t] = @ \cup {arg[t]}]
    /\ pc' = [pc EXCEPT ![t] = "idle"]
    /\ UNCHANGED <<arg, saved, priority_lock, mutexes, calls, setVars>>

\* The id is known: i and m are read, and lock_lock stays locked while the
\* thread waits for its turn to wait.
TLockFound(t) ==
    /\ pc[t] = "tlock"
    /\ lock_lock = None
    /\ SlotOf(arg[t]) # -1
    /\ saved' = [saved EXCEPT ![t] = [i |-> SlotOf(arg[t]), m |-> MutexOf(arg[t])]]
    /\ lock_lock' = t
    /\ pc' = [pc EXCEPT ![t] = "tlock:priority"]
    /\ UNCHANGED <<arg, priority_lock, mutexes, holds, calls, setVars>>

\* Mutant: the table stays locked while the thread waits for the mutex.
TLockPriorityKeepsTable(t) ==
    /\ pc[t] = "tlock:priority"
    /\ priority_lock = None
    /\ priority_lock' = t
    /\ pc' = [pc EXCEPT ![t] = "tlock:mutex"]
    /\ UNCHANGED <<arg, saved, lock_lock, mutexes, holds, calls, setVars>>

\* The one thread that may wait for a mutex gives the table free.
TLockPriority(t) ==
    /\ pc[t] = "tlock:priority"
    /\ priority_lock = None
    /\ priority_lock' = t
    /\ lock_lock' = None
    /\ pc' = [pc EXCEPT ![t] = "tlock:mutex"]
    /\ UNCHANGED <<arg, saved, mutexes, holds, calls, setVars>>

\* Mutant: the mutex is taken without waiting for its owner.
TLockMutexBarging(t) ==
    /\ pc[t] = "tlock:mutex"
    /\ mutexes' = [mutexes EXCEPT ![saved[t].m] = t]
    /\ pc' = [pc EXCEPT ![t] = "tlock:retake"]
    /\ UNCHANGED <<arg, saved, lock_lock, priority_lock, holds, calls, setVars>>

TLockMutex(t) ==
    /\ pc[t] = "tlock:mutex"
    /\ mutexes[saved[t].m] = None
    /\ mutexes' = [mutexes EXCEPT ![saved[t].m] = t]
    /\ pc' = [pc EXCEPT ![t] = "tlock:retake"]
    /\ UNCHANGED <<arg, saved, lock_lock, priority_lock, holds, calls, setVars>>

\* Mutant: the index, not the mutex, is put back into the table.
TLockRetakeStoresIndex(t) ==
    /\ pc[t] = "tlock:retake"
    /\ lock_lock = None
    /\ priority_lock' = None
    /\ table' = [table EXCEPT !.arr[saved[t].i].value = saved[t].i]
    /\ holds' = [holds EXCEPT ![t] = @ \cup {arg[t]}]
    /\ pc' = [pc EXCEPT ![t] = "idle"]
    /\ UNCHANGED <<arg, saved, lock_lock, mutexes, calls, stack, call, at>>

\* The thread owns the mutex and takes lock_lock again to put m back into
\* slot i, which may by now belong to another id.
TLockRetake(t) ==
    /\ pc[t] = "tlock:retake"
    /\ lock_lock = None
    /\ priority_lock' = None
    /\ table' = [table EXCEPT !.arr[saved[t].i].value = saved[t].m]
    /\ holds' = [holds EXCEPT ![t] = @ \cup {arg[t]}]
    /\ pc' = [pc EXCEPT ![t] = "idle"]
    /\ UNCHANGED <<arg, saved, lock_lock, mutexes, calls, stack, call, at>>

\* A thread unlocks an id it has locked.
TUnlockCall(t, id) ==
    /\ pc[t] = "idle"
    /\ id \in holds[t]
    /\ pc' = [pc EXCEPT ![t] = "tunlock"]
    /\ arg' = [arg EXCEPT ![t] = id]
    /\ UNCHANGED <<saved, lock_lock, priority_lock, mutexes, holds, calls, setVars>>

TUnlock(t) ==
    /\ pc[t] = "tunlock"
    /\ lock_lock = None
    /\ mutexes' = IF SlotOf(arg[t]) = -1 THEN mutexes
                  ELSE [mutexes EXCEPT ![MutexOf(arg[t])] = None]
    /\ holds' = [holds EXCEPT ![t] = @ \ {arg[t]}]
    /\ pc' = [pc EXCEPT ![t] = "idle"]
    /\ UNCHANGED <<arg, saved, lock_lock, priority_lock, calls, setVars>>

-----------------------------------------------------------------------------
\* The steps of a thread inside l_tlock or l_tunlock.
Inside(t) ==
    \/ TLockNew(t) \/ TLockSet(t) \/ TLockMade(t)
    \/ TLockFound(t) \/ TLockPriority(t) \/ TLockMutex(t) \/ TLockRetake(t) \/ TUnlock(t)

Next ==
    \E t \in Threads :
        \/ Inside(t)
        \/ \E id \in Ids : TLockCall(t, id) \/ TUnlockCall(t, id)

Spec == Init /\ [][Next]_vars

\* A thread runs on inside the library unless it is blocked, and programs
\* unlock what they have locked.
Fairness ==
    \A t \in Threads :
        WF_vars(Inside(t)) /\ WF_vars(\E id \in Ids : TUnlockCall(t, id))

FairSpec == Spec /\ Fairness

-----------------------------------------------------------------------------
(* No two threads are between lock(id) and unlock(id) of the same id:      *)
(* what the lock is for, across the step in which l_tlock waits without    *)
(* lock_lock and then writes to the table by an index read before.         *)
MutualExclusion ==
    \A t, u \in Threads : t # u => holds[t] \cap holds[u] = {}

(* The mutex the table names for a locked id is owned by the thread that   *)
(* locked the id: the unlock to come opens the right mutex.                *)
HolderOwnsMutex ==
    \A t \in Threads : \A id \in holds[t] :
        SlotOf(id) # -1 /\ mutexes[MutexOf(id)] = t

\* No table is copied while a thread waits for a mutex and keeps an index.
CopiesUnwatched ==
    stack # <<>> => \A t \in Threads : pc[t] \notin {"tlock:mutex", "tlock:retake"}

(* As long as no id is added to a table that has to grow while a thread    *)
(* waits, the ids are locked exclusively, whichever ids share slots and    *)
(* however often the table grows at other times.                           *)
ExclusiveUnlessCopied == []CopiesUnwatched => []MutualExclusion

(* In the same runs every unlock opens the mutex of the thread that calls  *)
(* it.                                                                     *)
OwnedUnlessCopied == []CopiesUnwatched => []HolderOwnsMutex

(* Every call of lock returns, given that every thread unlocks the ids it  *)
(* has locked: docs/thread.md, an id is locked for the others only until   *)
(* the corresponding unlock is met.                                        *)
LockReturns ==
    \A t \in Threads : pc[t] = "tlock" ~> pc[t] = "idle"

\* The threads that have found their id in the table and wait in l_tlock.
Waiting == {t \in Threads : pc[t] \in WaitLines}

(* What the code achieves of it: every call of lock returns in a run in    *)
(* which never two threads wait in l_tlock at the same time, for the same  *)
(* id or for different ones, and the table does not grow meanwhile.        *)
LockReturnsToSoleWaiter ==
    [](Cardinality(Waiting) =< 1 /\ CopiesUnwatched) => LockReturns
=============================================================================
