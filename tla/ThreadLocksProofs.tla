------------------------- MODULE ThreadLocksProofs --------------------------
(***************************************************************************)
(* The locks of thread.c for any threads, ids and calls, tables of every   *)
(* size and every probe limit.                                             *)
(***************************************************************************)
EXTENDS ThreadLocks, LArraySetProofs

\* What the slots of the tables may hold.
Pointers == Nat \cup {NULL}
LockItems(M) == {s \in [used : BOOLEAN, idx : Nat, value : Pointers] : s.used => s.value \in M}

LocalsTyped ==
    /\ pc \in [Threads -> Lines]
    /\ arg \in [Threads -> Ids]
    /\ saved \in [Threads -> [i : Nat, m : Nat]]
    /\ lock_lock \in Owners /\ priority_lock \in Owners
    /\ mutexes \in Seq(Owners)
    /\ holds \in [Threads -> SUBSET Ids]
    /\ calls \in [Threads -> Nat]
    /\ \A t \in Threads : calls[t] =< MaxLocks[t]

TablesTyped == SetInv(Pointers) /\ AllSlotsIn(LockItems(Mutex))

\* The lines between the lock and the unlock of thread_lock_lock.
TableLines == {"tlock:set", "tlock:priority"}

\* The table is locked on these lines, and larray_set runs on one of them.
TableLocked ==
    /\ \A t \in Threads : lock_lock = t <=> pc[t] \in TableLines
    /\ at # "idle" => call.value \in Mutex /\ \E t \in Threads : pc[t] = "tlock:set"

\* What a waiting thread keeps.
WaitsTyped ==
    \A t \in Threads : pc[t] \in WaitLines =>
        saved[t].i \in Slots(thread_locks) /\ saved[t].m \in Mutex

TypeInv == LocalsTyped /\ TablesTyped /\ TableLocked /\ WaitsTyped

-----------------------------------------------------------------------------
\* The lines on which a thread is the one that waits for a mutex.
PriorityLines == {"tlock:mutex", "tlock:retake"}
LockLines == {"tlock", "tlock:set", "tlock:priority", "tlock:mutex", "tlock:retake"}

WaitersAlone == \A t \in Threads : priority_lock = t <=> pc[t] \in PriorityLines

\* The index that a waiting thread keeps is the slot of its id and mutex.
WaitersFindSlot ==
    \A t \in Threads : pc[t] \in WaitLines =>
        /\ saved[t].i \in UsedSlots(thread_locks)
        /\ thread_locks.arr[saved[t].i].idx = arg[t]
        /\ thread_locks.arr[saved[t].i].value = saved[t].m

\* No mutex has two ids.
MutexesUnshared ==
    \A c, d \in Contents(thread_locks) : c[2] = d[2] => c[1] = d[1]

\* The mutex that l_tlock has made: new to the table until larray_set ends.
NewMutex ==
    \A t \in Threads : pc[t] = "tlock:set" =>
        /\ call.idx = arg[t] /\ call.value \in Mutex /\ mutexes[call.value] = t
        /\ at # "idle" => \A c \in Contents(thread_locks) : c[1] # call.idx /\ c[2] # call.value
        /\ at = "idle" => <<call.idx, call.value>> \in Contents(thread_locks)

\* A locked id is in the table, with a mutex that its thread owns.
HoldersOwn ==
    \A t \in Threads : \A id \in holds[t] :
        \E m \in Mutex : <<id, m>> \in Contents(thread_locks) /\ mutexes[m] = t

\* A thread owns the mutex that it has waited for.
RetakersOwn == \A t \in Threads : pc[t] = "tlock:retake" => mutexes[saved[t].m] = t

\* lock is called for ids that are not locked, unlock for those that are.
CallsPaired ==
    \A t \in Threads : /\ pc[t] \in LockLines => arg[t] \notin holds[t]
                       /\ pc[t] = "tunlock" => arg[t] \in holds[t]

LockInv ==
    /\ WaitersAlone /\ WaitersFindSlot /\ MutexesUnshared /\ NewMutex
    /\ HoldersOwn /\ RetakersOwn /\ CallsPaired

-----------------------------------------------------------------------------
(* The tables.                                                             *)

(* Mutexes are numbered in the order of their allocation.                  *)
LEMMA MutexNumbers ==
    ASSUME LocalsTyped
    PROVE  /\ Len(mutexes) \in Nat /\ Mutex = 1 .. Len(mutexes) /\ Mutex \subseteq Nat
           /\ mutexes \in [Mutex -> Owners]
<1>1. Len(mutexes) \in Nat /\ Mutex = 1 .. Len(mutexes) /\ mutexes \in [Mutex -> Owners]
    BY LenProperties DEF LocalsTyped, Mutex
<1> QED
    BY <1>1

(* The table of ids is sound and names allocated mutexes.                  *)
LEMMA OuterItems ==
    ASSUME TablesTyped
    PROVE  /\ Typed(thread_locks, Pointers) /\ Sound(thread_locks)
           /\ SlotsIn(thread_locks, LockItems(Mutex))
<1>1. Typed(Outer, Pointers) /\ Sound(Outer)
    BY OuterTyped DEF TablesTyped
<1>2. CASE stack = <<>>
    BY <1>1, <1>2 DEF thread_locks, Outer, TablesTyped, AllSlotsIn
<1>3. CASE stack # <<>>
    <2>1. 1 \in 1 .. Len(stack)
        BY <1>3, StackTyped DEF TablesTyped
    <2> QED
        BY <1>1, <1>3, <2>1 DEF thread_locks, Outer, TablesTyped, AllSlotsIn
<1> QED
    BY <1>2, <1>3

(* Who has thread_lock_lock runs no larray_set but its own.                *)
LEMMA TableIdle ==
    ASSUME TypeInv, lock_lock = None
    PROVE  at = "idle" /\ stack = <<>> /\ thread_locks = table
<1>1. ASSUME at # "idle" PROVE FALSE
    BY <1>1, ThreadLocksAssumption DEF TypeInv, TableLocked, TableLines
<1>2. stack = <<>>
    BY <1>1 DEF TypeInv, TablesTyped, SetInv
<1> QED
    BY <1>1, <1>2 DEF thread_locks, Outer

(* An id that larray_geti finds has a mutex.                               *)
LEMMA SlotFound ==
    ASSUME LocalsTyped, TablesTyped, NEW id \in Ids, SlotOf(id) # -1
    PROVE  /\ SlotOf(id) \in UsedSlots(thread_locks) /\ SlotOf(id) \in Slots(thread_locks)
           /\ thread_locks.arr[SlotOf(id)].idx = id
           /\ MutexOf(id) \in Mutex
           /\ <<id, MutexOf(id)>> \in Contents(thread_locks)
<1>1. id \in Nat
    BY ThreadLocksAssumption
<1>2. /\ Typed(thread_locks, Pointers)
      /\ SlotsIn(thread_locks, LockItems(Mutex))
    BY OuterItems
<1>3. /\ SlotOf(id) \in UsedSlots(thread_locks)
      /\ thread_locks.arr[SlotOf(id)].idx = id
    BY <1>1, <1>2, GetiReturns DEF SlotOf
<1>4. SlotOf(id) \in Slots(thread_locks) /\ thread_locks.arr[SlotOf(id)].used
    BY <1>3 DEF UsedSlots
<1>5. MutexOf(id) \in Mutex
    BY <1>2, <1>4 DEF SlotsIn, LockItems, MutexOf
<1>6. <<id, MutexOf(id)>> \in Contents(thread_locks)
    BY <1>3 DEF Contents, MutexOf
<1> QED
    BY <1>3, <1>4, <1>5, <1>6

\* The assignment to a slot's pointer with which l_tlock ends.
Rewritten(l, i, m) == [l EXCEPT !.arr[i].value = m]

(* Writing a pointer by an index changes no other slot and no key.         *)
LEMMA RewriteSlot ==
    ASSUME NEW V, NEW l, Typed(l, V), NEW i \in Slots(l), NEW m \in V,
           NEW n, n = Rewritten(l, i, m)
    PROVE  /\ Typed(n, V) /\ n.size = l.size /\ n.len = l.len
           /\ \A k \in Slots(l) :
                 n.arr[k] = IF k = i THEN [used |-> l.arr[i].used, idx |-> l.arr[i].idx, value |-> m]
                                     ELSE l.arr[k]
           /\ Sound(l) => Sound(n)
<1> DEFINE item == [used |-> l.arr[i].used, idx |-> l.arr[i].idx, value |-> m]
           I == [used : BOOLEAN, idx : Nat, value : V]
           arr == [l.arr EXCEPT ![i] = item]
<1>1. l \in [size : Nat \ {0}, len : Nat, arr : [Slots(l) -> I]]
    BY DEF Typed
<1>2. item \in I /\ l.arr[i] \in I
    BY <1>1
<1>3. [l.arr[i] EXCEPT !.value = m] = item
    BY <1>2
<1>4. n = [l EXCEPT !.arr = [l.arr EXCEPT ![i] = [l.arr[i] EXCEPT !.value = m]]]
    BY DEF Rewritten
<1>5. n = [l EXCEPT !.arr = arr]
    BY <1>3, <1>4
<1>0. arr \in [Slots(l) -> I] /\ \A k \in Slots(l) : arr[k] = IF k = i THEN item ELSE l.arr[k]
    BY <1>1, <1>2
<1>c. item.used = l.arr[i].used /\ item.idx = l.arr[i].idx
    OBVIOUS
<1> HIDE DEF arr, I, item
<1>6. n.size = l.size /\ n.len = l.len /\ n.arr = arr
          /\ n \in [size : Nat \ {0}, len : Nat, arr : [Slots(l) -> I]]
    BY <1>0, <1>1, <1>5
<1>7. Slots(n) = Slots(l)
    BY <1>6 DEF Slots
<1>8. Typed(n, V)
    BY <1>6, <1>7 DEF Typed, I
<1>9. UsedSlots(n) = UsedSlots(l)
    BY <1>0, <1>6, <1>7, <1>c DEF UsedSlots
<1>10. \A k \in Slots(l) : n.arr[k].used = l.arr[k].used /\ n.arr[k].idx = l.arr[k].idx
    BY <1>0, <1>6, <1>c
<1>11. ASSUME Sound(l) PROVE Sound(n)
    <2>1. ASSUME NEW k \in UsedSlots(n) PROVE PlacedAt(n, n.arr[k].idx, k)
        <3> DEFINE idx == l.arr[k].idx
        <3>1. k \in Slots(l) /\ n.arr[k].idx = idx /\ idx \in Nat
            BY <1>1, <1>9, <1>10 DEF UsedSlots, I
        <3>2. PICK d \in 0 .. l.size - 2 : Probe(l, idx, d) = k /\ Passes(l, idx, d)
            BY <1>9, <1>11 DEF Sound, PlacedAt
        <3>3. \A e \in Nat : Probe(n, idx, e) = Probe(l, idx, e)
            BY <1>6 DEF Probe
        <3>4. Passes(n, idx, d)
            <4> SUFFICES ASSUME NEW e \in 0 .. d - 1
                         PROVE  n.arr[Probe(n, idx, e)].used /\ n.arr[Probe(n, idx, e)].idx # idx
                BY DEF Passes
            <4>1. e \in 0 .. l.size - 1 /\ e \in Nat /\ l.size \in Nat \ {0}
                BY <1>1
            <4>2. Probe(l, idx, e) \in Slots(l)
                BY <3>1, <4>1, ProbeInTable DEF Slots
            <4>3. l.arr[Probe(l, idx, e)].used /\ l.arr[Probe(l, idx, e)].idx # idx
                BY <3>2 DEF Passes
            <4> QED
                BY <1>10, <3>3, <4>1, <4>2, <4>3
        <3> QED
            BY <1>6, <3>1, <3>2, <3>3, <3>4 DEF PlacedAt
    <2> QED
        BY <1>6, <1>9, <1>11, <2>1 DEF Sound
<1> QED
    BY <1>0, <1>6, <1>8, <1>11 DEF item

(* What the other steps leave of the tables.                               *)
LEMMA TablesKept ==
    ASSUME TablesTyped, UNCHANGED setVars, Mutex \subseteq Mutex'
    PROVE  TablesTyped' /\ thread_locks' = thread_locks
<1>1. SetInv(Pointers)'
    BY SetInvStutter DEF TablesTyped
<1>2. table' = table /\ stack' = stack
    BY DEF setVars
<1>3. LockItems(Mutex) \subseteq LockItems(Mutex')
    BY DEF LockItems
<1>4. AllSlotsIn(LockItems(Mutex))'
    BY <1>2, <1>3 DEF TablesTyped, AllSlotsIn, SlotsIn
<1> QED
    BY <1>1, <1>2, <1>4 DEF TablesTyped, thread_locks, Outer

-----------------------------------------------------------------------------
(* The types.                                                              *)

(* The table of ids is typed and sound.                                    *)
LEMMA OuterPointers ==
    SetInv(Pointers) => Typed(Outer, Pointers) /\ Sound(Outer)
BY OuterTyped

(* The same of the table after a step.                                     *)
LEMMA OuterTypedNext ==
    ASSUME SetInv(Pointers)'
    PROVE  Typed(Outer', Pointers) /\ Sound(Outer')
<1>1. (Typed(Outer, Pointers) /\ Sound(Outer))'
    BY OuterPointers, PTL
<1> QED
    BY <1>1

(* The type invariant holds at the start.                                  *)
LEMMA TypeInvInit ==
    Init => TypeInv
<1> SUFFICES ASSUME Init PROVE TypeInv
    OBVIOUS
<1>1. LocalsTyped
    <2>1. mutexes \in Seq(Owners)
        BY EmptySeq DEF Init
    <2> QED
        BY <2>1, ThreadLocksAssumption DEF Init, LocalsTyped, Lines, Owners
<1>2. SetInv(Pointers)
    BY SetInvInit DEF Init, Pointers
<1>3. AllSlotsIn(LockItems(Mutex))
    <2>1. SlotsIn(table, LockItems(Mutex))
        BY DEF Init, SetInit, larray_init, larray_initl, SlotsIn, Slots, Unused, LockItems, Pointers
    <2>2. Len(stack) = 0
        BY EmptySeq DEF Init, SetInit
    <2> QED
        BY <2>1, <2>2 DEF AllSlotsIn
<1>4. TableLocked /\ WaitsTyped
    BY ThreadLocksAssumption DEF Init, SetInit, TableLocked, WaitsTyped, TableLines, WaitLines
<1> QED
    BY <1>1, <1>2, <1>3, <1>4 DEF TypeInv, TablesTyped

(* Calls of lock and unlock keep the type invariant.                       *)
LEMMA TypeInvCall ==
    ASSUME TypeInv, NEW t \in Threads, NEW id \in Ids, TLockCall(t, id) \/ TUnlockCall(t, id)
    PROVE  TypeInv'
<1>1. /\ UNCHANGED <<saved, lock_lock, priority_lock, mutexes, holds, setVars>>
      /\ pc[t] = "idle"
      /\ pc' \in {[pc EXCEPT ![t] = "tlock"], [pc EXCEPT ![t] = "tunlock"]}
      /\ arg' = [arg EXCEPT ![t] = id]
    BY DEF TLockCall, TUnlockCall
<1>2. calls' \in [Threads -> Nat] /\ \A u \in Threads : calls'[u] =< MaxLocks[u]
    <2>1. calls \in [Threads -> Nat] /\ MaxLocks \in [Threads -> Nat]
            /\ \A u \in Threads : calls[u] =< MaxLocks[u]
        BY ThreadLocksAssumption DEF TypeInv, LocalsTyped
    <2>2. CASE TLockCall(t, id)
        <3>1. calls[t] < MaxLocks[t] /\ calls' = [calls EXCEPT ![t] = @ + 1]
            BY <2>2 DEF TLockCall
        <3> QED
            BY <2>1, <3>1
    <2>3. CASE TUnlockCall(t, id)
        BY <2>1, <2>3 DEF TUnlockCall
    <2> QED
        BY <2>2, <2>3
<1>3. LocalsTyped'
    BY <1>1, <1>2 DEF TypeInv, LocalsTyped, Lines, Owners
<1>4. TablesTyped' /\ thread_locks' = thread_locks
    BY <1>1, TablesKept DEF TypeInv, Mutex
<1>5. at' = at /\ call' = call
    BY <1>1 DEF setVars
<1>6. TableLocked' /\ WaitsTyped'
    BY <1>1, <1>4, <1>5 DEF TypeInv, LocalsTyped, TableLocked, WaitsTyped, TableLines, WaitLines, Mutex
<1> QED
    BY <1>3, <1>4, <1>6 DEF TypeInv

(* So does the allocation of a mutex for a new id,                         *)
LEMMA TypeInvNew ==
    ASSUME TypeInv, NEW t \in Threads, TLockNew(t)
    PROVE  TypeInv'
<1> DEFINE m == Len(mutexes) + 1
<1>0. LocalsTyped /\ TablesTyped
    BY DEF TypeInv
<1>1. /\ pc[t] = "tlock" /\ lock_lock = None /\ lock_lock' = t
      /\ pc' = [pc EXCEPT ![t] = "tlock:set"]
      /\ mutexes' = Append(mutexes, t)
      /\ SetCall(arg[t], m)
      /\ UNCHANGED <<arg, saved, priority_lock, holds, calls>>
    BY DEF TLockNew
<1>2. /\ Len(mutexes) \in Nat /\ Mutex = 1 .. Len(mutexes) /\ m \in Nat
      /\ mutexes \in Seq(Owners)
    BY <1>0, MutexNumbers DEF LocalsTyped
<1>3. /\ mutexes' \in Seq(Owners) /\ Len(mutexes') = m
    BY <1>1, <1>2, AppendProperties DEF Owners
<1>4. Mutex' = 1 .. m
    BY <1>3, LenProperties DEF Mutex
<1>5. m \in Mutex' /\ Mutex \subseteq Mutex'
    BY <1>2, <1>4
<1> HIDE DEF m
<1>6. LocalsTyped'
    BY <1>0, <1>1, <1>3 DEF LocalsTyped, Lines, Owners
<1>7. SetInv(Pointers)'
    <2>1. arg[t] \in Nat /\ m \in Pointers
        BY <1>0, <1>2, ThreadLocksAssumption DEF LocalsTyped, Pointers
    <2> QED
        BY <1>0, <1>1, <2>1, SetInvCall DEF TablesTyped
<1>8. table' = table /\ stack' = stack /\ thread_locks' = thread_locks
    BY <1>1 DEF SetCall, thread_locks, Outer
<1>9. AllSlotsIn(LockItems(Mutex))'
    <2>1. LockItems(Mutex) \subseteq LockItems(Mutex')
        BY <1>5 DEF LockItems
    <2> QED
        BY <1>0, <1>8, <2>1 DEF TablesTyped, AllSlotsIn, SlotsIn
<1>10. TableLocked'
    <2>1. call'.value = m
        BY <1>1 DEF SetCall
    <2> QED
        BY <1>0, <1>1, <1>5, <2>1, ThreadLocksAssumption DEF TypeInv, LocalsTyped, TableLocked, TableLines
<1>11. WaitsTyped'
    BY <1>0, <1>1, <1>5, <1>8 DEF TypeInv, LocalsTyped, WaitsTyped, WaitLines
<1> QED
    BY <1>6, <1>7, <1>9, <1>10, <1>11 DEF TypeInv, TablesTyped

(* a step of its larray_set,                                               *)
LEMMA TypeInvSet ==
    ASSUME TypeInv, NEW t \in Threads, TLockSet(t)
    PROVE  TypeInv'
<1>0. LocalsTyped /\ TablesTyped
    BY DEF TypeInv
<1>1. /\ pc[t] = "tlock:set" /\ SetStep
      /\ UNCHANGED <<pc, arg, saved, lock_lock, priority_lock, mutexes, holds, calls>>
    BY DEF TLockSet
<1>2. SetInv(Pointers) /\ NULL \in Pointers
    BY <1>0 DEF TablesTyped, Pointers
<1>3. call' = call /\ at # "idle" /\ Outer'.size >= Outer.size
    BY <1>1, <1>2, OuterStep
<1>4. call.value \in Mutex
    BY <1>3 DEF TypeInv, TableLocked
<1>5. SetInv(Pointers)'
    BY <1>1, <1>2, SetInvStep
<1>6. AllSlotsIn(LockItems(Mutex))'
    <2>1. PICK S : S = LockItems(Mutex)
        OBVIOUS
    <2>2. Unused \in S /\ [used |-> TRUE, idx |-> call.idx, value |-> call.value] \in S
        BY <1>2, <1>4, <2>1 DEF Unused, LockItems, Pointers, SetInv
    <2>3. AllSlotsIn(S)
        BY <1>0, <2>1 DEF TablesTyped
    <2>4. AllSlotsIn(S)'
        BY <1>1, <1>2, <2>2, <2>3, SlotsStep
    <2>5. S = LockItems(Mutex')
        BY <1>1, <2>1 DEF Mutex
    <2> QED
        BY <2>4, <2>5
<1>7. LocalsTyped'
    BY <1>0, <1>1 DEF LocalsTyped, Owners
<1>8. TableLocked'
    BY <1>1, <1>3 DEF TypeInv, TableLocked, Mutex
<1>9. WaitsTyped'
    <2>1. Typed(Outer, Pointers)
        BY <1>2, OuterTyped
    <2>2. Slots(Outer) \subseteq Slots(Outer')
        <3>1. Outer.size \in Nat
            BY <2>1 DEF Typed
        <3>2. Typed(Outer', Pointers)
            BY <1>5, OuterTypedNext
        <3>3. Outer'.size \in Nat
            BY <3>2 DEF Typed
        <3>4. 0 .. Outer.size - 1 \subseteq 0 .. Outer'.size - 1
            BY <1>3, <3>1, <3>3
        <3> QED
            BY <3>4 DEF Slots
    <2> QED
        BY <1>1, <2>2 DEF TypeInv, WaitsTyped, thread_locks, Mutex
<1> QED
    BY <1>5, <1>6, <1>7, <1>8, <1>9 DEF TypeInv, TablesTyped

(* the end of that branch,                                                 *)
LEMMA TypeInvMade ==
    ASSUME TypeInv, NEW t \in Threads, TLockMade(t)
    PROVE  TypeInv'
<1>1. /\ pc[t] = "tlock:set" /\ at = "idle" /\ lock_lock' = None
      /\ pc' = [pc EXCEPT ![t] = "idle"]
      /\ holds' = [holds EXCEPT ![t] = @ \cup {arg[t]}]
      /\ UNCHANGED <<arg, saved, priority_lock, mutexes, calls, setVars>>
    BY DEF TLockMade
<1>2. TablesTyped' /\ thread_locks' = thread_locks
    BY <1>1, TablesKept DEF TypeInv, Mutex
<1>3. LocalsTyped'
    BY <1>1 DEF TypeInv, LocalsTyped, Lines, Owners
<1>4. at' = "idle" /\ WaitsTyped'
    BY <1>1, <1>2 DEF TypeInv, LocalsTyped, WaitsTyped, WaitLines, setVars, Mutex
<1>5. TableLocked'
    BY <1>1, <1>4, ThreadLocksAssumption DEF TypeInv, LocalsTyped, TableLocked, TableLines
<1> QED
    BY <1>2, <1>3, <1>4, <1>5 DEF TypeInv

(* reading index and mutex of a known id,                                  *)
LEMMA TypeInvFound ==
    ASSUME TypeInv, NEW t \in Threads, TLockFound(t)
    PROVE  TypeInv'
<1>0. LocalsTyped /\ TablesTyped /\ arg[t] \in Ids
    BY DEF TypeInv, LocalsTyped
<1>1. /\ pc[t] = "tlock" /\ lock_lock = None /\ SlotOf(arg[t]) # -1 /\ lock_lock' = t
      /\ pc' = [pc EXCEPT ![t] = "tlock:priority"]
      /\ saved' = [saved EXCEPT ![t] = [i |-> SlotOf(arg[t]), m |-> MutexOf(arg[t])]]
      /\ UNCHANGED <<arg, priority_lock, mutexes, holds, calls, setVars>>
    BY DEF TLockFound
<1>2. SlotOf(arg[t]) \in Slots(thread_locks) /\ MutexOf(arg[t]) \in Mutex
    BY <1>0, <1>1, SlotFound
<1>3. SlotOf(arg[t]) \in Nat /\ MutexOf(arg[t]) \in Nat
    <2>1. thread_locks.size \in Nat
        BY <1>0, OuterItems DEF Typed
    <2> QED
        BY <1>0, <1>2, <2>1, MutexNumbers DEF Slots
<1>4. TablesTyped' /\ thread_locks' = thread_locks
    BY <1>0, <1>1, TablesKept DEF Mutex
<1>5. LocalsTyped'
    BY <1>0, <1>1, <1>3 DEF LocalsTyped, Lines, Owners
<1>6. at' = "idle"
    BY <1>1, TableIdle DEF setVars
<1>7. TableLocked'
    BY <1>0, <1>1, <1>6, ThreadLocksAssumption DEF TypeInv, LocalsTyped, TableLocked, TableLines
<1>8. WaitsTyped'
    BY <1>0, <1>1, <1>2, <1>4 DEF TypeInv, LocalsTyped, WaitsTyped, WaitLines, Mutex
<1> QED
    BY <1>4, <1>5, <1>7, <1>8 DEF TypeInv

(* getting the turn to wait,                                               *)
LEMMA TypeInvPriority ==
    ASSUME TypeInv, NEW t \in Threads, TLockPriority(t)
    PROVE  TypeInv'
<1>1. /\ pc[t] = "tlock:priority" /\ priority_lock' = t /\ lock_lock' = None
      /\ pc' = [pc EXCEPT ![t] = "tlock:mutex"]
      /\ UNCHANGED <<arg, saved, mutexes, holds, calls, setVars>>
    BY DEF TLockPriority
<1>2. TablesTyped' /\ thread_locks' = thread_locks
    BY <1>1, TablesKept DEF TypeInv, Mutex
<1>3. LocalsTyped'
    BY <1>1 DEF TypeInv, LocalsTyped, Lines, Owners
<1>4. WaitsTyped'
    BY <1>1, <1>2 DEF TypeInv, LocalsTyped, WaitsTyped, WaitLines, Mutex
<1>5. TableLocked'
    <2>1. lock_lock = t
        BY <1>1 DEF TypeInv, TableLocked, TableLines
    <2>2. at = "idle"
        BY <1>1, <2>1 DEF TypeInv, TableLocked, TableLines
    <2> QED
        BY <1>1, <2>1, <2>2, ThreadLocksAssumption DEF TypeInv, LocalsTyped, TableLocked, TableLines, setVars
<1> QED
    BY <1>2, <1>3, <1>4, <1>5 DEF TypeInv

(* getting the mutex,                                                      *)
LEMMA TypeInvMutex ==
    ASSUME TypeInv, NEW t \in Threads, TLockMutex(t)
    PROVE  TypeInv'
<1>0. LocalsTyped /\ saved[t].m \in Mutex
    BY DEF TypeInv, WaitsTyped, WaitLines, TLockMutex
<1>1. /\ pc[t] = "tlock:mutex"
      /\ mutexes' = [mutexes EXCEPT ![saved[t].m] = t]
      /\ pc' = [pc EXCEPT ![t] = "tlock:retake"]
      /\ UNCHANGED <<arg, saved, lock_lock, priority_lock, holds, calls, setVars>>
    BY DEF TLockMutex
<1>2. mutexes' \in Seq(Owners) /\ Mutex' = Mutex
    <2>1. mutexes \in Seq(Owners) /\ saved[t].m \in 1 .. Len(mutexes) /\ t \in Owners
        BY <1>0, MutexNumbers DEF LocalsTyped, Owners
    <2> QED
        BY <1>1, <2>1, ExceptSeq DEF Mutex
<1>3. TablesTyped' /\ thread_locks' = thread_locks
    BY <1>1, <1>2, TablesKept DEF TypeInv
<1>4. LocalsTyped'
    BY <1>0, <1>1, <1>2 DEF LocalsTyped, Lines, Owners
<1>5. TableLocked'
    BY <1>0, <1>1, <1>2 DEF TypeInv, LocalsTyped, TableLocked, TableLines, setVars
<1>6. WaitsTyped'
    BY <1>0, <1>1, <1>2, <1>3 DEF TypeInv, LocalsTyped, WaitsTyped, WaitLines
<1> QED
    BY <1>3, <1>4, <1>5, <1>6 DEF TypeInv

(* the write by the index that was read before the wait, which is still    *)
(* inside the table,                                                       *)
LEMMA TypeInvRetake ==
    ASSUME TypeInv, NEW t \in Threads, TLockRetake(t)
    PROVE  TypeInv'
<1> DEFINE i == saved[t].i
           m == saved[t].m
<1>0. LocalsTyped /\ TablesTyped
    BY DEF TypeInv
<1>1. /\ pc[t] = "tlock:retake" /\ lock_lock = None /\ priority_lock' = None
      /\ table' = [table EXCEPT !.arr[i].value = m]
      /\ holds' = [holds EXCEPT ![t] = @ \cup {arg[t]}]
      /\ pc' = [pc EXCEPT ![t] = "idle"]
      /\ UNCHANGED <<arg, saved, lock_lock, mutexes, calls, stack, call, at>>
    BY DEF TLockRetake
<1>2. at = "idle" /\ stack = <<>> /\ thread_locks = table /\ Len(stack') = 0
    BY <1>0, <1>1, TableIdle, StackTyped DEF TablesTyped
<1>3. i \in Slots(table) /\ m \in Mutex /\ m \in Pointers
    BY <1>0, <1>1, <1>2, MutexNumbers DEF TypeInv, WaitsTyped, WaitLines, Pointers
<1>4. Typed(table, Pointers) /\ Sound(table) /\ SetInv(Pointers)
    BY <1>0 DEF TablesTyped, SetInv
<1> HIDE DEF i, m
<1>5. /\ Typed(table', Pointers) /\ Sound(table') /\ table'.size = table.size
      /\ \A k \in Slots(table) :
            table'.arr[k] = IF k = i THEN [used |-> table.arr[i].used, idx |-> table.arr[i].idx, value |-> m]
                                     ELSE table.arr[k]
    <2>1. table' = Rewritten(table, i, m)
        BY <1>1 DEF Rewritten
    <2> QED
        BY <1>3, <1>4, <2>1, RewriteSlot
<1>6. SetInv(Pointers)'
    BY <1>1, <1>2, <1>4, <1>5 DEF SetInv
<1>7. AllSlotsIn(LockItems(Mutex))'
    <2>1. Slots(table') = Slots(table)
        BY <1>5 DEF Slots
    <2>2. SlotsIn(table, LockItems(Mutex))
        BY <1>0 DEF TablesTyped, AllSlotsIn
    <2>3. [used |-> table.arr[i].used, idx |-> table.arr[i].idx, value |-> m] \in LockItems(Mutex)
        BY <1>3, <2>2 DEF SlotsIn, LockItems
    <2>4. SlotsIn(table', LockItems(Mutex))
        BY <1>5, <2>1, <2>2, <2>3 DEF SlotsIn
    <2> QED
        BY <1>1, <1>2, <2>4 DEF AllSlotsIn, Mutex
<1>8. LocalsTyped'
    BY <1>0, <1>1 DEF LocalsTyped, Lines, Owners
<1>9. TableLocked'
    BY <1>0, <1>1, <1>2 DEF TypeInv, LocalsTyped, TableLocked, TableLines
<1>10. WaitsTyped'
    <2>1. Slots(thread_locks') = Slots(thread_locks)
        BY <1>1, <1>2, <1>5 DEF Slots, thread_locks, Outer
    <2> QED
        BY <1>0, <1>1, <2>1 DEF TypeInv, LocalsTyped, WaitsTyped, WaitLines, Mutex
<1> QED
    BY <1>6, <1>7, <1>8, <1>9, <1>10 DEF TypeInv, TablesTyped

(* an unlock,                                                              *)
LEMMA TypeInvUnlock ==
    ASSUME TypeInv, NEW t \in Threads, TUnlock(t)
    PROVE  TypeInv'
<1>0. LocalsTyped /\ TablesTyped /\ arg[t] \in Ids
    BY DEF TypeInv, LocalsTyped
<1>1. /\ pc[t] = "tunlock" /\ lock_lock = None
      /\ mutexes' = IF SlotOf(arg[t]) = -1 THEN mutexes
                    ELSE [mutexes EXCEPT ![MutexOf(arg[t])] = None]
      /\ holds' = [holds EXCEPT ![t] = @ \ {arg[t]}]
      /\ pc' = [pc EXCEPT ![t] = "idle"]
      /\ UNCHANGED <<arg, saved, lock_lock, priority_lock, calls, setVars>>
    BY DEF TUnlock
<1>2. mutexes' \in Seq(Owners) /\ Mutex' = Mutex
    <2>1. CASE SlotOf(arg[t]) = -1
        BY <1>0, <1>1, <2>1 DEF Mutex, LocalsTyped
    <2>2. CASE SlotOf(arg[t]) # -1
        <3>1. MutexOf(arg[t]) \in 1 .. Len(mutexes) /\ mutexes \in Seq(Owners) /\ None \in Owners
            BY <1>0, <2>2, SlotFound, MutexNumbers DEF LocalsTyped, Owners
        <3> QED
            BY <1>1, <2>2, <3>1, ExceptSeq DEF Mutex
    <2> QED
        BY <2>1, <2>2
<1>3. TablesTyped' /\ thread_locks' = thread_locks
    BY <1>0, <1>1, <1>2, TablesKept
<1>4. LocalsTyped'
    BY <1>0, <1>1, <1>2 DEF LocalsTyped, Lines, Owners
<1>5. TableLocked'
    BY <1>0, <1>1, <1>2 DEF TypeInv, LocalsTyped, TableLocked, TableLines, setVars
<1>6. WaitsTyped'
    BY <1>0, <1>1, <1>2, <1>3 DEF TypeInv, LocalsTyped, WaitsTyped, WaitLines
<1> QED
    BY <1>3, <1>4, <1>5, <1>6 DEF TypeInv

(* and a stuttering step.                                                  *)
LEMMA TypeInvStutter ==
    ASSUME TypeInv, UNCHANGED vars
    PROVE  TypeInv'
<1>1. UNCHANGED <<pc, arg, saved, lock_lock, priority_lock, mutexes, holds, calls, setVars>>
    BY DEF vars
<1>2. TablesTyped' /\ thread_locks' = thread_locks
    BY <1>1, TablesKept DEF TypeInv, Mutex
<1>3. LocalsTyped' /\ TableLocked' /\ WaitsTyped'
    BY <1>1, <1>2 DEF TypeInv, LocalsTyped, TableLocked, WaitsTyped, setVars, Mutex, Owners
<1> QED
    BY <1>2, <1>3 DEF TypeInv

(* The type invariant holds throughout every behaviour.                    *)
LEMMA TypeInvHolds ==
    Spec => []TypeInv
<1>1. TypeInv /\ [Next]_vars => TypeInv'
    <2> SUFFICES ASSUME TypeInv, [Next]_vars PROVE TypeInv'
        OBVIOUS
    <2> QED
        BY TypeInvCall, TypeInvNew, TypeInvSet, TypeInvMade, TypeInvFound, TypeInvPriority,
           TypeInvMutex, TypeInvRetake, TypeInvUnlock, TypeInvStutter DEF Next, Inside
<1> QED
    BY <1>1, TypeInvInit, PTL DEF Spec

(* Every thread's locals, the owners and the tables hold what they may, and *)
(* the index that a waiting thread keeps stays inside the table however     *)
(* often the table is replaced meanwhile.                                   *)
THEOREM LocksTypeCorrect ==
    Spec => []TypeOK
<1>1. TypeInv => TypeOK
    <2> SUFFICES ASSUME TypeInv PROVE TypeOK
        OBVIOUS
    <2>1. LocalsTyped /\ TablesTyped
        BY DEF TypeInv
    <2>2. ASSUME NEW l, Typed(l, Pointers) PROVE DOMAIN l.arr = Slots(l)
        BY <2>2 DEF Typed
    <2>3. ASSUME NEW l, Typed(l, Pointers), SlotsIn(l, LockItems(Mutex)) PROVE NamesMutexes(l)
        BY <2>2, <2>3 DEF NamesMutexes, SlotsIn, LockItems
    <2>4. NamesMutexes(table)
        BY <2>1, <2>3 DEF TablesTyped, SetInv, AllSlotsIn
    <2>5. \A j \in DOMAIN stack : NamesMutexes(stack[j].table)
        <3>1. DOMAIN stack = 1 .. Len(stack)
            BY <2>1, LenProperties DEF TablesTyped, SetInv
        <3> QED
            BY <2>1, <2>3, <3>1, StackTyped DEF TablesTyped, AllSlotsIn
    <2>6. DOMAIN thread_locks.arr = Slots(thread_locks)
        BY <2>1, <2>2, OuterItems
    <2> QED
        BY <2>1, <2>4, <2>5, <2>6 DEF TypeOK, TypeInv, LocalsTyped, WaitsTyped
<1> QED
    BY <1>1, TypeInvHolds, PTL

-----------------------------------------------------------------------------
(* The table as a dictionary from ids to mutexes.                          *)

(* The table pairs ids with allocated mutexes.                             *)
LEMMA ContentsTyped ==
    ASSUME TablesTyped, NEW c \in Contents(thread_locks)
    PROVE  c[1] \in Nat /\ c[2] \in Mutex /\ c = <<c[1], c[2]>>
<1>1. PICK i \in UsedSlots(thread_locks) : c = <<thread_locks.arr[i].idx, thread_locks.arr[i].value>>
    BY DEF Contents
<1>2. thread_locks.arr[i] \in LockItems(Mutex) /\ thread_locks.arr[i].used
    BY OuterItems DEF UsedSlots, SlotsIn
<1> QED
    BY <1>1, <1>2 DEF LockItems

(* It has one mutex per id.                                                *)
LEMMA IdUnique ==
    ASSUME TablesTyped, NEW id \in Ids, NEW m, NEW n,
           <<id, m>> \in Contents(thread_locks), <<id, n>> \in Contents(thread_locks)
    PROVE  m = n
<1>1. larray_get(thread_locks, id) = m /\ larray_get(thread_locks, id) = n
    BY OuterItems, GetFound, ThreadLocksAssumption
<1> QED
    BY <1>1

(* An id that larray_geti does not find is not in the table.               *)
LEMMA SlotMissing ==
    ASSUME TablesTyped, NEW id \in Ids, SlotOf(id) = -1
    PROVE  \A c \in Contents(thread_locks) : c[1] # id
<1> SUFFICES ASSUME NEW c \in Contents(thread_locks), c[1] = id PROVE FALSE
    OBVIOUS
<1>1. PICK i \in UsedSlots(thread_locks) : c = <<thread_locks.arr[i].idx, thread_locks.arr[i].value>>
    BY DEF Contents
<1>2. larray_geti(thread_locks, id) = i
    BY <1>1, OuterItems, GetiDecides, ThreadLocksAssumption
<1>3. i # -1
    BY OuterItems DEF UsedSlots, Slots, Typed
<1> QED
    BY <1>2, <1>3 DEF SlotOf

(* An id in the table is found, with its mutex.                            *)
LEMMA SlotPresent ==
    ASSUME TablesTyped, LocalsTyped, NEW id \in Ids, NEW m, <<id, m>> \in Contents(thread_locks)
    PROVE  SlotOf(id) # -1 /\ MutexOf(id) = m
<1>1. SlotOf(id) # -1
    BY SlotMissing
<1>2. <<id, MutexOf(id)>> \in Contents(thread_locks)
    BY <1>1, SlotFound
<1> QED
    BY <1>1, <1>2, IdUnique

-----------------------------------------------------------------------------
(* The locks.                                                              *)

(* The lock invariant holds at the start.                                  *)
LEMMA LockInvInit ==
    Init => LockInv
<1> SUFFICES ASSUME Init PROVE LockInv
    OBVIOUS
<1>1. Contents(table) = {} /\ thread_locks = table
    BY InitlSound, LArrayAssumption DEF Init, SetInit, larray_init, thread_locks, Outer
<1> QED
    BY <1>1, ThreadLocksAssumption
    DEF Init, LockInv, WaitersAlone, WaitersFindSlot, MutexesUnshared, NewMutex, HoldersOwn,
        RetakersOwn, CallsPaired, PriorityLines, WaitLines, LockLines

(* Calls of lock and unlock keep it.                                       *)
LEMMA LockInvCall ==
    ASSUME TypeInv, LockInv, NEW t \in Threads, NEW id \in Ids,
           TLockCall(t, id) \/ TUnlockCall(t, id)
    PROVE  LockInv'
<1>0. LocalsTyped
    BY DEF TypeInv
<1>1. /\ UNCHANGED <<saved, lock_lock, priority_lock, mutexes, holds, setVars>>
      /\ pc[t] = "idle"
      /\ \/ pc' = [pc EXCEPT ![t] = "tlock"] /\ id \notin holds[t]
         \/ pc' = [pc EXCEPT ![t] = "tunlock"] /\ id \in holds[t]
      /\ arg' = [arg EXCEPT ![t] = id]
    BY DEF TLockCall, TUnlockCall
<1>2. thread_locks' = thread_locks /\ at' = at /\ call' = call /\ Mutex' = Mutex
    BY <1>1 DEF setVars, thread_locks, Outer, Mutex
<1>3. WaitersAlone' /\ RetakersOwn'
    BY <1>0, <1>1 DEF LocalsTyped, LockInv, WaitersAlone, RetakersOwn, PriorityLines
<1>4. WaitersFindSlot'
    BY <1>0, <1>1, <1>2 DEF LocalsTyped, LockInv, WaitersFindSlot, WaitLines
<1>5. NewMutex'
    BY <1>0, <1>1, <1>2 DEF LocalsTyped, LockInv, NewMutex
<1>6. HoldersOwn' /\ MutexesUnshared'
    BY <1>1, <1>2 DEF LockInv, HoldersOwn, MutexesUnshared
<1>7. CallsPaired'
    BY <1>0, <1>1 DEF LocalsTyped, LockInv, CallsPaired, LockLines
<1> QED
    BY <1>3, <1>4, <1>5, <1>6, <1>7 DEF LockInv

(* A new id's mutex is owned before the table names it.                    *)
LEMMA LockInvNew ==
    ASSUME TypeInv, LockInv, NEW t \in Threads, TLockNew(t)
    PROVE  LockInv'
<1> DEFINE m == Len(mutexes) + 1
<1>0. LocalsTyped /\ TablesTyped /\ TableLocked /\ WaitsTyped
    BY DEF TypeInv
<1>1. /\ pc[t] = "tlock" /\ lock_lock = None /\ SlotOf(arg[t]) = -1
      /\ pc' = [pc EXCEPT ![t] = "tlock:set"]
      /\ mutexes' = Append(mutexes, t)
      /\ SetCall(arg[t], m)
      /\ UNCHANGED <<arg, saved, priority_lock, holds, calls>>
    BY DEF TLockNew
<1>2. /\ Len(mutexes) \in Nat /\ Mutex = 1 .. Len(mutexes) /\ mutexes \in Seq(Owners)
    BY <1>0, MutexNumbers DEF LocalsTyped
<1>3. /\ mutexes' \in Seq(Owners) /\ Len(mutexes') = m
      /\ \A n \in Mutex : mutexes'[n] = mutexes[n]
      /\ mutexes'[m] = t
    BY <1>1, <1>2, AppendProperties DEF Owners
<1>4. Mutex' = 1 .. m
    BY <1>3, LenProperties DEF Mutex
<1>5. m \in Mutex' /\ Mutex \subseteq Mutex' /\ m \notin Mutex
    BY <1>2, <1>4
<1> HIDE DEF m
<1>6. thread_locks' = thread_locks /\ at' = "test" /\ call'.idx = arg[t] /\ call'.value = m
    BY <1>1 DEF SetCall, thread_locks, Outer
<1>7. WaitersAlone' /\ CallsPaired'
    BY <1>0, <1>1 DEF LocalsTyped, LockInv, WaitersAlone, CallsPaired, PriorityLines, LockLines
<1>8. WaitersFindSlot'
    BY <1>0, <1>1, <1>6 DEF LocalsTyped, LockInv, WaitersFindSlot, WaitLines
<1>9. MutexesUnshared'
    BY <1>6 DEF LockInv, MutexesUnshared
<1>10. NewMutex'
    <2>1. \A c \in Contents(thread_locks) : c[1] # arg[t] /\ c[2] # m
        BY <1>0, <1>1, <1>5, SlotMissing, ContentsTyped DEF LocalsTyped
    <2>2. \A u \in Threads : pc'[u] = "tlock:set" => u = t
        BY <1>0, <1>1, ThreadLocksAssumption DEF LocalsTyped, TableLocked, TableLines
    <2> QED
        BY <1>1, <1>3, <1>5, <1>6, <2>1, <2>2 DEF NewMutex
<1>11. HoldersOwn'
    <2> SUFFICES ASSUME NEW u \in Threads, NEW id \in holds[u]
                 PROVE  \E n \in Mutex' : <<id, n>> \in Contents(thread_locks) /\ mutexes'[n] = u
        BY <1>1, <1>6 DEF HoldersOwn
    <2>1. PICK n \in Mutex : <<id, n>> \in Contents(thread_locks) /\ mutexes[n] = u
        BY DEF LockInv, HoldersOwn
    <2> QED
        BY <1>3, <1>5, <2>1
<1>12. RetakersOwn'
    BY <1>0, <1>1, <1>3 DEF LocalsTyped, LockInv, RetakersOwn, WaitsTyped, WaitLines
<1> QED
    BY <1>7, <1>8, <1>9, <1>10, <1>11, <1>12 DEF LockInv

(* larray_set adds the id, and no slot of another moves unless the table   *)
(* is copied.                                                              *)
LEMMA LockInvSet ==
    ASSUME TypeInv, LockInv, CopiesUnwatched, CopiesUnwatched', NEW t \in Threads, TLockSet(t)
    PROVE  LockInv'
<1>0. LocalsTyped /\ TablesTyped /\ TableLocked /\ WaitsTyped /\ SetInv(Pointers)
    BY DEF TypeInv, TablesTyped
<1>1. /\ pc[t] = "tlock:set" /\ SetStep
      /\ UNCHANGED <<pc, arg, saved, lock_lock, priority_lock, mutexes, holds, calls>>
    BY DEF TLockSet
<1>2. call' = call /\ at # "idle" /\ (at' = "idle" => stack = <<>> /\ SetStore)
    BY <1>0, <1>1, OuterStep
<1>3. \A u \in Threads : pc[u] \in TableLines => u = t
    BY <1>0, <1>1 DEF TableLocked, TableLines
<1>4. /\ call.idx = arg[t] /\ call.value \in Mutex /\ mutexes[call.value] = t
      /\ \A c \in Contents(thread_locks) : c[1] # call.idx /\ c[2] # call.value
    BY <1>1, <1>2 DEF LockInv, NewMutex
<1>5. Mutex' = Mutex
    BY <1>1 DEF Mutex
<1>6. WaitersAlone' /\ RetakersOwn' /\ CallsPaired'
    BY <1>1 DEF LockInv, WaitersAlone, RetakersOwn, CallsPaired
<1>7. CASE stack = <<>> /\ SetStore
    <2>1. /\ at' = "idle"
          /\ Contents(Outer') =
                {c \in Contents(Outer) : c[1] # call.idx} \cup {<<call.idx, call.value>>}
          /\ \A i \in UsedSlots(Outer) : Outer.arr[i].idx # call.idx =>
                i \in UsedSlots(Outer') /\ Outer'.arr[i] = Outer.arr[i]
        BY <1>0, <1>7, OuterStore
    <2>2. Contents(thread_locks') = Contents(thread_locks) \cup {<<call.idx, call.value>>}
        BY <1>4, <2>1 DEF thread_locks
    <2>3. MutexesUnshared'
        BY <1>4, <2>2 DEF LockInv, MutexesUnshared
    <2>4. NewMutex'
        BY <1>1, <1>2, <1>3, <1>4, <1>5, <2>1, <2>2 DEF NewMutex, TableLines
    <2>5. HoldersOwn'
        BY <1>1, <1>5, <2>2 DEF LockInv, HoldersOwn
    <2>6. WaitersFindSlot'
        <3> SUFFICES ASSUME NEW u \in Threads, pc[u] \in WaitLines
                     PROVE  /\ saved[u].i \in UsedSlots(thread_locks')
                            /\ thread_locks'.arr[saved[u].i].idx = arg[u]
                            /\ thread_locks'.arr[saved[u].i].value = saved[u].m
            BY <1>1 DEF WaitersFindSlot
        <3>1. /\ saved[u].i \in UsedSlots(thread_locks)
              /\ thread_locks.arr[saved[u].i].idx = arg[u]
              /\ thread_locks.arr[saved[u].i].value = saved[u].m
            BY DEF LockInv, WaitersFindSlot
        <3>2. <<arg[u], saved[u].m>> \in Contents(thread_locks)
            BY <3>1 DEF Contents
        <3>3. arg[u] # call.idx
            BY <1>4, <3>2
        <3> QED
            BY <2>1, <3>1, <3>3 DEF thread_locks
    <2> QED
        BY <1>6, <2>3, <2>4, <2>5, <2>6 DEF LockInv
<1>8. CASE ~ (stack = <<>> /\ SetStore)
    <2>1. Contents(thread_locks') = Contents(thread_locks) /\ at' # "idle"
        BY <1>0, <1>1, <1>2, <1>8, OuterStep DEF thread_locks
    <2>2. MutexesUnshared' /\ HoldersOwn'
        BY <1>1, <1>5, <2>1 DEF LockInv, MutexesUnshared, HoldersOwn
    <2>3. NewMutex'
        BY <1>1, <1>2, <1>5, <2>1 DEF LockInv, NewMutex
    <2>4. WaitersFindSlot'
        <3> SUFFICES ASSUME NEW u \in Threads, pc[u] \in WaitLines
                     PROVE  thread_locks' = thread_locks
            BY <1>1 DEF LockInv, WaitersFindSlot
        <3>1. pc[u] \in {"tlock:mutex", "tlock:retake"}
            BY <1>1, <1>3 DEF TableLines, WaitLines
        <3>2. stack = <<>> /\ stack' = <<>>
            BY <1>1, <3>1 DEF CopiesUnwatched
        <3> QED
            BY <1>0, <1>1, <1>8, <3>2, OuterStep DEF thread_locks
    <2> QED
        BY <1>6, <2>2, <2>3, <2>4 DEF LockInv
<1> QED
    BY <1>7, <1>8

(* The thread that made it holds the id.                                   *)
LEMMA LockInvMade ==
    ASSUME TypeInv, LockInv, NEW t \in Threads, TLockMade(t)
    PROVE  LockInv'
<1>0. LocalsTyped
    BY DEF TypeInv
<1>1. /\ pc[t] = "tlock:set" /\ at = "idle"
      /\ pc' = [pc EXCEPT ![t] = "idle"]
      /\ holds' = [holds EXCEPT ![t] = @ \cup {arg[t]}]
      /\ UNCHANGED <<arg, saved, priority_lock, mutexes, calls, setVars>>
    BY DEF TLockMade
<1>2. thread_locks' = thread_locks /\ at' = at /\ call' = call /\ Mutex' = Mutex
    BY <1>1 DEF setVars, thread_locks, Outer, Mutex
<1>3. WaitersAlone' /\ RetakersOwn' /\ CallsPaired'
    BY <1>0, <1>1 DEF LocalsTyped, LockInv, WaitersAlone, RetakersOwn, CallsPaired, PriorityLines, LockLines
<1>4. WaitersFindSlot'
    BY <1>0, <1>1, <1>2 DEF LocalsTyped, LockInv, WaitersFindSlot, WaitLines
<1>5. NewMutex' /\ MutexesUnshared'
    BY <1>0, <1>1, <1>2 DEF LocalsTyped, LockInv, NewMutex, MutexesUnshared
<1>6. HoldersOwn'
    <2>1. <<arg[t], call.value>> \in Contents(thread_locks) /\ call.value \in Mutex
             /\ mutexes[call.value] = t
        BY <1>1 DEF LockInv, NewMutex
    <2> QED
        BY <1>0, <1>1, <1>2, <2>1 DEF LocalsTyped, LockInv, HoldersOwn
<1> QED
    BY <1>3, <1>4, <1>5, <1>6 DEF LockInv

(* Reading index and mutex keeps the invariant.                            *)
LEMMA LockInvFound ==
    ASSUME TypeInv, LockInv, NEW t \in Threads, TLockFound(t)
    PROVE  LockInv'
<1>0. LocalsTyped /\ TablesTyped /\ arg[t] \in Ids
    BY DEF TypeInv, LocalsTyped
<1>1. /\ pc[t] = "tlock" /\ SlotOf(arg[t]) # -1
      /\ pc' = [pc EXCEPT ![t] = "tlock:priority"]
      /\ saved' = [saved EXCEPT ![t] = [i |-> SlotOf(arg[t]), m |-> MutexOf(arg[t])]]
      /\ UNCHANGED <<arg, priority_lock, mutexes, holds, calls, setVars>>
    BY DEF TLockFound
<1>2. thread_locks' = thread_locks /\ at' = at /\ call' = call /\ Mutex' = Mutex
    BY <1>1 DEF setVars, thread_locks, Outer, Mutex
<1>3. WaitersAlone' /\ RetakersOwn' /\ CallsPaired'
    BY <1>0, <1>1 DEF LocalsTyped, LockInv, WaitersAlone, RetakersOwn, CallsPaired, PriorityLines, LockLines
<1>4. WaitersFindSlot'
    <2>1. /\ SlotOf(arg[t]) \in UsedSlots(thread_locks)
          /\ thread_locks.arr[SlotOf(arg[t])].idx = arg[t]
          /\ thread_locks.arr[SlotOf(arg[t])].value = MutexOf(arg[t])
        BY <1>0, <1>1, SlotFound DEF MutexOf
    <2> QED
        BY <1>0, <1>1, <1>2, <2>1 DEF LocalsTyped, LockInv, WaitersFindSlot, WaitLines
<1>5. NewMutex' /\ MutexesUnshared'
    BY <1>0, <1>1, <1>2 DEF LocalsTyped, LockInv, NewMutex, MutexesUnshared
<1>6. HoldersOwn'
    BY <1>1, <1>2 DEF LockInv, HoldersOwn
<1> QED
    BY <1>3, <1>4, <1>5, <1>6 DEF LockInv

(* The thread that waits for a mutex is alone, and its index is the id's   *)
(* slot.                                                                   *)
LEMMA LockInvPriority ==
    ASSUME TypeInv, LockInv, NEW t \in Threads, TLockPriority(t)
    PROVE  LockInv'
<1>0. LocalsTyped
    BY DEF TypeInv
<1>1. /\ pc[t] = "tlock:priority" /\ priority_lock = None /\ priority_lock' = t
      /\ pc' = [pc EXCEPT ![t] = "tlock:mutex"]
      /\ UNCHANGED <<arg, saved, mutexes, holds, calls, setVars>>
    BY DEF TLockPriority
<1>2. thread_locks' = thread_locks /\ at' = at /\ call' = call /\ Mutex' = Mutex
    BY <1>1 DEF setVars, thread_locks, Outer, Mutex
<1>3. WaitersAlone' /\ RetakersOwn' /\ CallsPaired'
    BY <1>0, <1>1, ThreadLocksAssumption
    DEF LocalsTyped, LockInv, WaitersAlone, RetakersOwn, CallsPaired, PriorityLines, LockLines
<1>4. WaitersFindSlot'
    BY <1>0, <1>1, <1>2 DEF LocalsTyped, LockInv, WaitersFindSlot, WaitLines
<1>5. NewMutex' /\ MutexesUnshared'
    BY <1>0, <1>1, <1>2 DEF LocalsTyped, LockInv, NewMutex, MutexesUnshared
<1>6. HoldersOwn'
    BY <1>1, <1>2 DEF LockInv, HoldersOwn
<1> QED
    BY <1>3, <1>4, <1>5, <1>6 DEF LockInv

(* The waiting thread owns the mutex once it is free.                      *)
LEMMA LockInvMutex ==
    ASSUME TypeInv, LockInv, NEW t \in Threads, TLockMutex(t)
    PROVE  LockInv'
<1> DEFINE m == saved[t].m
<1>0. LocalsTyped /\ m \in Mutex /\ mutexes \in [Mutex -> Owners] /\ WaitsTyped
    BY MutexNumbers DEF TypeInv, WaitsTyped, WaitLines, TLockMutex
<1>1. /\ pc[t] = "tlock:mutex" /\ mutexes[m] = None
      /\ mutexes' = [mutexes EXCEPT ![m] = t]
      /\ pc' = [pc EXCEPT ![t] = "tlock:retake"]
      /\ UNCHANGED <<arg, saved, lock_lock, priority_lock, holds, calls, setVars>>
    BY DEF TLockMutex
<1> HIDE DEF m
<1>2. thread_locks' = thread_locks /\ at' = at /\ call' = call /\ Mutex' = Mutex
    BY <1>1 DEF setVars, thread_locks, Outer, Mutex
<1>3. \A n \in Mutex, u \in Threads : mutexes[n] = u => mutexes'[n] = u
    BY <1>0, <1>1, ThreadLocksAssumption
<1>4. WaitersAlone' /\ CallsPaired'
    BY <1>0, <1>1 DEF LocalsTyped, LockInv, WaitersAlone, CallsPaired, PriorityLines, LockLines
<1>5. WaitersFindSlot'
    BY <1>0, <1>1, <1>2 DEF LocalsTyped, LockInv, WaitersFindSlot, WaitLines
<1>6. NewMutex' /\ MutexesUnshared'
    BY <1>0, <1>1, <1>2, <1>3, ZenonT(60) DEF LocalsTyped, LockInv, NewMutex, MutexesUnshared
<1>7. HoldersOwn'
    BY <1>1, <1>2, <1>3 DEF LockInv, HoldersOwn
<1>8. RetakersOwn'
    <2>1. mutexes'[m] = t
        BY <1>0, <1>1
    <2>2. ASSUME NEW u \in Threads, u # t, pc[u] = "tlock:retake" PROVE mutexes'[saved[u].m] = u
        BY <1>0, <1>3, <2>2 DEF LockInv, RetakersOwn, WaitsTyped, WaitLines
    <2> QED
        BY <1>0, <1>1, <2>1, <2>2 DEF LocalsTyped, RetakersOwn, m
<1> QED
    BY <1>4, <1>5, <1>6, <1>7, <1>8 DEF LockInv

(* The write with which l_tlock ends changes nothing: the slot still has   *)
(* the mutex.                                                              *)
LEMMA LockInvRetake ==
    ASSUME TypeInv, LockInv, NEW t \in Threads, TLockRetake(t)
    PROVE  LockInv'
<1> DEFINE i == saved[t].i
           m == saved[t].m
<1>0. LocalsTyped /\ TablesTyped /\ m \in Mutex
    BY DEF TypeInv, WaitsTyped, WaitLines, TLockRetake
<1>1. /\ pc[t] = "tlock:retake" /\ lock_lock = None /\ priority_lock' = None
      /\ table' = Rewritten(table, i, m)
      /\ holds' = [holds EXCEPT ![t] = @ \cup {arg[t]}]
      /\ pc' = [pc EXCEPT ![t] = "idle"]
      /\ UNCHANGED <<arg, saved, lock_lock, mutexes, calls, stack, call, at>>
    BY DEF TLockRetake, Rewritten
<1>2. at = "idle" /\ stack = <<>> /\ thread_locks = table
    BY <1>1, TableIdle
<1>3. i \in UsedSlots(table) /\ table.arr[i].idx = arg[t] /\ table.arr[i].value = m
          /\ mutexes[m] = t
    BY <1>1, <1>2 DEF LockInv, WaitersFindSlot, WaitLines, RetakersOwn
<1> HIDE DEF i, m
<1>4. table' = table
    <2>1. /\ table \in [size : Nat \ {0}, len : Nat,
                        arr : [Slots(table) -> [used : BOOLEAN, idx : Nat, value : Pointers]]]
          /\ i \in Slots(table)
        BY <1>0, <1>3 DEF TablesTyped, SetInv, Typed, UsedSlots
    <2>2. [table.arr[i] EXCEPT !.value = m] = table.arr[i]
        BY <1>3, <2>1
    <2>3. [table.arr EXCEPT ![i] = table.arr[i]] = table.arr
        BY <2>1
    <2>4. Rewritten(table, i, m) =
             [table EXCEPT !.arr = [table.arr EXCEPT ![i] = [table.arr[i] EXCEPT !.value = m]]]
        BY DEF Rewritten
    <2>5. [table EXCEPT !.arr = table.arr] = table
        BY <2>1
    <2> QED
        BY <1>1, <2>2, <2>3, <2>4, <2>5
<1>5. thread_locks' = thread_locks /\ Mutex' = Mutex
    BY <1>1, <1>4 DEF thread_locks, Outer, Mutex
<1>6. WaitersAlone'
    <2>1. priority_lock = t
        BY <1>1 DEF LockInv, WaitersAlone, PriorityLines
    <2> QED
        BY <1>0, <1>1, <2>1, ThreadLocksAssumption
        DEF LocalsTyped, LockInv, WaitersAlone, PriorityLines
<1>7. RetakersOwn' /\ CallsPaired'
    BY <1>0, <1>1 DEF LocalsTyped, LockInv, RetakersOwn, CallsPaired, LockLines
<1>8. WaitersFindSlot'
    BY <1>0, <1>1, <1>5 DEF LocalsTyped, LockInv, WaitersFindSlot, WaitLines
<1>9. NewMutex' /\ MutexesUnshared'
    BY <1>0, <1>1, <1>5 DEF LocalsTyped, LockInv, NewMutex, MutexesUnshared
<1>10. HoldersOwn'
    <2>1. <<arg[t], m>> \in Contents(thread_locks)
        BY <1>2, <1>3 DEF Contents
    <2> QED
        BY <1>0, <1>1, <1>3, <1>5, <2>1, ZenonT(60) DEF LocalsTyped, LockInv, HoldersOwn
<1> QED
    BY <1>6, <1>7, <1>8, <1>9, <1>10 DEF LockInv

(* An unlock opens the mutex of the thread that calls it, and no other.    *)
LEMMA LockInvUnlock ==
    ASSUME TypeInv, LockInv, NEW t \in Threads, TUnlock(t)
    PROVE  LockInv'
<1> DEFINE m == MutexOf(arg[t])
<1>0. /\ LocalsTyped /\ TablesTyped /\ WaitsTyped /\ arg[t] \in Ids
      /\ mutexes \in [Mutex -> Owners]
    BY MutexNumbers DEF TypeInv, LocalsTyped
<1>1. /\ pc[t] = "tunlock"
      /\ mutexes' = IF SlotOf(arg[t]) = -1 THEN mutexes ELSE [mutexes EXCEPT ![m] = None]
      /\ holds' = [holds EXCEPT ![t] = @ \ {arg[t]}]
      /\ pc' = [pc EXCEPT ![t] = "idle"]
      /\ UNCHANGED <<arg, saved, lock_lock, priority_lock, calls, setVars>>
    BY DEF TUnlock
<1>2. <<arg[t], m>> \in Contents(thread_locks) /\ m \in Mutex /\ mutexes[m] = t
          /\ SlotOf(arg[t]) # -1
    <2>1. arg[t] \in holds[t]
        BY <1>1 DEF LockInv, CallsPaired
    <2>2. PICK n \in Mutex : <<arg[t], n>> \in Contents(thread_locks) /\ mutexes[n] = t
        BY <2>1 DEF LockInv, HoldersOwn
    <2>3. SlotOf(arg[t]) # -1 /\ m = n
        BY <1>0, <2>2, SlotPresent
    <2> QED
        BY <2>2, <2>3
<1> HIDE DEF m
<1>3. thread_locks' = thread_locks /\ at' = at /\ call' = call /\ Mutex' = Mutex
    BY <1>1 DEF setVars, thread_locks, Outer, Mutex
<1>4. \A n \in Mutex : n # m => mutexes'[n] = mutexes[n]
    BY <1>0, <1>1
<1>5. WaitersAlone' /\ CallsPaired'
    BY <1>0, <1>1 DEF LocalsTyped, LockInv, WaitersAlone, CallsPaired, PriorityLines, LockLines
<1>6. WaitersFindSlot'
    BY <1>0, <1>1, <1>3 DEF LocalsTyped, LockInv, WaitersFindSlot, WaitLines
<1>7. NewMutex' /\ MutexesUnshared'
    <2>1. ASSUME NEW u \in Threads, pc[u] = "tlock:set" PROVE mutexes'[call.value] = u
        BY <1>1, <1>2, <1>4, <2>1 DEF LockInv, NewMutex
    <2> QED
        BY <1>0, <1>1, <1>3, <2>1 DEF LocalsTyped, LockInv, NewMutex, MutexesUnshared
<1>8. HoldersOwn'
    <2> SUFFICES ASSUME NEW u \in Threads, NEW id \in holds'[u]
                 PROVE  \E n \in Mutex : <<id, n>> \in Contents(thread_locks) /\ mutexes'[n] = u
        BY <1>3 DEF HoldersOwn
    <2>1. id \in holds[u] /\ (u = t => id # arg[t])
        BY <1>0, <1>1 DEF LocalsTyped
    <2>2. PICK n \in Mutex : <<id, n>> \in Contents(thread_locks) /\ mutexes[n] = u
        BY <2>1 DEF LockInv, HoldersOwn
    <2>3. n # m
        <3> SUFFICES ASSUME n = m PROVE FALSE
            OBVIOUS
        <3>1. u = t
            BY <1>2, <2>2
        <3>2. <<id, n>>[2] = <<arg[t], m>>[2]
            OBVIOUS
        <3>3. <<id, n>>[1] = <<arg[t], m>>[1]
            BY <1>2, <2>2, <3>2 DEF LockInv, MutexesUnshared
        <3> QED
            BY <2>1, <3>1, <3>3
    <2> QED
        BY <1>4, <2>2, <2>3
<1>9. RetakersOwn'
    <2>1. ASSUME NEW u \in Threads, u # t, pc[u] = "tlock:retake" PROVE mutexes'[saved[u].m] = u
        BY <1>0, <1>2, <1>4, <2>1 DEF LockInv, RetakersOwn, WaitsTyped, WaitLines
    <2> QED
        BY <1>0, <1>1, <2>1 DEF LocalsTyped, RetakersOwn
<1> QED
    BY <1>5, <1>6, <1>7, <1>8, <1>9 DEF LockInv

(* A stuttering step keeps the invariant.                                  *)
LEMMA LockInvStutter ==
    ASSUME LockInv, UNCHANGED vars
    PROVE  LockInv'
<1>1. UNCHANGED <<pc, arg, saved, lock_lock, priority_lock, mutexes, holds, calls, setVars>>
    BY DEF vars
<1>2. thread_locks' = thread_locks /\ at' = at /\ call' = call /\ Mutex' = Mutex
    BY <1>1 DEF setVars, thread_locks, Outer, Mutex
<1> QED
    BY <1>1, <1>2 DEF LockInv, WaitersAlone, WaitersFindSlot, MutexesUnshared, NewMutex, HoldersOwn,
        RetakersOwn, CallsPaired

(* The invariant of the locks, in behaviours in which no table is copied   *)
(* under a waiting thread.                                                 *)
LEMMA LockInvHolds ==
    Spec /\ []CopiesUnwatched => []LockInv
<1>1. TypeInv /\ LockInv /\ CopiesUnwatched /\ CopiesUnwatched' /\ [Next]_vars => LockInv'
    <2> SUFFICES ASSUME TypeInv, LockInv, CopiesUnwatched, CopiesUnwatched', [Next]_vars
                 PROVE  LockInv'
        OBVIOUS
    <2> QED
        BY LockInvCall, LockInvNew, LockInvSet, LockInvMade, LockInvFound, LockInvPriority,
           LockInvMutex, LockInvRetake, LockInvUnlock, LockInvStutter DEF Next, Inside
<1> QED
    BY <1>1, LockInvInit, TypeInvHolds, PTL DEF Spec

(* The locks exclude, in behaviours in which no table is copied under a    *)
(* waiting thread.                                                         *)
THEOREM LocksExclude ==
    Spec => ExclusiveUnlessCopied
<1>1. TypeInv /\ LockInv => MutualExclusion
    <2> SUFFICES ASSUME TypeInv, LockInv, NEW t \in Threads, NEW u \in Threads,
                        NEW id \in holds[t] \cap holds[u]
                 PROVE  t = u
        BY DEF MutualExclusion
    <2>1. TablesTyped /\ id \in Ids
        BY DEF TypeInv, LocalsTyped
    <2>2. PICK m \in Mutex : <<id, m>> \in Contents(thread_locks) /\ mutexes[m] = t
        BY DEF LockInv, HoldersOwn
    <2>3. PICK n \in Mutex : <<id, n>> \in Contents(thread_locks) /\ mutexes[n] = u
        BY DEF LockInv, HoldersOwn
    <2> QED
        BY <2>1, <2>2, <2>3, IdUnique
<1> QED
    BY <1>1, TypeInvHolds, LockInvHolds, PTL DEF ExclusiveUnlessCopied

(* In the same behaviours the table leads from each locked id to a mutex   *)
(* that the thread which locked the id owns.                               *)
THEOREM HoldersOwnTheirMutex ==
    Spec => OwnedUnlessCopied
<1>1. TypeInv /\ LockInv => HolderOwnsMutex
    <2> SUFFICES ASSUME TypeInv, LockInv, NEW t \in Threads, NEW id \in holds[t]
                 PROVE  SlotOf(id) # -1 /\ mutexes[MutexOf(id)] = t
        BY DEF HolderOwnsMutex
    <2>1. TablesTyped /\ LocalsTyped /\ id \in Ids
        BY DEF TypeInv, LocalsTyped
    <2>2. PICK m \in Mutex : <<id, m>> \in Contents(thread_locks) /\ mutexes[m] = t
        BY DEF LockInv, HoldersOwn
    <2> QED
        BY <2>1, <2>2, SlotPresent
<1> QED
    BY <1>1, TypeInvHolds, LockInvHolds, PTL DEF OwnedUnlessCopied
=============================================================================
