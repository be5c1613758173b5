------------------------- MODULE ThreadBufferProofs -------------------------
(***************************************************************************)
(* Theorems about ThreadBuffer for any number of threads, buffers and      *)
(* values, any functions passed to mod, and all uses of buffers.           *)
(***************************************************************************)
EXTENDS ThreadBuffer, SequenceTheorems, TLAPS

-----------------------------------------------------------------------------
(* Stacks: what pushing, popping and emptying do to the bottom.            *)
LEMMA PushItem ==
    ASSUME NEW s \in Seq(Items), NEW x \in Items
    PROVE  /\ Append(s, x) \in Seq(Items)
           /\ Append(s, x) # <<>>
           /\ Len(Append(s, x)) = Len(s) + 1
           /\ s = <<>> => Bottom(Append(s, x)) = x
           /\ s # <<>> => Bottom(Append(s, x)) = Bottom(s)
    BY DEF Bottom

(* A pop leaves items.                                                     *)
LEMMA PopItem ==
    ASSUME NEW s \in Seq(Items), s # <<>>
    PROVE  LET r == SubSeq(s, 1, Len(s) - 1) IN
           /\ r \in Seq(Items)
           /\ r = <<>> \/ Bottom(r) = Bottom(s)
<1>1. Len(s) \in Nat \ {0}
    BY EmptySeq, LenProperties
<1> QED
    BY <1>1 DEF Bottom

(* What is copied is an item.                                              *)
LEMMA TopItem ==
    ASSUME NEW s \in Seq(Items)
    PROVE  Top(s) \in Items /\ Bottom(s) \in Items
<1>1. CASE s = <<>>
    BY <1>1 DEF Top, Bottom, Items
<1>2. CASE s # <<>>
    <2>1. Len(s) \in 1 .. Len(s) /\ 1 \in 1 .. Len(s)
        BY <1>2, EmptySeq, LenProperties
    <2> QED
        BY <1>2, <2>1, ElementOfSeq DEF Top, Bottom
<1> QED
    BY <1>1, <1>2

\* A list that names no buffer twice.
Differ(s) == \A i, j \in 1 .. Len(s) : s[i] = s[j] => i = j

(* The buffers of a thread's calls when it enters one ...                  *)
LEMMA EnteredCalls ==
    ASSUME NEW s \in Seq(Buffers), NEW b \in Buffers
    PROVE  LET r == Append(s, b) IN
           /\ r \in Seq(Buffers) /\ r # <<>>
           /\ Len(s) \in Nat /\ Len(r) = Len(s) + 1 /\ r[Len(r)] = b
           /\ \A i \in 1 .. Len(s) : r[i] = s[i]
    OBVIOUS

(* The new list names the buffers of the old one and the new buffer.      *)
LEMMA EnteredOn ==
    ASSUME NEW s \in Seq(Buffers), NEW b \in Buffers
    PROVE  LET r == Append(s, b) IN
           /\ \A c : On(r, c) <=> On(s, c) \/ c = b
           /\ Differ(s) /\ ~On(s, b) => Differ(r)
<1> DEFINE r == Append(s, b)
<1>1. /\ Len(s) \in Nat /\ Len(r) = Len(s) + 1 /\ r[Len(r)] = b
      /\ \A i \in 1 .. Len(s) : r[i] = s[i]
    BY EnteredCalls
<1> HIDE DEF r
<1>2. ASSUME NEW c PROVE On(r, c) <=> On(s, c) \/ c = b
    <2>1. ASSUME On(r, c) PROVE On(s, c) \/ c = b
        <3>1. PICK i \in 1 .. Len(r) : r[i] = c
            BY <2>1 DEF On
        <3>2. i \in 1 .. Len(s) \/ i = Len(r)
            BY <1>1, <3>1
        <3> QED
            BY <1>1, <3>1, <3>2 DEF On
    <2>2. ASSUME On(s, c) PROVE On(r, c)
        <3>1. PICK i \in 1 .. Len(s) : s[i] = c
            BY <2>2 DEF On
        <3>2. i \in 1 .. Len(r) /\ r[i] = c
            BY <1>1, <3>1
        <3> QED
            BY <3>2 DEF On
    <2>3. ASSUME c = b PROVE On(r, c)
        <3>1. Len(r) \in 1 .. Len(r)
            BY <1>1
        <3> QED
            BY <1>1, <2>3, <3>1 DEF On
    <2> QED
        BY <2>1, <2>2, <2>3
<1>3. ASSUME Differ(s), ~On(s, b) PROVE Differ(r)
    <2> SUFFICES ASSUME NEW i \in 1 .. Len(r), NEW j \in 1 .. Len(r), r[i] = r[j]
                 PROVE  i = j
        BY DEF Differ
    <2>1. \A k \in 1 .. Len(s) : s[k] # b
        BY <1>3 DEF On
    <2>2. (i \in 1 .. Len(s) \/ i = Len(r)) /\ (j \in 1 .. Len(s) \/ j = Len(r))
        BY <1>1
    <2> QED
        BY <1>1, <1>3, <2>1, <2>2 DEF Differ
<1> QED
    BY <1>2, <1>3 DEF r

(* ... and when it leaves it.                                              *)
LEMMA LeftCalls ==
    ASSUME NEW s \in Seq(Buffers), s # <<>>
    PROVE  LET r == SubSeq(s, 1, Len(s) - 1) IN
           /\ r \in Seq(Buffers)
           /\ Len(s) \in Nat \ {0} /\ Len(r) \in Nat /\ Len(r) = Len(s) - 1
           /\ \A i \in 1 .. Len(r) : r[i] = s[i]
           /\ s[Len(s)] \in Buffers
           /\ r = <<>> <=> Len(s) = 1
<1> DEFINE r == SubSeq(s, 1, Len(s) - 1)
<1>1. Len(s) \in Nat \ {0}
    BY EmptySeq, LenProperties
<1>2. r \in Seq(Buffers) /\ Len(r) = Len(s) - 1 /\ \A i \in 1 .. Len(r) : r[i] = s[i]
    <2>1. 1 \in 1 .. Len(s) + 1 /\ Len(s) - 1 \in 1 - 1 .. Len(s)
        BY <1>1
    <2>2. (Len(s) - 1) - 1 + 1 = Len(s) - 1 /\ \A i \in 1 .. Len(s) : 1 + i - 1 = i
        BY <1>1
    <2> QED
        BY <1>1, <2>1, <2>2, SubSeqProperties
<1>3. s[Len(s)] \in Buffers
    BY <1>1, ElementOfSeq
<1>4. r = <<>> <=> Len(s) = 1
    <2> HIDE DEF r
    <2> QED
        BY <1>1, <1>2, EmptySeq
<1> QED
    BY <1>1, <1>2, <1>3, <1>4

(* The list without its last entry names the others, that one not.        *)
LEMMA LeftOn ==
    ASSUME NEW s \in Seq(Buffers), s # <<>>, Differ(s)
    PROVE  LET r == SubSeq(s, 1, Len(s) - 1) IN
           /\ \A c : On(r, c) <=> On(s, c) /\ c # s[Len(s)]
           /\ Differ(r)
<1> DEFINE r == SubSeq(s, 1, Len(s) - 1)
<1>1. /\ Len(s) \in Nat \ {0} /\ Len(r) \in Nat /\ Len(r) = Len(s) - 1
      /\ \A i \in 1 .. Len(r) : r[i] = s[i]
    BY LeftCalls
<1> HIDE DEF r
<1>2. ASSUME NEW c PROVE On(r, c) <=> On(s, c) /\ c # s[Len(s)]
    <2>1. ASSUME On(r, c) PROVE On(s, c) /\ c # s[Len(s)]
        <3>1. PICK i \in 1 .. Len(r) : r[i] = c
            BY <2>1 DEF On
        <3>2. i \in 1 .. Len(s) /\ s[i] = c /\ i # Len(s) /\ Len(s) \in 1 .. Len(s)
            BY <1>1, <3>1
        <3> QED
            BY <3>2 DEF On, Differ
    <2>2. ASSUME On(s, c), c # s[Len(s)] PROVE On(r, c)
        <3>1. PICK i \in 1 .. Len(s) : s[i] = c
            BY <2>2 DEF On
        <3>2. i \in 1 .. Len(r) /\ r[i] = c
            BY <1>1, <2>2, <3>1
        <3> QED
            BY <3>2 DEF On
    <2> QED
        BY <2>1, <2>2
<1>3. Differ(r)
    <2>1. 1 .. Len(r) \subseteq 1 .. Len(s)
        BY <1>1
    <2> QED
        BY <1>1, <2>1 DEF Differ
<1> QED
    BY <1>2, <1>3 DEF r

-----------------------------------------------------------------------------
(* Every step keeps the types.                                             *)
LEMMA TypeStep == BufferTypeOK /\ [BufferNext]_bufferVars => BufferTypeOK'
<1> SUFFICES ASSUME BufferTypeOK, [BufferNext]_bufferVars PROVE BufferTypeOK'
    OBVIOUS
<1> USE BufferAssumption DEF BufferTypeOK, Lines, Items, InLua, Locks, Enters, IsAt,
        GoesTo, Leaves, Unlocks, FunctionEnds, Indexes, Innermost
<1>1. ASSUME NEW t \in Threads, NEW b \in Buffers,
           Get(t, b)
    PROVE  BufferTypeOK'
    BY <1>1, TopItem DEF Get
<1>2. ASSUME NEW t \in Threads, NEW b \in Buffers, NEW v \in Contents,
           SetClear(t, b, v)
    PROVE  BufferTypeOK'
    <2>1. Append(calls[t], b) \in Seq(Buffers) /\ Append(calls[t], b) # <<>>
        BY EnteredCalls
    <2>2. slots' \in [Buffers -> Seq(Items)] /\ lock' \in [Buffers -> Threads \cup {Nobody}]
        BY <1>2, EmptySeq DEF SetClear
    <2>3. /\ place' \in [Threads -> Lines] /\ calls' \in [Threads -> Seq(Buffers)]
          /\ val' \in [Threads -> Items]
          /\ \A u \in Threads : /\ place'[u] \in {"set:push", "mod:push"} => val'[u] \in Contents
                                /\ place'[u] = "idle" <=> calls'[u] = <<>>
        BY <1>2, <2>1 DEF SetClear
    <2> QED
        BY <1>2, <2>2, <2>3 DEF SetClear
<1>3. ASSUME NEW t \in Threads, NEW b \in Buffers,
           SetPush(t, b)
    PROVE  BufferTypeOK'
    BY <1>3, PushItem, LeftCalls DEF SetPush
<1>4. ASSUME NEW t \in Threads, NEW b \in Buffers,
           ModAssert(t, b)
    PROVE  BufferTypeOK'
    <2>1. Append(calls[t], b) \in Seq(Buffers) /\ Append(calls[t], b) # <<>>
        BY EnteredCalls
    <2> QED
        BY <1>4, <2>1 DEF ModAssert
<1>5. ASSUME NEW t \in Threads, NEW b \in Buffers,
           ModAbort(t, b)
    PROVE  BufferTypeOK'
    BY <1>5 DEF ModAbort
<1>6. ASSUME NEW t \in Threads, NEW b \in Buffers,
           ModUse(t, b)
    PROVE  BufferTypeOK'
    BY <1>6 DEF ModUse
<1>7. ASSUME NEW t \in Threads, NEW b \in Buffers,
           ModCopy(t, b)
    PROVE  BufferTypeOK'
    BY <1>7, TopItem DEF ModCopy
<1>8. ASSUME NEW t \in Threads, NEW b \in Buffers, NEW f \in Mods,
           ModNil(t, b, f)
    PROVE  BufferTypeOK'
    BY <1>8 DEF ModNil
<1>9. ASSUME NEW t \in Threads, NEW b \in Buffers, NEW f \in Mods,
           ModClear(t, b, f)
    PROVE  BufferTypeOK'
    BY <1>9, EmptySeq DEF ModClear
<1>10. ASSUME NEW t \in Threads, NEW b \in Buffers,
           ModPush(t, b)
    PROVE  BufferTypeOK'
    BY <1>10, PushItem DEF ModPush
<1>11. ASSUME NEW t \in Threads, NEW b \in Buffers,
           ModEnd(t, b)
    PROVE  BufferTypeOK'
    BY <1>11, LeftCalls DEF ModEnd
<1>12. ASSUME NEW t \in Threads, NEW b \in Buffers,
           ModError(t, b)
    PROVE  BufferTypeOK'
    BY <1>12, LeftCalls DEF ModError
<1>13. ASSUME NEW t \in Threads, NEW b \in Buffers,
           Stuck(t, b)
    PROVE  BufferTypeOK'
    BY <1>13 DEF Stuck
<1>14. ASSUME NEW t \in Threads, NEW b \in Buffers,
           IndexNil(t, b)
    PROVE  BufferTypeOK'
    BY <1>14, PushItem DEF IndexNil
<1>15. ASSUME NEW t \in Threads, NEW b \in Buffers,
           IndexField(t, b)
    PROVE  BufferTypeOK'
    BY <1>15, PushItem DEF IndexField
<1>16. ASSUME NEW t \in Threads, NEW b \in Buffers,
           IndexPop(t, b)
    PROVE  BufferTypeOK'
    BY <1>16, PopItem DEF IndexPop
<1>17. ASSUME NEW t \in Threads, NEW b \in Buffers,
           IndexPanic(t, b)
    PROVE  BufferTypeOK'
    BY <1>17 DEF IndexPanic
<1>18. ASSUME NEW t \in Threads, NEW b \in Buffers,
           UseFreed(t, b)
    PROVE  BufferTypeOK'
    BY <1>18 DEF UseFreed
<1>19. ASSUME NEW b \in Buffers, Gc(b) PROVE BufferTypeOK'
    BY <1>19 DEF Gc
<1>20. CASE UNCHANGED bufferVars
    BY <1>20 DEF bufferVars
<1> QED
    BY <1>1, <1>2, <1>3, <1>4, <1>5, <1>6, <1>7, <1>8, <1>9, <1>10,
       <1>11, <1>12, <1>13, <1>14, <1>15, <1>16, <1>17, <1>18, <1>19,
       <1>20
    DEF BufferNext, Locked, Unlocked

-----------------------------------------------------------------------------
(* The inductive invariant.                                                *)

\* A thread is in one call on a buffer at most.
CallsDiffer == \A t \in Threads : Differ(calls[t])

\* t is in a mod.
InMod(t) == Len(calls[t]) > 1 \/ place[t] \in StoredLines \cup {"mod:use"}

(* Unless two mods were between the assertion and the store together, one  *)
(* mod is under way at most, in all buffers together, none after an error, *)
(* and its function has called a set at most.                              *)
OneMod ==
    ~raced =>
        /\ \A t \in Threads : Len(calls[t]) > 1 => Len(calls[t]) = 2 /\ place[t] = "set:push"
        /\ \A t, u \in Threads : InMod(t) /\ InMod(u) => t = u
        /\ raised # {} => \A t \in Threads : ~InMod(t)

\* The function of a mod of b runs in t.
InFunction(t, b) ==
    \E i \in 1 .. Len(calls[t]) :
        /\ calls[t][i] = b
        /\ i < Len(calls[t]) \/ place[t] \in {"mod:call", "stuck"}

\* The value that a mod has copied is at the bottom of the stack, unless an
\* index has taken it off.
CopyCurrentOf(t, b) ==
    InFunction(t, b) /\ b \notin misread =>
        slots[b] = <<>> \/ Bottom(slots[b]) = seen[b]

(* It stays there until the mod stores its result.                         *)
CopyCurrent == \A t \in Threads, b \in Buffers : CopyCurrentOf(t, b)

Inv == /\ BufferTypeOK /\ MutexMatchesCalls /\ CallsDiffer
       /\ OneMod /\ UsedMatchesMods /\ CopyCurrent

\* The part about the mutexes.
Mutexes == MutexMatchesCalls /\ CallsDiffer

(* A call that enters with the mutex.                                      *)
LEMMA EnterMutex ==
    ASSUME BufferTypeOK, Mutexes, NEW t \in Threads, NEW b \in Buffers, NEW line,
           lock[b] = Nobody, Enters(t, b, line), UNCHANGED raised
    PROVE  Mutexes'
<1> USE BufferAssumption
<1>1. /\ lock' = [lock EXCEPT ![b] = t] /\ calls'[t] = Append(calls[t], b)
      /\ \A u \in Threads \ {t} : calls'[u] = calls[u]
      /\ calls[t] \in Seq(Buffers)
    BY DEF Enters, BufferTypeOK
<1>3. \A u \in Threads : ~On(calls[u], b)
    BY DEF Mutexes, MutexMatchesCalls, InCall
<1>4. \A c : On(calls'[t], c) <=> On(calls[t], c) \/ c = b
    BY <1>1, EnteredOn
<1>6. CallsDiffer'
    <2>1. Differ(calls'[t])
        BY <1>1, <1>3, EnteredOn DEF Mutexes, CallsDiffer
    <2> QED
        BY <1>1, <2>1 DEF Mutexes, CallsDiffer
<1>7. MutexMatchesCalls'
    BY <1>1, <1>3, <1>4 DEF Mutexes, MutexMatchesCalls, InCall, BufferTypeOK
<1> QED
    BY <1>6, <1>7 DEF Mutexes

(* What leaving a call does to the calls.                                  *)
LEMMA LeaveCalls ==
    ASSUME BufferTypeOK, CallsDiffer, NEW t \in Threads, calls[t] # <<>>, Leaves(t)
    PROVE  /\ CallsDiffer'
           /\ \A c : On(calls'[t], c) <=> On(calls[t], c) /\ c # Innermost(t)
           /\ \A u \in Threads \ {t} : calls'[u] = calls[u]
<1>1. /\ calls'[t] = SubSeq(calls[t], 1, Len(calls[t]) - 1)
      /\ \A u \in Threads \ {t} : calls'[u] = calls[u]
      /\ calls[t] \in Seq(Buffers)
    BY DEF Leaves, BufferTypeOK
<1>3. /\ \A c : On(calls'[t], c) <=> On(calls[t], c) /\ c # calls[t][Len(calls[t])]
      /\ Differ(calls'[t])
    BY <1>1, LeftOn DEF CallsDiffer
<1> QED
    BY <1>1, <1>3 DEF CallsDiffer, Innermost

(* A call that gives the mutex back.                                       *)
LEMMA LeaveMutex ==
    ASSUME BufferTypeOK, Mutexes, NEW t \in Threads, NEW b \in Buffers,
           calls[t] # <<>>, Innermost(t) = b, Leaves(t),
           \/ Unlocks(b) /\ UNCHANGED raised
           \/ UNCHANGED lock /\ raised' = raised \cup {b}
    PROVE  Mutexes'
<1> USE BufferAssumption
<1>1. /\ CallsDiffer'
      /\ \A c : On(calls'[t], c) <=> On(calls[t], c) /\ c # b
      /\ \A u \in Threads \ {t} : calls'[u] = calls[u]
    BY LeaveCalls DEF Mutexes
<1>2. On(calls[t], b)
    <2>1. Len(calls[t]) \in 1 .. Len(calls[t])
        BY LeftCalls DEF BufferTypeOK
    <2> QED
        BY <2>1 DEF On, Innermost
<1>3. MutexMatchesCalls'
    <2>1. CASE Unlocks(b) /\ UNCHANGED raised
        BY <1>1, <1>2, <2>1 DEF Unlocks, Mutexes, MutexMatchesCalls, InCall, BufferTypeOK
    <2>2. CASE UNCHANGED lock /\ raised' = raised \cup {b}
        BY <1>1, <1>2, <2>2 DEF Mutexes, MutexMatchesCalls, InCall, BufferTypeOK
    <2> QED
        BY <2>1, <2>2
<1> QED
    BY <1>1, <1>3 DEF Mutexes

(* A step inside a call, or in none.                                       *)
LEMMA KeepMutex ==
    ASSUME Mutexes, UNCHANGED <<calls, lock, raised>>
    PROVE  Mutexes'
    BY DEF Mutexes, MutexMatchesCalls, CallsDiffer, InCall

(* The mutex.                                                              *)
LEMMA MutexStep ==
    BufferTypeOK /\ Mutexes /\ [BufferNext]_bufferVars => Mutexes'
<1> SUFFICES ASSUME BufferTypeOK, Mutexes, [BufferNext]_bufferVars PROVE Mutexes'
    OBVIOUS
<1>1. ASSUME NEW t \in Threads, NEW b \in Buffers,
           Get(t, b)
    PROVE  Mutexes'
    BY <1>1, KeepMutex DEF Get
<1>2. ASSUME NEW t \in Threads, NEW b \in Buffers, NEW v \in Contents,
           SetClear(t, b, v)
    PROVE  Mutexes'
    BY <1>2, EnterMutex DEF SetClear, Locks
<1>3. ASSUME NEW t \in Threads, NEW b \in Buffers,
           SetPush(t, b)
    PROVE  Mutexes'
    BY <1>3, LeaveMutex DEF SetPush, IsAt
<1>4. ASSUME NEW t \in Threads, NEW b \in Buffers,
           ModAssert(t, b)
    PROVE  Mutexes'
    BY <1>4, EnterMutex DEF ModAssert, Locks
<1>5. ASSUME NEW t \in Threads, NEW b \in Buffers,
           ModAbort(t, b)
    PROVE  Mutexes'
    BY <1>5, KeepMutex DEF ModAbort
<1>6. ASSUME NEW t \in Threads, NEW b \in Buffers,
           ModUse(t, b)
    PROVE  Mutexes'
    BY <1>6, KeepMutex DEF ModUse
<1>7. ASSUME NEW t \in Threads, NEW b \in Buffers,
           ModCopy(t, b)
    PROVE  Mutexes'
    BY <1>7, KeepMutex DEF ModCopy
<1>8. ASSUME NEW t \in Threads, NEW b \in Buffers, NEW f \in Mods,
           ModNil(t, b, f)
    PROVE  Mutexes'
    BY <1>8, KeepMutex DEF ModNil
<1>9. ASSUME NEW t \in Threads, NEW b \in Buffers, NEW f \in Mods,
           ModClear(t, b, f)
    PROVE  Mutexes'
    BY <1>9, KeepMutex DEF ModClear
<1>10. ASSUME NEW t \in Threads, NEW b \in Buffers,
           ModPush(t, b)
    PROVE  Mutexes'
    BY <1>10, KeepMutex DEF ModPush
<1>11. ASSUME NEW t \in Threads, NEW b \in Buffers,
           ModEnd(t, b)
    PROVE  Mutexes'
    BY <1>11, LeaveMutex DEF ModEnd, IsAt
<1>12. ASSUME NEW t \in Threads, NEW b \in Buffers,
           ModError(t, b)
    PROVE  Mutexes'
    BY <1>12, LeaveMutex DEF ModError, IsAt
<1>13. ASSUME NEW t \in Threads, NEW b \in Buffers,
           Stuck(t, b)
    PROVE  Mutexes'
    BY <1>13, KeepMutex DEF Stuck
<1>14. ASSUME NEW t \in Threads, NEW b \in Buffers,
           IndexNil(t, b)
    PROVE  Mutexes'
    BY <1>14, KeepMutex DEF IndexNil
<1>15. ASSUME NEW t \in Threads, NEW b \in Buffers,
           IndexField(t, b)
    PROVE  Mutexes'
    BY <1>15, KeepMutex DEF IndexField
<1>16. ASSUME NEW t \in Threads, NEW b \in Buffers,
           IndexPop(t, b)
    PROVE  Mutexes'
    BY <1>16, KeepMutex DEF IndexPop
<1>17. ASSUME NEW t \in Threads, NEW b \in Buffers,
           IndexPanic(t, b)
    PROVE  Mutexes'
    BY <1>17, KeepMutex DEF IndexPanic
<1>18. ASSUME NEW t \in Threads, NEW b \in Buffers,
           UseFreed(t, b)
    PROVE  Mutexes'
    BY <1>18, KeepMutex DEF UseFreed
<1>19. ASSUME NEW b \in Buffers, Gc(b) PROVE Mutexes'
    BY <1>19, KeepMutex DEF Gc
<1>20. CASE UNCHANGED bufferVars
    BY <1>20, KeepMutex DEF bufferVars
<1> QED
    BY <1>1, <1>2, <1>3, <1>4, <1>5, <1>6, <1>7, <1>8, <1>9, <1>10,
       <1>11, <1>12, <1>13, <1>14, <1>15, <1>16, <1>17, <1>18, <1>19,
       <1>20
    DEF BufferNext, Locked, Unlocked

\* The part about `used'.
Flag == OneMod /\ UsedMatchesMods

(* The number of a thread's calls when it leaves one.                      *)
LEMMA LeaveLens ==
    ASSUME BufferTypeOK, NEW t \in Threads, calls[t] # <<>>, Leaves(t)
    PROVE  /\ Len(calls[t]) = 1 \/ Len(calls[t]) > 1
           /\ Len(calls[t]) = 1 => ~(Len(calls[t]) > 1) /\ ~(Len(calls'[t]) > 1)
           /\ Len(calls[t]) = 2 => ~(Len(calls'[t]) > 1)
           /\ Len(calls[t]) > 1 => Len(calls[t]) # 1
           /\ \A u \in Threads \ {t} : calls'[u] = calls[u]
<1>1. PICK n \in Nat \ {0} : n = Len(calls[t])
    BY LeftCalls DEF BufferTypeOK
<1>2. PICK m \in Nat : m = Len(calls'[t])
    BY LeftCalls DEF BufferTypeOK, Leaves
<1>3. m = n - 1
    BY <1>1, <1>2, LeftCalls DEF BufferTypeOK, Leaves
<1>4. /\ n = 1 \/ n > 1
      /\ n = 1 => ~(n > 1) /\ ~(m > 1)
      /\ n = 2 => ~(m > 1)
      /\ n > 1 => n # 1
    BY <1>3
<1>5. \A u \in Threads \ {t} : calls'[u] = calls[u]
    BY DEF Leaves, BufferTypeOK
<1> QED
    BY <1>1, <1>2, <1>4, <1>5

(* `used'.                                                                 *)
LEMMA FlagStep ==
    BufferTypeOK /\ Flag /\ [BufferNext]_bufferVars => Flag'
<1> SUFFICES ASSUME BufferTypeOK, Flag, [BufferNext]_bufferVars PROVE Flag'
    OBVIOUS
<1> USE BufferAssumption DEF BufferTypeOK, Flag, OneMod, UsedMatchesMods, InMod, HasStored,
        StoredLines, InLua, Locks, Enters, IsAt, GoesTo, Leaves
<1>1. ASSUME NEW t \in Threads, NEW b \in Buffers,
           Get(t, b)
    PROVE  Flag'
    BY <1>1 DEF Get
<1>2. ASSUME NEW t \in Threads, NEW b \in Buffers, NEW v \in Contents,
           SetClear(t, b, v)
    PROVE  Flag'
    <2>1. /\ Len(calls[t]) \in Nat /\ Len(calls'[t]) = Len(calls[t]) + 1
          /\ calls[t] = <<>> <=> Len(calls[t]) = 0
          /\ \A u \in Threads \ {t} : calls'[u] = calls[u]
        BY <1>2, EnteredCalls DEF SetClear
    <2> QED
        BY <1>2, <2>1 DEF SetClear
<1>3. ASSUME NEW t \in Threads, NEW b \in Buffers,
           SetPush(t, b)
    PROVE  Flag'
    <2>1. /\ Len(calls[t]) = 1 \/ Len(calls[t]) > 1
          /\ Len(calls[t]) = 1 => ~(Len(calls[t]) > 1) /\ ~(Len(calls'[t]) > 1)
          /\ Len(calls[t]) = 2 => ~(Len(calls'[t]) > 1)
          /\ Len(calls[t]) > 1 => Len(calls[t]) # 1
          /\ \A u \in Threads \ {t} : calls'[u] = calls[u]
        BY <1>3, LeaveLens DEF SetPush
    <2>2. /\ place[t] = "set:push" /\ UNCHANGED <<used, raced, raised>>
          /\ place'[t] = IF Len(calls[t]) = 1 THEN "idle" ELSE "mod:call"
          /\ \A u \in Threads \ {t} : place'[u] = place[u]
        BY <1>3 DEF SetPush
    <2>3. /\ HasStored(t)' <=> Len(calls[t]) > 1
          /\ HasStored(t) <=> Len(calls[t]) > 1
          /\ InMod(t)' <=> Len(calls[t]) > 1
          /\ InMod(t) <=> Len(calls[t]) > 1
        BY <2>1, <2>2
    <2>4. \A u \in Threads \ {t} : (HasStored(u)' <=> HasStored(u)) /\ (InMod(u)' <=> InMod(u))
        BY <2>1, <2>2
    <2>5. \A u \in Threads : (HasStored(u)' <=> HasStored(u)) /\ (InMod(u)' <=> InMod(u))
        BY <2>3, <2>4
    <2>6. ~raced => \A u \in Threads :
             Len(calls'[u]) > 1 => Len(calls'[u]) = 2 /\ place'[u] = "set:push"
        BY <2>1, <2>2
    <2>7. OneMod'
        BY <2>2, <2>5, <2>6
    <2>8. UsedMatchesMods'
        BY <2>2, <2>5
    <2> QED
        BY <2>7, <2>8
<1>4. ASSUME NEW t \in Threads, NEW b \in Buffers,
           ModAssert(t, b)
    PROVE  Flag'
    <2>1. /\ Len(calls[t]) \in Nat /\ Len(calls'[t]) = Len(calls[t]) + 1
          /\ calls[t] = <<>> <=> Len(calls[t]) = 0
          /\ \A u \in Threads \ {t} : calls'[u] = calls[u]
        BY <1>4, EnteredCalls DEF ModAssert
    <2>2. /\ used = 0 /\ used' = 0 /\ UNCHANGED raised
          /\ raced' = (raced \/ \E u \in Threads : place[u] = "mod:use")
          /\ place'[t] = "mod:use" /\ \A u \in Threads \ {t} : place'[u] = place[u]
          /\ place[t] \in {"idle", "mod:call"}
        BY <1>4 DEF ModAssert
    <2>3. CASE raced'
        BY <2>2, <2>3
    <2>4. CASE ~raced'
        <3>1. ~raced /\ \A u \in Threads : place[u] # "mod:use"
            BY <2>2, <2>4
        <3>2. raised = {} /\ \A u \in Threads : ~HasStored(u)
            BY <2>2, <3>1
        <3>3. Len(calls'[t]) = 1
            BY <2>1, <2>2, <3>2
        <3>4. ~(Len(calls'[t]) > 1) /\ ~HasStored(t)'
            BY <2>2, <3>3
        <3>5. \A u \in Threads \ {t} : ~HasStored(u)' /\ ~InMod(u)'
            BY <2>1, <2>2, <3>1, <3>2
        <3> QED
            BY <2>1, <2>2, <3>2, <3>4, <3>5
    <2> QED
        BY <2>3, <2>4
<1>5. ASSUME NEW t \in Threads, NEW b \in Buffers,
           ModAbort(t, b)
    PROVE  Flag'
    BY <1>5 DEF ModAbort
<1>6. ASSUME NEW t \in Threads, NEW b \in Buffers,
           ModUse(t, b)
    PROVE  Flag'
    BY <1>6 DEF ModUse
<1>7. ASSUME NEW t \in Threads, NEW b \in Buffers,
           ModCopy(t, b)
    PROVE  Flag'
    BY <1>7 DEF ModCopy
<1>8. ASSUME NEW t \in Threads, NEW b \in Buffers, NEW f \in Mods,
           ModNil(t, b, f)
    PROVE  Flag'
    BY <1>8 DEF ModNil
<1>9. ASSUME NEW t \in Threads, NEW b \in Buffers, NEW f \in Mods,
           ModClear(t, b, f)
    PROVE  Flag'
    BY <1>9 DEF ModClear
<1>10. ASSUME NEW t \in Threads, NEW b \in Buffers,
           ModPush(t, b)
    PROVE  Flag'
    BY <1>10 DEF ModPush
<1>11. ASSUME NEW t \in Threads, NEW b \in Buffers,
           ModEnd(t, b)
    PROVE  Flag'
    <2>1. /\ Len(calls[t]) \in Nat \ {0} /\ Len(calls'[t]) = Len(calls[t]) - 1
          /\ \A u \in Threads \ {t} : calls'[u] = calls[u]
        BY <1>11, LeftCalls DEF ModEnd
    <2> QED
        BY <1>11, <2>1 DEF ModEnd
<1>12. ASSUME NEW t \in Threads, NEW b \in Buffers,
           ModError(t, b)
    PROVE  Flag'
    <2>1. /\ Len(calls[t]) \in Nat \ {0} /\ Len(calls'[t]) = Len(calls[t]) - 1
          /\ \A u \in Threads \ {t} : calls'[u] = calls[u]
        BY <1>12, LeftCalls DEF ModError
    <2> QED
        BY <1>12, <2>1 DEF ModError
<1>13. ASSUME NEW t \in Threads, NEW b \in Buffers,
           Stuck(t, b)
    PROVE  Flag'
    BY <1>13 DEF Stuck
<1>14. ASSUME NEW t \in Threads, NEW b \in Buffers,
           IndexNil(t, b)
    PROVE  Flag'
    BY <1>14 DEF IndexNil
<1>15. ASSUME NEW t \in Threads, NEW b \in Buffers,
           IndexField(t, b)
    PROVE  Flag'
    BY <1>15 DEF IndexField
<1>16. ASSUME NEW t \in Threads, NEW b \in Buffers,
           IndexPop(t, b)
    PROVE  Flag'
    BY <1>16 DEF IndexPop
<1>17. ASSUME NEW t \in Threads, NEW b \in Buffers,
           IndexPanic(t, b)
    PROVE  Flag'
    BY <1>17 DEF IndexPanic
<1>18. ASSUME NEW t \in Threads, NEW b \in Buffers,
           UseFreed(t, b)
    PROVE  Flag'
    BY <1>18 DEF UseFreed
<1>19. ASSUME NEW b \in Buffers, Gc(b) PROVE Flag'
    BY <1>19 DEF Gc
<1>20. CASE UNCHANGED bufferVars
    BY <1>20 DEF bufferVars
<1> QED
    BY <1>1, <1>2, <1>3, <1>4, <1>5, <1>6, <1>7, <1>8, <1>9, <1>10,
       <1>11, <1>12, <1>13, <1>14, <1>15, <1>16, <1>17, <1>18, <1>19,
       <1>20
    DEF BufferNext, Locked, Unlocked

-----------------------------------------------------------------------------
(* A step that leaves the stack, the copy and the functions under way of   *)
(* every buffer alone.                                                     *)
LEMMA KeepCopy ==
    ASSUME CopyCurrent, UNCHANGED <<slots, seen, misread>>,
           \A u \in Threads, c \in Buffers : InFunction(u, c)' => InFunction(u, c)
    PROVE  CopyCurrent'
    BY DEF CopyCurrent, CopyCurrentOf

(* A step after which no function of a mod of b is under way.              *)
LEMMA EndCopy ==
    ASSUME CopyCurrent, NEW b \in Buffers,
           \A c \in Buffers \ {b} : /\ slots'[c] = slots[c] /\ seen'[c] = seen[c]
                                    /\ c \in misread <=> c \in misread',
           \A u \in Threads, c \in Buffers :
               InFunction(u, c)' => InFunction(u, c) /\ c # b
    PROVE  CopyCurrent'
    BY DEF CopyCurrent, CopyCurrentOf

(* The functions under way when a thread enters a call ...                 *)
LEMMA EnterFunctions ==
    ASSUME BufferTypeOK, NEW t \in Threads, NEW b \in Buffers,
           place[t] \in {"idle", "mod:call"}, NEW line \in {"set:push", "mod:use"},
           Enters(t, b, line)
    PROVE  \A u \in Threads, c \in Buffers : InFunction(u, c)' => InFunction(u, c)
<1> SUFFICES ASSUME NEW u \in Threads, NEW c \in Buffers, InFunction(u, c)'
             PROVE  InFunction(u, c)
    OBVIOUS
<1>1. CASE u = t
    <2>1. /\ Len(calls[t]) \in Nat /\ Len(calls'[t]) = Len(calls[t]) + 1
          /\ \A i \in 1 .. Len(calls[t]) : calls'[t][i] = calls[t][i]
        BY EnteredCalls DEF BufferTypeOK, Enters
    <2>2. place'[t] \notin {"mod:call", "stuck"}
        BY DEF BufferTypeOK, Enters
    <2>3. PICK i \in 1 .. Len(calls'[t]) : calls'[t][i] = c /\ i < Len(calls'[t])
        BY <1>1, <2>2 DEF InFunction
    <2>4. i \in 1 .. Len(calls[t]) /\ calls[t][i] = c
        BY <2>1, <2>3
    <2>5. place[t] = "mod:call"
        BY <2>4 DEF BufferTypeOK
    <2> QED
        BY <1>1, <2>4, <2>5 DEF InFunction
<1>2. CASE u # t
    BY <1>2 DEF InFunction, Enters, BufferTypeOK
<1> QED
    BY <1>1, <1>2

(* ... and when it leaves one: that call is over.                          *)
LEMMA LeaveFunctions ==
    ASSUME BufferTypeOK, Mutexes, NEW t \in Threads, calls[t] # <<>>, Leaves(t)
    PROVE  \A u \in Threads, c \in Buffers :
               InFunction(u, c)' => InFunction(u, c) /\ c # Innermost(t)
<1> SUFFICES ASSUME NEW u \in Threads, NEW c \in Buffers, InFunction(u, c)'
             PROVE  InFunction(u, c) /\ c # Innermost(t)
    OBVIOUS
<1>0. /\ Len(calls[t]) \in Nat \ {0} /\ Len(calls'[t]) = Len(calls[t]) - 1
      /\ \A i \in 1 .. Len(calls'[t]) : calls'[t][i] = calls[t][i]
    BY LeftCalls DEF BufferTypeOK, Leaves
<1>1. CASE u = t
    <2>1. PICK i \in 1 .. Len(calls'[t]) : calls'[t][i] = c
        BY <1>1 DEF InFunction
    <2>2. i \in 1 .. Len(calls[t]) /\ i < Len(calls[t]) /\ calls[t][i] = c
        BY <1>0, <2>1
    <2>3. Len(calls[t]) \in 1 .. Len(calls[t]) /\ i # Len(calls[t])
        BY <1>0, <2>2
    <2>4. c # Innermost(t)
        BY <2>2, <2>3 DEF Mutexes, CallsDiffer, Differ, Innermost
    <2> QED
        BY <1>1, <2>2, <2>4 DEF InFunction
<1>2. CASE u # t
    <2>1. calls'[u] = calls[u] /\ place'[u] = place[u]
        BY <1>2 DEF Leaves, BufferTypeOK
    <2>2. InFunction(u, c)
        BY <2>1 DEF InFunction
    <2>3. On(calls[u], c)
        BY <2>2 DEF InFunction, On
    <2>4. On(calls[t], Innermost(t))
        BY <1>0 DEF On, Innermost
    <2>5. Innermost(t) \in Buffers
        BY LeftCalls DEF BufferTypeOK, Innermost
    <2> QED
        BY <1>2, <2>2, <2>3, <2>4, <2>5 DEF Mutexes, MutexMatchesCalls, InCall
<1> QED
    BY <1>1, <1>2

(* A step of t inside its innermost call that is not, or no longer, in the *)
(* function: no function of a mod of that buffer is under way.             *)
LEMMA InsideFunctions ==
    ASSUME BufferTypeOK, Mutexes, NEW t \in Threads, calls[t] # <<>>,
           NEW line \in {"mod:copy", "mod:push", "mod:end"},
           GoesTo(t, line), UNCHANGED calls
    PROVE  \A u \in Threads, c \in Buffers :
               InFunction(u, c)' => InFunction(u, c) /\ c # Innermost(t)
<1> SUFFICES ASSUME NEW u \in Threads, NEW c \in Buffers, InFunction(u, c)'
             PROVE  InFunction(u, c) /\ c # Innermost(t)
    OBVIOUS
<1>0. Len(calls[t]) \in Nat \ {0} /\ Innermost(t) \in Buffers
    BY LeftCalls DEF BufferTypeOK, Innermost
<1>1. CASE u = t
    <2>1. PICK i \in 1 .. Len(calls[t]) : calls[t][i] = c /\ i < Len(calls[t])
        BY <1>1 DEF InFunction, GoesTo, BufferTypeOK
    <2>2. Len(calls[t]) \in 1 .. Len(calls[t]) /\ i # Len(calls[t])
        BY <1>0, <2>1
    <2>3. c # Innermost(t)
        BY <2>1, <2>2 DEF Mutexes, CallsDiffer, Differ, Innermost
    <2> QED
        BY <1>1, <2>1, <2>3 DEF InFunction
<1>2. CASE u # t
    <2>1. InFunction(u, c)
        BY <1>2 DEF InFunction, GoesTo, BufferTypeOK
    <2>2. On(calls[u], c)
        BY <2>1 DEF InFunction, On
    <2>3. On(calls[t], Innermost(t))
        BY <1>0 DEF On, Innermost
    <2> QED
        BY <1>0, <1>2, <2>1, <2>2, <2>3 DEF Mutexes, MutexMatchesCalls, InCall
<1> QED
    BY <1>1, <1>2

(* An index that leaves the bottom of the stack, or nothing, there.        *)
LEMMA IndexCopy ==
    ASSUME CopyCurrent, UNCHANGED <<seen, misread, calls, place>>,
           \A c \in Buffers : slots'[c] = slots[c] \/ slots'[c] = <<>>
                              \/ (slots[c] # <<>> /\ Bottom(slots'[c]) = Bottom(slots[c]))
    PROVE  CopyCurrent'
<1>1. \A u \in Threads, c \in Buffers : InFunction(u, c)' => InFunction(u, c)
    BY DEF InFunction
<1> QED
    BY <1>1 DEF CopyCurrent, CopyCurrentOf

(* The copy on which a mod works.                                          *)
LEMMA CopyStep ==
    BufferTypeOK /\ Mutexes /\ CopyCurrent /\ [BufferNext]_bufferVars => CopyCurrent'
<1> SUFFICES ASSUME BufferTypeOK, Mutexes, CopyCurrent, [BufferNext]_bufferVars PROVE CopyCurrent'
    OBVIOUS
<1>1. ASSUME NEW t \in Threads, NEW b \in Buffers,
           Get(t, b)
    PROVE  CopyCurrent'
    <2>1. \A u \in Threads, c \in Buffers : InFunction(u, c)' => InFunction(u, c)
        BY <1>1 DEF Get, InFunction
    <2> QED
        BY <1>1, <2>1, KeepCopy DEF Get
<1>2. ASSUME NEW t \in Threads, NEW b \in Buffers, NEW v \in Contents,
           SetClear(t, b, v)
    PROVE  CopyCurrent'
    <2>1. \A u \in Threads, c \in Buffers : InFunction(u, c)' => InFunction(u, c)
        BY <1>2, EnterFunctions DEF SetClear, Locks, InLua
    <2>2. /\ slots'[b] = <<>> /\ \A c \in Buffers \ {b} : slots'[c] = slots[c]
          /\ UNCHANGED <<seen, misread>>
        BY <1>2 DEF SetClear, BufferTypeOK
    <2> QED
        BY <2>1, <2>2 DEF CopyCurrent, CopyCurrentOf
<1>3. ASSUME NEW t \in Threads, NEW b \in Buffers,
           SetPush(t, b)
    PROVE  CopyCurrent'
    <2>1. \A u \in Threads, c \in Buffers : InFunction(u, c)' => InFunction(u, c) /\ c # b
        BY <1>3, LeaveFunctions DEF SetPush, IsAt
    <2>2. \A c \in Buffers \ {b} : /\ slots'[c] = slots[c] /\ seen'[c] = seen[c]
                                   /\ c \in misread <=> c \in misread'
        BY <1>3 DEF SetPush, FunctionEnds, BufferTypeOK
    <2> QED
        BY <2>1, <2>2, EndCopy
<1>4. ASSUME NEW t \in Threads, NEW b \in Buffers,
           ModAssert(t, b)
    PROVE  CopyCurrent'
    <2>1. \A u \in Threads, c \in Buffers : InFunction(u, c)' => InFunction(u, c)
        BY <1>4, EnterFunctions DEF ModAssert, Locks, InLua
    <2> QED
        BY <1>4, <2>1, KeepCopy DEF ModAssert
<1>5. ASSUME NEW t \in Threads, NEW b \in Buffers,
           ModAbort(t, b)
    PROVE  CopyCurrent'
    <2>1. \A u \in Threads, c \in Buffers : InFunction(u, c)' => InFunction(u, c)
        BY <1>5 DEF ModAbort, InFunction
    <2> QED
        BY <1>5, <2>1, KeepCopy DEF ModAbort
<1>6. ASSUME NEW t \in Threads, NEW b \in Buffers,
           ModUse(t, b)
    PROVE  CopyCurrent'
    <2>1. \A u \in Threads, c \in Buffers : InFunction(u, c)' => InFunction(u, c) /\ c # b
        BY <1>6, InsideFunctions DEF ModUse, IsAt
    <2>2. \A c \in Buffers \ {b} : /\ slots'[c] = slots[c] /\ seen'[c] = seen[c]
                                   /\ c \in misread <=> c \in misread'
        BY <1>6 DEF ModUse, FunctionEnds, BufferTypeOK
    <2> QED
        BY <2>1, <2>2, EndCopy
<1>7. ASSUME NEW t \in Threads, NEW b \in Buffers,
           ModCopy(t, b)
    PROVE  CopyCurrent'
    <2>1. \A u \in Threads, c \in Buffers : InFunction(u, c)' => InFunction(u, c) \/ c = b
        <3> SUFFICES ASSUME NEW u \in Threads, NEW c \in Buffers, InFunction(u, c)', c # b
                     PROVE  InFunction(u, c)
            OBVIOUS
        <3>1. UNCHANGED calls /\ \A x \in Threads \ {t} : place'[x] = place[x]
            BY <1>7 DEF ModCopy, GoesTo, BufferTypeOK
        <3>2. PICK i \in 1 .. Len(calls[u]) :
                  calls[u][i] = c /\ (i < Len(calls[u]) \/ place'[u] \in {"mod:call", "stuck"})
            BY <3>1 DEF InFunction
        <3>3. calls[t][Len(calls[t])] = b /\ Len(calls[u]) \in Nat
            BY <1>7 DEF ModCopy, IsAt, Innermost, BufferTypeOK
        <3>4. u = t => i < Len(calls[u])
            BY <3>2, <3>3
        <3> QED
            BY <3>1, <3>2, <3>4 DEF InFunction
    <2>2. /\ UNCHANGED slots /\ seen'[b] = Top(slots[b])
          /\ b \notin misread' => Top(slots[b]) = Bottom(slots[b])
          /\ \A c \in Buffers \ {b} : seen'[c] = seen[c] /\ (c \in misread <=> c \in misread')
        BY <1>7 DEF ModCopy, BufferTypeOK
    <2> QED
        BY <2>1, <2>2 DEF CopyCurrent, CopyCurrentOf
<1>8. ASSUME NEW t \in Threads, NEW b \in Buffers, NEW f \in Mods,
           ModNil(t, b, f)
    PROVE  CopyCurrent'
    <2>1. \A u \in Threads, c \in Buffers : InFunction(u, c)' => InFunction(u, c) /\ c # b
        BY <1>8, InsideFunctions DEF ModNil, IsAt
    <2>2. \A c \in Buffers \ {b} : /\ slots'[c] = slots[c] /\ seen'[c] = seen[c]
                                   /\ c \in misread <=> c \in misread'
        BY <1>8 DEF ModNil, FunctionEnds, BufferTypeOK
    <2> QED
        BY <2>1, <2>2, EndCopy
<1>9. ASSUME NEW t \in Threads, NEW b \in Buffers, NEW f \in Mods,
           ModClear(t, b, f)
    PROVE  CopyCurrent'
    <2>1. \A u \in Threads, c \in Buffers : InFunction(u, c)' => InFunction(u, c) /\ c # b
        BY <1>9, InsideFunctions DEF ModClear, IsAt
    <2>2. \A c \in Buffers \ {b} : /\ slots'[c] = slots[c] /\ seen'[c] = seen[c]
                                   /\ c \in misread <=> c \in misread'
        BY <1>9 DEF ModClear, FunctionEnds, BufferTypeOK
    <2> QED
        BY <2>1, <2>2, EndCopy
<1>10. ASSUME NEW t \in Threads, NEW b \in Buffers,
           ModPush(t, b)
    PROVE  CopyCurrent'
    <2>1. \A u \in Threads, c \in Buffers : InFunction(u, c)' => InFunction(u, c) /\ c # b
        BY <1>10, InsideFunctions DEF ModPush, IsAt
    <2>2. \A c \in Buffers \ {b} : /\ slots'[c] = slots[c] /\ seen'[c] = seen[c]
                                   /\ c \in misread <=> c \in misread'
        BY <1>10 DEF ModPush, FunctionEnds, BufferTypeOK
    <2> QED
        BY <2>1, <2>2, EndCopy
<1>11. ASSUME NEW t \in Threads, NEW b \in Buffers,
           ModEnd(t, b)
    PROVE  CopyCurrent'
    <2>1. \A u \in Threads, c \in Buffers : InFunction(u, c)' => InFunction(u, c) /\ c # b
        BY <1>11, LeaveFunctions DEF ModEnd, IsAt
    <2>2. \A c \in Buffers \ {b} : /\ slots'[c] = slots[c] /\ seen'[c] = seen[c]
                                   /\ c \in misread <=> c \in misread'
        BY <1>11 DEF ModEnd, FunctionEnds, BufferTypeOK
    <2> QED
        BY <2>1, <2>2, EndCopy
<1>12. ASSUME NEW t \in Threads, NEW b \in Buffers,
           ModError(t, b)
    PROVE  CopyCurrent'
    <2>1. \A u \in Threads, c \in Buffers : InFunction(u, c)' => InFunction(u, c) /\ c # b
        BY <1>12, LeaveFunctions DEF ModError, IsAt
    <2>2. \A c \in Buffers \ {b} : /\ slots'[c] = slots[c] /\ seen'[c] = seen[c]
                                   /\ c \in misread <=> c \in misread'
        BY <1>12 DEF ModError, FunctionEnds, BufferTypeOK
    <2> QED
        BY <2>1, <2>2, EndCopy
<1>13. ASSUME NEW t \in Threads, NEW b \in Buffers,
           Stuck(t, b)
    PROVE  CopyCurrent'
    <2>1. \A u \in Threads, c \in Buffers : InFunction(u, c)' => InFunction(u, c)
        BY <1>13 DEF Stuck, InFunction, GoesTo, BufferTypeOK
    <2> QED
        BY <1>13, <2>1, KeepCopy DEF Stuck
<1>14. ASSUME NEW t \in Threads, NEW b \in Buffers,
           IndexNil(t, b)
    PROVE  CopyCurrent'
    <2>1. PICK x \in Items : slots' = [slots EXCEPT ![b] = Append(@, x)]
        BY <1>14, BufferAssumption DEF IndexNil, Items
    <2>2. slots[b] # <<>>
        BY <1>14, BufferAssumption DEF IndexNil, Indexable, Bottom
    <2>3. Bottom(Append(slots[b], x)) = Bottom(slots[b])
        BY <2>2, PushItem DEF BufferTypeOK
    <2>4. \A c \in Buffers : slots'[c] = slots[c]
                             \/ (slots[c] # <<>> /\ Bottom(slots'[c]) = Bottom(slots[c]))
        BY <2>1, <2>2, <2>3 DEF BufferTypeOK
    <2> QED
        BY <1>14, <2>4, IndexCopy DEF IndexNil
<1>15. ASSUME NEW t \in Threads, NEW b \in Buffers,
           IndexField(t, b)
    PROVE  CopyCurrent'
    <2>1. PICK x \in Items : slots' = [slots EXCEPT ![b] = Append(@, x)]
        BY <1>15, BufferAssumption DEF IndexField, Items
    <2>2. slots[b] # <<>>
        BY <1>15, BufferAssumption DEF IndexField, Indexable, Bottom
    <2>3. Bottom(Append(slots[b], x)) = Bottom(slots[b])
        BY <2>2, PushItem DEF BufferTypeOK
    <2>4. \A c \in Buffers : slots'[c] = slots[c]
                             \/ (slots[c] # <<>> /\ Bottom(slots'[c]) = Bottom(slots[c]))
        BY <2>1, <2>2, <2>3 DEF BufferTypeOK
    <2> QED
        BY <1>15, <2>4, IndexCopy DEF IndexField
<1>16. ASSUME NEW t \in Threads, NEW b \in Buffers,
           IndexPop(t, b)
    PROVE  CopyCurrent'
    <2>1. \A c \in Buffers \ {b} : slots'[c] = slots[c]
        BY <1>16 DEF IndexPop, BufferTypeOK
    <2>2. CASE slots[b] = <<>>
        BY <1>16, <2>1, <2>2, IndexCopy DEF IndexPop, BufferTypeOK
    <2>3. CASE slots[b] # <<>>
        <3>1. slots'[b] = <<>> \/ Bottom(slots'[b]) = Bottom(slots[b])
            BY <1>16, <2>3, PopItem DEF IndexPop, BufferTypeOK
        <3> QED
            BY <1>16, <2>1, <2>3, <3>1, IndexCopy DEF IndexPop
    <2> QED
        BY <2>2, <2>3
<1>17. ASSUME NEW t \in Threads, NEW b \in Buffers,
           IndexPanic(t, b)
    PROVE  CopyCurrent'
    <2>1. \A u \in Threads, c \in Buffers : InFunction(u, c)' => InFunction(u, c)
        BY <1>17 DEF IndexPanic, InFunction
    <2> QED
        BY <1>17, <2>1, KeepCopy DEF IndexPanic
<1>18. ASSUME NEW t \in Threads, NEW b \in Buffers,
           UseFreed(t, b)
    PROVE  CopyCurrent'
    <2>1. \A u \in Threads, c \in Buffers : InFunction(u, c)' => InFunction(u, c)
        BY <1>18 DEF UseFreed, InFunction
    <2> QED
        BY <1>18, <2>1, KeepCopy DEF UseFreed
<1>19. ASSUME NEW b \in Buffers, Gc(b) PROVE CopyCurrent'
    <2>1. \A u \in Threads, c \in Buffers : InFunction(u, c)' => InFunction(u, c)
        BY <1>19 DEF Gc, InFunction
    <2> QED
        BY <1>19, <2>1, KeepCopy DEF Gc
<1>20. CASE UNCHANGED bufferVars
    <2>1. \A u \in Threads, c \in Buffers : InFunction(u, c)' => InFunction(u, c)
        BY <1>20 DEF bufferVars, InFunction
    <2> QED
        BY <1>20, <2>1, KeepCopy DEF bufferVars
<1> QED
    BY <1>1, <1>2, <1>3, <1>4, <1>5, <1>6, <1>7, <1>8, <1>9, <1>10,
       <1>11, <1>12, <1>13, <1>14, <1>15, <1>16, <1>17, <1>18, <1>19,
       <1>20
    DEF BufferNext, Locked, Unlocked

(* l_buffer leaves every buffer filled and unlocked.                       *)
LEMMA InvInit == BufferInit => Inv
<1> SUFFICES ASSUME BufferInit PROVE Inv
    OBVIOUS
<1>1. PICK v \in [Buffers -> Contents] : slots = [b \in Buffers |-> <<v[b]>>]
    BY DEF BufferInit
<1>2. BufferTypeOK
    <2>1. \A b \in Buffers : <<v[b]>> \in Seq(Items)
        BY DEF Items
    <2>2. slots \in [Buffers -> Seq(Items)]
        BY <1>1, <2>1
    <2>3. <<>> \in Seq(Buffers)
        BY EmptySeq
    <2>4. calls \in [Threads -> Seq(Buffers)]
        BY <2>3 DEF BufferInit
    <2>5. \A t \in Threads : place[t] = "idle" /\ calls[t] = <<>>
        BY DEF BufferInit
    <2> QED
        BY <2>2, <2>4, <2>5, BufferAssumption DEF BufferInit, BufferTypeOK, Lines, Items
<1> QED
    BY <1>2, BufferAssumption DEF BufferInit, Inv, MutexMatchesCalls, InCall, On, CallsDiffer,
       Differ, OneMod, InMod, UsedMatchesMods, HasStored, StoredLines, CopyCurrent,
       CopyCurrentOf, InFunction

(* The invariant holds throughout.                                         *)
THEOREM Invariant == BufferSpec => []Inv
<1>1. BufferInit => Inv
    BY InvInit
<1>2. Inv /\ [BufferNext]_bufferVars => Inv'
    BY TypeStep, MutexStep, FlagStep, CopyStep DEF Inv, Mutexes, Flag
<1> QED
    BY <1>1, <1>2, PTL DEF BufferSpec

(* Every state of the buffers has the types of TypeOK.                     *)
THEOREM TypeCorrect == BufferSpec => []BufferTypeOK
<1>1. Inv => BufferTypeOK
    BY DEF Inv
<1> QED
    BY <1>1, Invariant, PTL

(* The calls of get, set and mod exclude each other on every buffer, and   *)
(* only an error in the function of a mod leaves a mutex locked.           *)
THEOREM MutexCorrect == BufferSpec => []MutexMatchesCalls
<1>1. Inv => MutexMatchesCalls
    BY DEF Inv
<1> QED
    BY <1>1, Invariant, PTL

(* The flag `used' of _buffer_mod is set only while a mod is under way     *)
(* anywhere (or was left by an error), and then always, unless two mods of *)
(* different buffers have passed the assertion together.                   *)
THEOREM UsedCorrect == BufferSpec => []UsedMatchesMods
<1>1. Inv => UsedMatchesMods
    BY DEF Inv
<1> QED
    BY <1>1, Invariant, PTL

-----------------------------------------------------------------------------
(* The refinement.                                                         *)

(* While a thread fills a buffer it is the only one and owns the mutex.    *)
LEMMA FillerOwns ==
    ASSUME BufferTypeOK, MutexMatchesCalls, NEW b \in Buffers, NEW t \in Filling(b)
    PROVE  lock[b] = t /\ Filling(b) = {t}
<1>1. ASSUME NEW u \in Filling(b) PROVE lock[b] = u
    <2>1. u \in Threads /\ calls[u] \in Seq(Buffers) /\ calls[u] # <<>> /\ Innermost(u) = b
        BY <1>1 DEF Filling, BufferTypeOK
    <2>2. Len(calls[u]) \in 1 .. Len(calls[u])
        BY <2>1, LeftCalls
    <2>3. InCall(u, b)
        BY <2>1, <2>2 DEF InCall, On, Innermost
    <2> QED
        BY <2>1, <2>3 DEF MutexMatchesCalls
<1> QED
    BY <1>1

(* Nobody fills a buffer whose mutex is free, or whose call is elsewhere.  *)
LEMMA NotFilling ==
    ASSUME BufferTypeOK, Mutexes, NEW b \in Buffers,
           \/ lock[b] = Nobody
           \/ \E t \in Threads : /\ place[t] \notin {"set:push", "mod:push"}
                                 /\ calls[t] # <<>> /\ Innermost(t) = b
    PROVE  Filling(b) = {}
<1> SUFFICES ASSUME NEW u \in Filling(b) PROVE FALSE
    OBVIOUS
<1>1. u \in Threads /\ lock[b] = u /\ place[u] \in {"set:push", "mod:push"}
    BY FillerOwns DEF Filling, Mutexes
<1>2. CASE lock[b] = Nobody
    BY <1>1, <1>2, BufferAssumption
<1>3. ASSUME NEW t \in Threads, place[t] \notin {"set:push", "mod:push"},
             calls[t] # <<>>, Innermost(t) = b
      PROVE  FALSE
    <2>1. Len(calls[t]) \in 1 .. Len(calls[t])
        BY <1>3, LeftCalls DEF BufferTypeOK
    <2>2. InCall(t, b)
        BY <1>3, <2>1 DEF InCall, On, Innermost
    <2> QED
        BY <1>1, <1>3, <2>2 DEF Mutexes, MutexMatchesCalls
<1> QED
    BY <1>2, <1>3

\* The abstract buffer c is as it was.
Kept(c) == Cell(c)' = Cell(c) /\ Writing(c)' = Writing(c)

(* A buffer that a step does not touch is as it was.                       *)
LEMMA CellFrame ==
    ASSUME BufferTypeOK, MutexMatchesCalls, NEW c \in Buffers,
           Filling(c)' = Filling(c), slots'[c] = slots[c],
           \A u \in Filling(c) : val'[u] = val[u] /\ place'[u] = place[u]
    PROVE  Kept(c)
<1>1. CASE Filling(c) = {}
    BY <1>1 DEF Cell, Writing, Kept
<1>2. ASSUME NEW t \in Filling(c) PROVE Kept(c)
    <2>1. Filling(c) = {t} /\ Filling(c)' = {t}
        BY FillerOwns
    <2>2. Cell(c) = val[t] /\ Cell(c)' = val'[t]
        BY <2>1 DEF Cell
    <2> QED
        BY <2>1, <2>2 DEF Kept, Writing
<1> QED
    BY <1>1, <1>2

\* Outside b the step has left every buffer alone.
OthersKept(b) == \A c \in Buffers \ {b} : Kept(c)

\* The same for all buffers: a stuttering step, but for reply.
CellsKept == \A c \in Buffers : Kept(c)

(* The steps that change no stack, and no thread that fills one.           *)
LEMMA QuietStep ==
    ASSUME Inv, UNCHANGED slots,
           NEW t \in Threads,
           \A u \in Threads \ {t} : UNCHANGED <<place[u], calls[u], val[u]>>,
           place[t] \notin {"set:push", "mod:push"}, place'[t] \notin {"set:push", "mod:push"}
    PROVE  CellsKept
<1> SUFFICES ASSUME NEW c \in Buffers PROVE Kept(c)
    BY DEF CellsKept
<1>1. Filling(c)' = Filling(c)
    BY DEF Filling, Innermost
<1>2. \A u \in Filling(c) : val'[u] = val[u] /\ place'[u] = place[u]
    BY DEF Filling, Innermost
<1> QED
    BY <1>1, <1>2, CellFrame DEF Inv

(* The steps that change nothing a buffer's value depends on.              *)
LEMMA IdleStep ==
    ASSUME Inv, UNCHANGED <<slots, place, calls, val>>
    PROVE  CellsKept
<1> SUFFICES ASSUME NEW c \in Buffers PROVE Kept(c)
    BY DEF CellsKept
<1>1. Filling(c)' = Filling(c)
    BY DEF Filling, Innermost
<1> QED
    BY <1>1, CellFrame DEF Inv

(* A set or mod replaces the value when it empties the stack.              *)
LEMMA ClearStep ==
    ASSUME Inv, NEW t \in Threads, NEW b \in Buffers, NEW v \in Contents,
           NEW line \in {"set:push", "mod:push"}, place' = [place EXCEPT ![t] = line],
           place[t] \notin {"set:push", "mod:push"}, Filling(b) = {},
           calls'[t] # <<>>, Innermost(t)' = b,
           \A u \in Threads \ {t} : calls'[u] = calls[u],
           val' = [val EXCEPT ![t] = v],
           \A c \in Buffers \ {b} : UNCHANGED slots[c]
    PROVE  /\ OthersKept(b) /\ Cell(b)' = v
           /\ Writing(b)' = IF line = "set:push" THEN "set" ELSE "mod"
<1> USE DEF Inv, BufferTypeOK
<1>0. /\ place'[t] = line /\ val'[t] = v
      /\ \A u \in Threads \ {t} : place'[u] = place[u] /\ val'[u] = val[u]
    OBVIOUS
<1>1. Filling(b)' = {t}
    BY <1>0 DEF Filling, Innermost
<1>2. Cell(b)' = v
    BY <1>0, <1>1 DEF Cell
<1>3. Writing(b)' = IF line = "set:push" THEN "set" ELSE "mod"
    BY <1>0, <1>1 DEF Writing
<1>4. ASSUME NEW c \in Buffers \ {b} PROVE Kept(c)
    <2>1. Filling(c)' = Filling(c) /\ t \notin Filling(c)
        BY <1>0, <1>4 DEF Filling, Innermost
    <2> QED
        BY <1>0, <1>4, <2>1, CellFrame DEF Filling
<1> QED
    BY <1>2, <1>3, <1>4 DEF OthersKept

\* The abstract step or stutter that a step must be.
CellStep == SC!Next \/ UNCHANGED SC!vars

(* The push that ends a set or a mod shows the value that took effect.     *)
LEMMA PushStep ==
    ASSUME Inv, NEW t \in Threads, NEW b \in Buffers, Undisturbed(b),
           t \in Filling(b), UNCHANGED reply,
           place'[t] \notin {"set:push", "mod:push"},
           \A u \in Threads \ {t} : UNCHANGED <<place[u], calls[u], val[u]>>,
           slots' = [slots EXCEPT ![b] = Append(@, val[t])]
    PROVE  CellStep
<1> USE DEF Inv, BufferTypeOK
<1>1. Filling(b) = {t}
    BY FillerOwns
<1>2. slots[b] = <<>>
    BY <1>1, EmptySeq DEF Undisturbed
<1>3. Filling(b)' = {}
    BY <1>1 DEF Filling, Innermost
<1>4. Cell(b)' = Cell(b)
    <2>1. val[t] \in Items /\ slots[b] \in Seq(Items)
        OBVIOUS
    <2>2. Bottom(slots'[b]) = val[t]
        BY <1>2, <2>1, PushItem
    <2> QED
        BY <1>1, <1>3, <2>2 DEF Cell
<1>5. Writing(b)' = "none"
    BY <1>3 DEF Writing
<1>6. ASSUME NEW c \in Buffers \ {b} PROVE Kept(c)
    <2>1. Filling(c)' = Filling(c) /\ t \notin Filling(c)
        BY <1>1, <1>6 DEF Filling, Innermost
    <2> QED
        BY <1>6, <2>1, CellFrame DEF Filling
<1>7. SC!Done(b)
    BY <1>4, <1>5, <1>6 DEF Kept, SC!Done
<1> QED
    BY <1>7 DEF CellStep, SC!Next

(* A step that changes no abstract buffer is a stuttering step.            *)
LEMMA Stutter == ASSUME CellsKept, UNCHANGED reply PROVE CellStep
    BY DEF CellsKept, Kept, CellStep, SC!vars

(* A step that changes one buffer is the abstract replacement.             *)
LEMMA Replaces ==
    ASSUME NEW b \in Buffers, NEW v \in Contents, NEW call, UNCHANGED reply,
           OthersKept(b), Cell(b)' = v, Writing(b) = "none", Writing(b)' = call
    PROVE  SC!Replace(b, v, call)
    BY DEF OthersKept, Kept, SC!Replace

(* Every step from a state in which no index disturbs a buffer is a step   *)
(* of shared cells.                                                        *)
LEMMA StepRefines ==
    ASSUME Inv, \A b \in Buffers : Undisturbed(b), [BufferNext]_bufferVars
    PROVE  CellStep
<1>0. BufferTypeOK /\ Mutexes /\ CopyCurrent
    BY DEF Inv, Mutexes
<1>1. ASSUME NEW t \in Threads, NEW b \in Buffers, Get(t, b) PROVE CellStep
    <2>1. CellsKept
        BY <1>1, IdleStep DEF Get
    <2>2. Filling(b) = {}
        BY <1>0, <1>1, NotFilling DEF Get, Locks
    <2>3. Top(slots[b]) = Cell(b)
        BY <2>2, <1>0, EmptySeq DEF Undisturbed, Top, Bottom, Cell, BufferTypeOK
    <2>4. SC!Get(t, b)
        BY <1>1, <2>1, <2>2, <2>3 DEF Get, CellsKept, Kept, Writing, SC!Get
    <2> QED
        BY <2>4 DEF CellStep, SC!Next
<1>2. ASSUME NEW t \in Threads, NEW b \in Buffers, NEW v \in Contents,
             SetClear(t, b, v)
      PROVE  CellStep
    <2>1. Filling(b) = {}
        BY <1>0, <1>2, NotFilling DEF SetClear, Locks
    <2>2. /\ place' = [place EXCEPT ![t] = "set:push"] /\ val' = [val EXCEPT ![t] = v]
          /\ place[t] \notin {"set:push", "mod:push"}
          /\ \A u \in Threads \ {t} : calls'[u] = calls[u]
          /\ \A c \in Buffers \ {b} : UNCHANGED slots[c]
        BY <1>0, <1>2 DEF SetClear, Enters, Locks, InLua, BufferTypeOK
    <2>3. calls'[t] # <<>> /\ Innermost(t)' = b
        BY <1>0, <1>2, EnteredCalls DEF SetClear, Enters, BufferTypeOK, Innermost
    <2>4. OthersKept(b) /\ Cell(b)' = v /\ Writing(b)' = "set"
        BY <2>1, <2>2, <2>3, ClearStep
    <2>5. SC!Set(b, v)
        BY <1>2, <2>1, <2>4, Replaces DEF SetClear, Writing, SC!Set
    <2> QED
        BY <2>5 DEF CellStep, SC!Next
<1>3. ASSUME NEW t \in Threads, NEW b \in Buffers, SetPush(t, b) PROVE CellStep
    <2>1. /\ place'[t] \notin {"set:push", "mod:push"} /\ t \in Filling(b)
          /\ \A u \in Threads \ {t} : UNCHANGED <<place[u], calls[u], val[u]>>
        BY <1>0, <1>3 DEF SetPush, IsAt, Leaves, Filling, BufferTypeOK
    <2> QED
        BY <1>3, <2>1, PushStep DEF SetPush
<1>4. ASSUME NEW t \in Threads, NEW b \in Buffers, ModAssert(t, b) PROVE CellStep
    <2>1. /\ UNCHANGED slots /\ place[t] \notin {"set:push", "mod:push"}
          /\ place'[t] \notin {"set:push", "mod:push"}
          /\ \A u \in Threads \ {t} : UNCHANGED <<place[u], calls[u], val[u]>>
        BY <1>0, <1>4 DEF ModAssert, BufferTypeOK, Enters, Locks, InLua
    <2>2. CellsKept
        BY <2>1, QuietStep
    <2> QED
        BY <1>4, <2>2, Stutter DEF ModAssert
<1>5. ASSUME NEW t \in Threads, NEW b \in Buffers, ModUse(t, b) PROVE CellStep
    <2>1. /\ UNCHANGED slots /\ place[t] \notin {"set:push", "mod:push"}
          /\ place'[t] \notin {"set:push", "mod:push"}
          /\ \A u \in Threads \ {t} : UNCHANGED <<place[u], calls[u], val[u]>>
        BY <1>0, <1>5 DEF ModUse, BufferTypeOK, IsAt, GoesTo
    <2>2. CellsKept
        BY <2>1, QuietStep
    <2> QED
        BY <1>5, <2>2, Stutter DEF ModUse
<1>6. ASSUME NEW t \in Threads, NEW b \in Buffers, ModCopy(t, b) PROVE CellStep
    <2>1. /\ UNCHANGED slots /\ place[t] \notin {"set:push", "mod:push"}
          /\ place'[t] \notin {"set:push", "mod:push"}
          /\ \A u \in Threads \ {t} : UNCHANGED <<place[u], calls[u], val[u]>>
        BY <1>0, <1>6 DEF ModCopy, BufferTypeOK, IsAt, GoesTo
    <2>2. CellsKept
        BY <2>1, QuietStep
    <2> QED
        BY <1>6, <2>2, Stutter DEF ModCopy
<1>7. ASSUME NEW t \in Threads, NEW b \in Buffers, NEW f \in Mods, ModNil(t, b, f) PROVE CellStep
    <2>1. /\ UNCHANGED slots /\ place[t] \notin {"set:push", "mod:push"}
          /\ place'[t] \notin {"set:push", "mod:push"}
          /\ \A u \in Threads \ {t} : UNCHANGED <<place[u], calls[u], val[u]>>
        BY <1>0, <1>7 DEF ModNil, BufferTypeOK, IsAt, GoesTo
    <2>2. CellsKept
        BY <2>1, QuietStep
    <2> QED
        BY <1>7, <2>2, Stutter DEF ModNil
<1>8. ASSUME NEW t \in Threads, NEW b \in Buffers, ModEnd(t, b) PROVE CellStep
    <2>1. /\ UNCHANGED slots /\ place[t] \notin {"set:push", "mod:push"}
          /\ place'[t] \notin {"set:push", "mod:push"}
          /\ \A u \in Threads \ {t} : UNCHANGED <<place[u], calls[u], val[u]>>
        BY <1>0, <1>8 DEF ModEnd, BufferTypeOK, IsAt, Leaves
    <2>2. CellsKept
        BY <2>1, QuietStep
    <2> QED
        BY <1>8, <2>2, Stutter DEF ModEnd
<1>9. ASSUME NEW t \in Threads, NEW b \in Buffers, ModError(t, b) PROVE CellStep
    <2>1. /\ UNCHANGED slots /\ place[t] \notin {"set:push", "mod:push"}
          /\ place'[t] \notin {"set:push", "mod:push"}
          /\ \A u \in Threads \ {t} : UNCHANGED <<place[u], calls[u], val[u]>>
        BY <1>0, <1>9 DEF ModError, BufferTypeOK, IsAt, Leaves
    <2>2. CellsKept
        BY <2>1, QuietStep
    <2> QED
        BY <1>9, <2>2, Stutter DEF ModError
<1>10. ASSUME NEW t \in Threads, NEW b \in Buffers, Stuck(t, b) PROVE CellStep
    <2>1. /\ UNCHANGED slots /\ place[t] \notin {"set:push", "mod:push"}
          /\ place'[t] \notin {"set:push", "mod:push"}
          /\ \A u \in Threads \ {t} : UNCHANGED <<place[u], calls[u], val[u]>>
        BY <1>0, <1>10 DEF Stuck, BufferTypeOK, GoesTo
    <2>2. CellsKept
        BY <2>1, QuietStep
    <2> QED
        BY <1>10, <2>2, Stutter DEF Stuck
<1>11. ASSUME NEW t \in Threads, NEW b \in Buffers, NEW f \in Mods,
             ModClear(t, b, f)
      PROVE  CellStep
    <2> DEFINE v == f[seen[b]]
    <2>1. /\ place[t] = "mod:call" /\ calls[t] # <<>> /\ Innermost(t) = b
          /\ place' = [place EXCEPT ![t] = "mod:push"] /\ val' = [val EXCEPT ![t] = v]
          /\ slots' = [slots EXCEPT ![b] = <<>>] /\ UNCHANGED <<calls, reply>>
          /\ v # Nil
        BY <1>11 DEF ModClear, IsAt, GoesTo
    <2>2. Filling(b) = {}
        BY <1>0, <2>1, NotFilling
    <2>3. Cell(b) = seen[b]
        <3>1. slots[b] # <<>> /\ b \notin misread
            BY <2>2, EmptySeq DEF Undisturbed
        <3>2. Len(calls[t]) \in 1 .. Len(calls[t])
            BY <1>0, <2>1, LeftCalls DEF BufferTypeOK
        <3>3. InFunction(t, b)
            BY <2>1, <3>2 DEF InFunction, Innermost
        <3> QED
            BY <1>0, <2>2, <3>1, <3>3 DEF CopyCurrent, CopyCurrentOf, Cell
    <2>4. v \in Contents
        BY <1>0, <2>1, BufferAssumption DEF BufferTypeOK, Items
    <2>5. \A c \in Buffers \ {b} : UNCHANGED slots[c]
        BY <1>0, <2>1 DEF BufferTypeOK
    <2>6. calls'[t] # <<>> /\ Innermost(t)' = b /\ \A u \in Threads \ {t} : calls'[u] = calls[u]
        BY <2>1 DEF Innermost
    <2>7. OthersKept(b) /\ Cell(b)' = v /\ Writing(b)' = "mod"
        <3> HIDE DEF v
        <3> QED
            BY <2>1, <2>2, <2>4, <2>5, <2>6, ClearStep
    <2>8. SC!Replace(b, v, "mod")
        BY <2>1, <2>2, <2>4, <2>7, Replaces DEF Writing
    <2>9. SC!Mod(b, f)
        BY <2>1, <2>3, <2>8 DEF SC!Mod
    <2> QED
        BY <2>9 DEF CellStep, SC!Next
<1>12. ASSUME NEW t \in Threads, NEW b \in Buffers, ModPush(t, b) PROVE CellStep
    <2>1. /\ place'[t] \notin {"set:push", "mod:push"} /\ t \in Filling(b)
          /\ \A u \in Threads \ {t} : UNCHANGED <<place[u], calls[u], val[u]>>
        BY <1>0, <1>12 DEF ModPush, IsAt, GoesTo, Filling, BufferTypeOK
    <2> QED
        BY <1>12, <2>1, PushStep DEF ModPush
<1>13. ASSUME NEW t \in Threads, NEW b \in Buffers,
             ModAbort(t, b) \/ IndexPanic(t, b) \/ UseFreed(t, b)
      PROVE  CellStep
    <2>1. CellsKept
        BY <1>13, IdleStep DEF ModAbort, IndexPanic, UseFreed
    <2> QED
        BY <1>13, <2>1, Stutter DEF ModAbort, IndexPanic, UseFreed
<1>14. ASSUME NEW t \in Threads, NEW b \in Buffers, IndexNil(t, b) \/ IndexField(t, b)
       PROVE  CellStep
    <2>1. PICK x \in Items : slots' = [slots EXCEPT ![b] = Append(@, x)]
        BY <1>14, BufferAssumption DEF IndexNil, IndexField, Items
    <2>2. slots[b] # <<>>
        BY <1>14, BufferAssumption DEF IndexNil, IndexField, Indexable, Bottom
    <2>3. \A c \in Buffers : Bottom(slots'[c]) = Bottom(slots[c])
        BY <1>0, <2>1, <2>2, PushItem DEF BufferTypeOK
    <2>4. \A c \in Buffers : Filling(c)' = Filling(c)
        BY <1>0, <1>14 DEF IndexNil, IndexField, Filling, Innermost, BufferTypeOK
    <2>5. CellsKept
        <3> SUFFICES ASSUME NEW c \in Buffers PROVE Kept(c)
            BY DEF CellsKept
        <3>1. \A u \in Filling(c) : place'[u] = place[u]
            BY <1>0, <1>14 DEF IndexNil, IndexField, Filling, Innermost, BufferTypeOK
        <3>2. val' = val
            BY <1>14 DEF IndexNil, IndexField
        <3>3. Cell(c)' = Cell(c)
            <4>1. CASE Filling(c) = {}
                BY <2>3, <2>4, <4>1 DEF Cell
            <4>2. ASSUME NEW u \in Filling(c) PROVE Cell(c)' = Cell(c)
                <5>1. Filling(c) = {u} /\ Filling(c)' = {u}
                    BY <1>0, <2>4, FillerOwns DEF Mutexes
                <5> QED
                    BY <3>2, <5>1 DEF Cell
            <4> QED
                BY <4>1, <4>2
        <3>4. Writing(c)' = Writing(c)
            BY <2>4, <3>1 DEF Writing
        <3> QED
            BY <3>3, <3>4 DEF Kept
    <2> QED
        BY <1>14, <2>5, Stutter DEF IndexNil, IndexField
<1>15. ASSUME NEW t \in Threads, NEW b \in Buffers, IndexPop(t, b) PROVE CellStep
    BY <1>15 DEF IndexPop, Undisturbed
<1>16. ASSUME NEW b \in Buffers, Gc(b) PROVE CellStep
    <2>1. CellsKept
        BY <1>16, IdleStep DEF Gc
    <2> QED
        BY <1>16, <2>1, Stutter DEF Gc
<1>17. CASE UNCHANGED bufferVars
    <2>1. CellsKept
        BY <1>17, IdleStep DEF bufferVars
    <2> QED
        BY <1>17, <2>1, Stutter DEF bufferVars
<1> QED
    BY <1>1, <1>2, <1>3, <1>4, <1>5, <1>6, <1>7, <1>8, <1>9, <1>10, <1>11,
       <1>12, <1>13, <1>14, <1>15, <1>16, <1>17 DEF BufferNext, Locked, Unlocked

(* Buffers start as cells with the values given to l_buffer.               *)
LEMMA InitRefines == BufferInit => SC!Init
<1> SUFFICES ASSUME BufferInit PROVE SC!Init
    OBVIOUS
<1>1. PICK v \in [Buffers -> Contents] : slots = [b \in Buffers |-> <<v[b]>>]
    BY DEF BufferInit
<1>2. \A b \in Buffers : Cell(b) = v[b] /\ Writing(b) = "none"
    BY <1>1 DEF BufferInit, Cell, Writing, Filling, Bottom
<1> QED
    BY <1>2 DEF BufferInit, SC!Init

(* The buffers of thread.c implement shared cells as long as no index      *)
(* interferes: no update of a mod is lost, get returns the current value.  *)
THEOREM BuffersRefineCells == BufferSpec => BuffersAreCells
<1>1. BufferInit => SC!Init
    BY InitRefines
<1>2. Inv /\ [BufferNext]_bufferVars =>
         [(\A b \in Buffers : Undisturbed(b)) => SC!Next]_SC!vars
    BY StepRefines DEF CellStep
<1> QED
    BY <1>1, <1>2, Invariant, PTL DEF BufferSpec, BuffersAreCells
=============================================================================
