---------------------------- MODULE ThreadBuffer ----------------------------
(***************************************************************************)
(* llib.thread.buffer of thread.c: a value kept in a Lua state of its own, *)
(* which threads read and replace under the buffer's mutex: get, set, mod. *)
(* Indexing a buffer reads a field of the value without the mutex.         *)
(*                                                                         *)
(* A buffer's Lua state is its stack, bottom first.  A step is a call of   *)
(* get, or a part of a call between two points at which other threads can  *)
(* see the difference: the emptied stack of a set, the accesses of a mod   *)
(* to the flag `used', which all buffers share while each has a mutex of   *)
(* its own, the user's function in a mod, the pushed field of an index.    *)
(* The user's function may itself call get, set and mod and index buffers. *)
(* Calls of the Lua API on one state from two threads are taken to happen  *)
(* one after the other.  Values are those luaI_deepcopy copies exactly.    *)
(***************************************************************************)
EXTENDS Integers, Sequences

CONSTANTS
    Threads,
    Buffers,
    Contents,   \* what a buffer may hold
    Tables,     \* the values that are tables
    Wide,       \* the tables that have the field that is indexed
    Field,      \* the value of that field
    Nil,        \* Lua's nil
    Mods,       \* the functions passed to mod
    Nobody,     \* no thread, no buffer
    MaxStack,   \* bound: no index is begun on a stack that is higher
    Uses        \* beyond get, set and mod: "index", "error", "nested", "gc"

ASSUME BufferAssumption ==
    /\ Wide \subseteq Tables /\ Tables \subseteq Contents
    /\ Field \in Contents /\ Nil \notin Contents
    /\ Mods \subseteq [Contents \cup {Nil} -> Contents \cup {Nil}]
    /\ Nobody \notin Threads \cup Buffers
    /\ MaxStack \in Nat

VARIABLES
    slots,      \* the stack of each buffer's Lua state
    lock,       \* the owner of each buffer's mutex
    used,       \* the global `used' of _buffer_mod
    place,      \* where each thread is in the innermost of its calls
    calls,      \* the buffers of its calls, outermost first: each but the last
                \* is a mod whose function has made the next one
    index,      \* the buffer whose field it is copying
    val,        \* the value it is about to store
    seen,       \* the copy that the mod of a buffer has passed to the function
    reply,      \* what each thread's last get returned
    misread,    \* the buffers whose mod was given another value than theirs
    raised,     \* the buffers whose mod was left by a Lua error
    raced,      \* a mod has passed the assertion while another had passed it
                \* and not yet set `used'
    gone,       \* the buffers whose owner's __gc has run
    program     \* it runs, has failed the assertion or panicked, is wild

bufferVars == <<slots, lock, used, place, calls, index, val, seen, reply, misread,
                raised, raced, gone, program>>

Lines == {"idle", "set:push", "mod:use", "mod:copy", "mod:call", "mod:push", "mod:end",
          "stuck"}

Items == Contents \cup {Nil}

\* One type invariant.
BufferTypeOK ==
    /\ slots \in [Buffers -> Seq(Items)]
    /\ lock \in [Buffers -> Threads \cup {Nobody}]
    /\ used \in {0, 1}
    /\ place \in [Threads -> Lines]
    /\ calls \in [Threads -> Seq(Buffers)]
    /\ index \in [Threads -> Buffers \cup {Nobody}]
    /\ val \in [Threads -> Items]
    /\ \A t \in Threads : /\ place[t] \in {"set:push", "mod:push"} => val[t] \in Contents
                          /\ place[t] = "idle" <=> calls[t] = <<>>
    /\ seen \in [Buffers -> Items]
    /\ reply \in [Threads -> Items]
    /\ misread \in SUBSET Buffers
    /\ raised \in SUBSET Buffers
    /\ raced \in BOOLEAN
    /\ gone \in SUBSET Buffers
    /\ program \in {"runs", "aborted", "wild"}

\* l_buffer has put a copy of its argument into each buffer.
BufferInit ==
    /\ \E v \in [Buffers -> Contents] : slots = [b \in Buffers |-> <<v[b]>>]
    /\ lock = [b \in Buffers |-> Nobody]
    /\ used = 0
    /\ place = [t \in Threads |-> "idle"]
    /\ calls = [t \in Threads |-> <<>>]
    /\ index = [t \in Threads |-> Nobody]
    /\ val = [t \in Threads |-> Nil]
    /\ seen = [b \in Buffers |-> Nil]
    /\ reply = [t \in Threads |-> Nil]
    /\ misread = {}
    /\ raised = {}
    /\ raced = FALSE
    /\ gone = {}
    /\ program = "runs"

-----------------------------------------------------------------------------
(* The program runs Lua code in t: t is in no call, or in the function of  *)
(* its innermost mod.                                                      *)
InLua(t) ==
    /\ program = "runs" /\ index[t] = Nobody
    /\ place[t] = "idle" \/ ("nested" \in Uses /\ place[t] = "mod:call")

\* It gets the mutex of a buffer that still exists.
Locks(t, b) == InLua(t) /\ b \notin gone /\ lock[b] = Nobody

\* It enters a call that has the mutex.
Enters(t, b, line) ==
    /\ lock' = [lock EXCEPT ![b] = t]
    /\ calls' = [calls EXCEPT ![t] = Append(@, b)]
    /\ place' = [place EXCEPT ![t] = line]

\* The buffer of the innermost call.
Innermost(t) == calls[t][Len(calls[t])]

\* It goes on in a call on b.
IsAt(t, line, b) ==
    /\ program = "runs" /\ index[t] = Nobody
    /\ place[t] = line /\ calls[t] # <<>> /\ Innermost(t) = b

GoesTo(t, line) == place' = [place EXCEPT ![t] = line]

\* The call is over, its locals are gone.
Leaves(t) ==
    /\ place' = [place EXCEPT ![t] = IF Len(calls[t]) = 1 THEN "idle" ELSE "mod:call"]
    /\ calls' = [calls EXCEPT ![t] = SubSeq(@, 1, Len(@) - 1)]

Unlocks(b) == lock' = [lock EXCEPT ![b] = Nobody]

\* The element that luaI_deepcopy copies: the top of the stack.
Top(s) == IF s = <<>> THEN Nil ELSE s[Len(s)]

\* The buffer's value: the element at the bottom.
Bottom(s) == IF s = <<>> THEN Nil ELSE s[1]

\* _buffer_get.
Get(t, b) ==
    /\ Locks(t, b)
    /\ reply' = [reply EXCEPT ![t] = Top(slots[b])]
    /\ UNCHANGED <<slots, lock, used, place, calls, index, val, seen, misread, raised,
                   raced, gone, program>>

\* _buffer_set empties the stack ...
SetClear(t, b, v) ==
    /\ Locks(t, b)
    /\ Enters(t, b, "set:push")
    /\ slots' = [slots EXCEPT ![b] = <<>>]
    /\ val' = [val EXCEPT ![t] = v]
    /\ UNCHANGED <<used, index, seen, reply, misread, raised, raced, gone, program>>

\* ... and pushes the copy.
SetPush(t, b) ==
    /\ IsAt(t, "set:push", b)
    /\ slots' = [slots EXCEPT ![b] = Append(@, val[t])]
    /\ Unlocks(b)
    /\ Leaves(t)
    /\ val' = [val EXCEPT ![t] = Nil]
    /\ UNCHANGED <<used, index, seen, reply, misread, raised, raced, gone, program>>

\* Mutant: the mutex is not taken.
ModAssertUnlocked(t, b) ==
    /\ Locks(t, b)
    /\ used = 0
    /\ calls' = [calls EXCEPT ![t] = Append(@, b)]
    /\ GoesTo(t, "mod:use")
    /\ raced' = (raced \/ \E u \in Threads : place[u] = "mod:use")
    /\ UNCHANGED <<slots, lock, used, index, val, seen, reply, misread, raised, gone,
                   program>>

\* _buffer_mod takes the mutex, and assert(used == 0) holds ...
ModAssert(t, b) ==
    /\ Locks(t, b)
    /\ used = 0
    /\ Enters(t, b, "mod:use")
    /\ raced' = (raced \/ \E u \in Threads : place[u] = "mod:use")
    /\ UNCHANGED <<slots, used, index, val, seen, reply, misread, raised, gone, program>>

\* ... or fails: the process aborts.
ModAbort(t, b) ==
    /\ Locks(t, b)
    /\ used # 0
    /\ program' = "aborted"
    /\ UNCHANGED <<slots, lock, used, place, calls, index, val, seen, reply, misread,
                   raised, raced, gone>>

\* used = 1
ModUse(t, b) ==
    /\ IsAt(t, "mod:use", b)
    /\ used' = 1
    /\ GoesTo(t, "mod:copy")
    /\ UNCHANGED <<slots, lock, calls, index, val, seen, reply, misread, raised, raced,
                   gone, program>>

\* The value is copied and the user's function called.
ModCopy(t, b) ==
    /\ IsAt(t, "mod:copy", b)
    /\ seen' = [seen EXCEPT ![b] = Top(slots[b])]
    /\ misread' = IF Top(slots[b]) = Bottom(slots[b]) THEN misread \ {b} ELSE misread \cup {b}
    /\ GoesTo(t, "mod:call")
    /\ UNCHANGED <<slots, lock, used, calls, index, val, reply, raised, raced, gone,
                   program>>

\* The user's function has ended.
FunctionEnds(b) == seen' = [seen EXCEPT ![b] = Nil] /\ misread' = misread \ {b}

\* The function returns nil: nothing is stored.
ModNil(t, b, f) ==
    /\ IsAt(t, "mod:call", b)
    /\ f[seen[b]] = Nil
    /\ FunctionEnds(b)
    /\ GoesTo(t, "mod:end")
    /\ UNCHANGED <<slots, lock, used, calls, index, val, reply, raised, raced, gone,
                   program>>

\* Mutant: what the function returns is not tested.
ModClearNil(t, b, f) ==
    /\ IsAt(t, "mod:call", b)
    /\ val' = [val EXCEPT ![t] = f[seen[b]]]
    /\ slots' = [slots EXCEPT ![b] = <<>>]
    /\ FunctionEnds(b)
    /\ GoesTo(t, "mod:push")
    /\ UNCHANGED <<lock, used, calls, index, reply, raised, raced, gone, program>>

\* The function returns a value: the stack is emptied ...
ModClear(t, b, f) ==
    /\ IsAt(t, "mod:call", b)
    /\ f[seen[b]] # Nil
    /\ val' = [val EXCEPT ![t] = f[seen[b]]]
    /\ slots' = [slots EXCEPT ![b] = <<>>]
    /\ FunctionEnds(b)
    /\ GoesTo(t, "mod:push")
    /\ UNCHANGED <<lock, used, calls, index, reply, raised, raced, gone, program>>

\* ... and the copy is pushed.
ModPush(t, b) ==
    /\ IsAt(t, "mod:push", b)
    /\ slots' = [slots EXCEPT ![b] = Append(@, val[t])]
    /\ val' = [val EXCEPT ![t] = Nil]
    /\ GoesTo(t, "mod:end")
    /\ UNCHANGED <<lock, used, calls, index, seen, reply, misread, raised, raced, gone,
                   program>>

\* Mutant: `used' is not reset.
ModEndUsed(t, b) ==
    /\ IsAt(t, "mod:end", b)
    /\ Unlocks(b)
    /\ Leaves(t)
    /\ UNCHANGED <<slots, used, index, val, seen, reply, misread, raised, raced, gone,
                   program>>

\* used = 0, the mutex is given back.
ModEnd(t, b) ==
    /\ IsAt(t, "mod:end", b)
    /\ used' = 0
    /\ Unlocks(b)
    /\ Leaves(t)
    /\ UNCHANGED <<slots, index, val, seen, reply, misread, raised, raced, gone, program>>

\* The function raises an error that a pcall of the program, or of the function
\* of the mod outside, catches: _buffer_mod is left with the mutex locked and
\* `used' as it is.
ModError(t, b) ==
    /\ IsAt(t, "mod:call", b)
    /\ "error" \in Uses
    /\ raised' = raised \cup {b}
    /\ FunctionEnds(b)
    /\ Leaves(t)
    /\ UNCHANGED <<slots, lock, used, index, val, reply, raced, gone, program>>

\* The function calls get, set or mod on a buffer that one of the thread's own
\* calls has locked: the thread waits for itself.
Stuck(t, b) ==
    /\ InLua(t) /\ place[t] = "mod:call" /\ lock[b] = t
    /\ GoesTo(t, "stuck")
    /\ UNCHANGED <<slots, lock, used, calls, index, val, seen, reply, misread, raised,
                   raced, gone, program>>

-----------------------------------------------------------------------------
(* l_buffer_index for a key that is not get, set or mod.  Slot 1 of the    *)
(* stack is indexed; on an empty stack slot 1 is the key itself, a string. *)
Indexes(t, b) == InLua(t) /\ b \notin gone /\ "index" \in Uses /\ Len(slots[b]) =< MaxStack

Indexable(b) == Bottom(slots[b]) \in Tables

\* The field is missing: the nil that gettable pushed is left there.
IndexNil(t, b) ==
    /\ Indexes(t, b)
    /\ Indexable(b) /\ Bottom(slots[b]) \notin Wide
    /\ slots' = [slots EXCEPT ![b] = Append(@, Nil)]
    /\ UNCHANGED <<lock, used, place, calls, index, val, seen, reply, misread, raised,
                   raced, gone, program>>

\* The field is pushed ...
IndexField(t, b) ==
    /\ Indexes(t, b)
    /\ Indexable(b) /\ Bottom(slots[b]) \in Wide
    /\ slots' = [slots EXCEPT ![b] = Append(@, Field)]
    /\ index' = [index EXCEPT ![t] = b]
    /\ UNCHANGED <<lock, used, place, calls, val, seen, reply, misread, raised, raced,
                   gone, program>>

\* ... copied, and popped.
IndexPop(t, b) ==
    /\ program = "runs" /\ index[t] = b /\ b \notin gone
    /\ slots' = [slots EXCEPT ![b] = IF @ = <<>> THEN @ ELSE SubSeq(@, 1, Len(@) - 1)]
    /\ index' = [index EXCEPT ![t] = Nobody]
    /\ UNCHANGED <<lock, used, place, calls, val, seen, reply, misread, raised, raced,
                   gone, program>>

\* Slot 1 cannot be indexed: an error in an unprotected state, Lua panics.
IndexPanic(t, b) ==
    /\ Indexes(t, b)
    /\ ~Indexable(b)
    /\ program' = "aborted"
    /\ UNCHANGED <<slots, lock, used, place, calls, index, val, seen, reply, misread,
                   raised, raced, gone>>

-----------------------------------------------------------------------------
(* l_buffer_gc, which waits for the mutex and then frees it and the state. *)
Gc(b) ==
    /\ "gc" \in Uses
    /\ program = "runs"
    /\ b \notin gone
    /\ lock[b] = Nobody
    /\ gone' = gone \cup {b}
    /\ UNCHANGED <<slots, lock, used, place, calls, index, val, seen, reply, misread,
                   raised, raced, program>>

\* A thread with a copy of the buffer object uses it, or is in an index.
UseFreed(t, b) ==
    /\ program = "runs"
    /\ b \in gone
    /\ InLua(t) \/ index[t] = b
    /\ program' = "wild"
    /\ UNCHANGED <<slots, lock, used, place, calls, index, val, seen, reply, misread,
                   raised, raced, gone>>

-----------------------------------------------------------------------------
Locked(t, b) ==
    \/ Get(t, b)
    \/ \E v \in Contents : SetClear(t, b, v)
    \/ SetPush(t, b)
    \/ ModAssert(t, b) \/ ModAbort(t, b) \/ ModUse(t, b) \/ ModCopy(t, b)
    \/ \E f \in Mods : ModNil(t, b, f) \/ ModClear(t, b, f)
    \/ ModPush(t, b) \/ ModEnd(t, b) \/ ModError(t, b) \/ Stuck(t, b)

Unlocked(t, b) ==
    \/ IndexNil(t, b) \/ IndexField(t, b) \/ IndexPop(t, b) \/ IndexPanic(t, b)
    \/ UseFreed(t, b)

BufferNext ==
    \E b \in Buffers : Gc(b) \/ \E t \in Threads : Locked(t, b) \/ Unlocked(t, b)

BufferSpec == BufferInit /\ [][BufferNext]_bufferVars

-----------------------------------------------------------------------------
\* c is in the list s.
On(s, c) == \E i \in 1 .. Len(s) : s[i] = c

\* t is in a call on b for which it owns the mutex.
InCall(t, b) == On(calls[t], b)

\* The threads that have emptied the buffer's stack and not filled it yet.
Filling(b) ==
    {t \in Threads : place[t] \in {"set:push", "mod:push"} /\ calls[t] # <<>> /\ Innermost(t) = b}

\* No index is under way, none has left anything on the stack, and none had
\* when a mod that is under way copied the value.
Undisturbed(b) ==
    /\ b \notin misread
    /\ \A t \in Threads : index[t] # b
    /\ Len(slots[b]) = IF Filling(b) = {} THEN 1 ELSE 0

(* A call that needs the mutex has it alone, and nobody has it who is not  *)
(* in such a call, except after an error in a mod of that very buffer: no  *)
(* sequence of calls, nested ones too, leaves the mutex locked behind it.  *)
MutexMatchesCalls ==
    \A b \in Buffers :
        /\ \A t \in Threads : InCall(t, b) => lock[b] = t
        /\ lock[b] # Nobody => b \in raised \/ \E t \in Threads : InCall(t, b)

\* The lines of a mod behind used = 1.
StoredLines == {"mod:copy", "mod:call", "mod:push", "mod:end", "stuck"}

\* t is in a mod that has set `used'.
HasStored(t) == Len(calls[t]) > 1 \/ place[t] \in StoredLines

(* `used' is 1 only while a mod that set it is under way or an error has   *)
(* ended one, anywhere; and it is 1 whenever that is so, unless two mods   *)
(* of different buffers were both between the assertion and the store: the *)
(* first to end then stores 0 while the other runs.                        *)
UsedMatchesMods ==
    LET there == raised # {} \/ \E t \in Threads : HasStored(t)
    IN (used = 1 => there) /\ (there /\ ~raced => used = 1)

(* assert(used == 0) never fails (thread.c, _buffer_mod).                  *)
AssertHolds == program # "aborted"

\* The value of a buffer: a set or mod takes effect when it empties the stack.
Cell(b) ==
    IF Filling(b) # {} THEN val[CHOOSE t \in Filling(b) : TRUE] ELSE Bottom(slots[b])

\* The call that has emptied the stack and not filled it yet.
Writing(b) ==
    IF Filling(b) = {} THEN "none"
    ELSE IF \E t \in Filling(b) : place[t] = "set:push" THEN "set" ELSE "mod"

SC == INSTANCE SharedCell WITH
        cell <- [b \in Buffers |-> Cell(b)], write <- [b \in Buffers |-> Writing(b)]

(* While no index disturbs a buffer, buffers are shared cells: get returns *)
(* the value last stored and never the state in the middle of a set, and a *)
(* mod stores what its function makes of the value that is still in the    *)
(* buffer, whatever other threads do meanwhile: no update is lost, though  *)
(* mods of different buffers overlap and functions of mods use buffers.    *)
BuffersAreCells ==
    /\ SC!Init
    /\ [][(\A b \in Buffers : Undisturbed(b)) => SC!Next]_SC!vars
=============================================================================
