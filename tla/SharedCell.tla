----------------------------- MODULE SharedCell -----------------------------
(***************************************************************************)
(* What thread buffers promise (docs/thread.md): cells shared by all       *)
(* threads, with a get that returns the value in the cell, a set that      *)
(* replaces it, and a mod that applies a function to it.  A set or mod     *)
(* takes effect in one indivisible step; until it has returned the cell is *)
(* closed to everyone else.                                                *)
(***************************************************************************)
CONSTANTS Threads, Buffers, Contents, Nil, Mods

VARIABLES
    cell,   \* the value of each buffer
    write,  \* the call that has replaced it and has not returned yet
    reply   \* what the last get of each thread returned

vars == <<cell, write, reply>>

Init ==
    /\ cell \in [Buffers -> Contents]
    /\ write = [b \in Buffers |-> "none"]
    /\ reply = [t \in Threads |-> Nil]

Get(t, b) ==
    /\ write[b] = "none"
    /\ reply' = [reply EXCEPT ![t] = cell[b]]
    /\ UNCHANGED <<cell, write>>

Replace(b, v, call) ==
    /\ write[b] = "none"
    /\ cell' = [cell EXCEPT ![b] = v]
    /\ write' = [write EXCEPT ![b] = call]
    /\ reply' = reply

Set(b, v) == Replace(b, v, "set")

\* A function that returns nothing leaves the cell alone.
Mod(b, f) == f[cell[b]] # Nil /\ Replace(b, f[cell[b]], "mod")

\* The set or mod returns.
Done(b) ==
    /\ write' = [write EXCEPT ![b] = "none"]
    /\ UNCHANGED <<cell, reply>>

Next ==
    \E b \in Buffers :
        \/ \E t \in Threads : Get(t, b)
        \/ \E v \in Contents : Set(b, v)
        \/ \E f \in Mods : Mod(b, f)
        \/ Done(b)

Spec == Init /\ [][Next]_vars
=============================================================================
