----------------------------- MODULE LArraySet ------------------------------
(***************************************************************************)
(* A call of larray_set, with the calls of larray_expand and larray_set    *)
(* that it makes: larray_expand copies a table slot by slot into one four  *)
(* times as large, each slot by a larray_set of its own, which may expand  *)
(* the half-built table again.                                             *)
(***************************************************************************)
EXTENDS LArray, Sequences

VARIABLES
    table,  \* the table of the innermost larray_set: its l, the caller's remade
    stack,  \* the calls of larray_expand, outermost first: the table that is
            \* copied and the slot i at which its loop is
    call,   \* idx and value of the outermost larray_set
    at      \* where the innermost call is: "idle" when there is none

setVars == <<table, stack, call, at>>

\* Before the load test, at the probe (also after `expand:'), in the loop of
\* larray_expand.
SetLines == {"idle", "test", "probe", "copy"}

NoCall == [idx |-> 0, value |-> NULL]

SetInit == /\ table = larray_init
           /\ stack = <<>>
           /\ call = NoCall
           /\ at = "idle"

\* The caller's table.  It is assigned when the larray_set ends; from the end
\* of the outermost copy it is taken for the copy, which has the same contents.
Outer == IF stack = <<>> THEN table ELSE stack[1].table

Frame == stack[Len(stack)]
Slot == Frame.table.arr[Frame.i]

\* idx and value of the innermost larray_set.
Pending == IF stack = <<>> THEN call ELSE [idx |-> Slot.idx, value |-> Slot.value]

\* Where its probe may stop.
PendingStops == Stops(table, Pending.idx, SetReach(table))

SetCall(idx, value) ==
    /\ at = "idle"
    /\ call' = [idx |-> idx, value |-> value]
    /\ at' = "test"
    /\ UNCHANGED <<table, stack>>

larray_expand ==
    /\ stack' = Append(stack, [table |-> table, i |-> 0])
    /\ table' = larray_initl(table.size * 4)
    /\ at' = "copy"
    /\ UNCHANGED call

SetTest ==
    /\ at = "test"
    /\ IF NearlyFull(table) THEN larray_expand
       ELSE at' = "probe" /\ UNCHANGED <<table, stack, call>>

\* `goto expand'
SetGivesUp ==
    /\ at = "probe"
    /\ PendingStops = {}
    /\ larray_expand

NextSlot == stack' = [stack EXCEPT ![Len(stack)].i = @ + 1]

SetStore ==
    /\ at = "probe"
    /\ PendingStops # {}
    /\ table' = Store(table, Pending.idx, Pending.value, Min(PendingStops))
    /\ IF stack = <<>> THEN at' = "idle" /\ UNCHANGED stack
                       ELSE at' = "copy" /\ NextSlot
    /\ UNCHANGED call

CopySlot ==
    /\ at = "copy"
    /\ Frame.i # Frame.table.size
    /\ IF Slot.used THEN at' = "test" /\ UNCHANGED stack
                    ELSE NextSlot /\ UNCHANGED at
    /\ UNCHANGED <<table, call>>

\* The copy replaces the table, and the larray_set that asked for it probes.
CopyDone ==
    /\ at = "copy"
    /\ Frame.i = Frame.table.size
    /\ stack' = SubSeq(stack, 1, Len(stack) - 1)
    /\ at' = "probe"
    /\ UNCHANGED <<table, call>>

SetStep == SetTest \/ SetGivesUp \/ SetStore \/ CopySlot \/ CopyDone
=============================================================================
