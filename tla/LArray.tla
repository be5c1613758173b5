------------------------------- MODULE LArray -------------------------------
(***************************************************************************)
(* types/larray.c: the open-addressing table from integers to pointers in  *)
(* which thread.c keeps its lock ids and net.c the parameters of a request.*)
(* Keys are placed by linear probing from idx % size; the table is         *)
(* replaced by one four times as large when it is nearly full or when a    *)
(* probe gets too long.  Here are the tables and what one round of a       *)
(* function does to them; LArraySet runs larray_set and larray_expand.     *)
(***************************************************************************)
EXTENDS Integers, FiniteSets, FiniteSetsExt

CONSTANTS
    Inc,        \* slots of a table made by larray_init (the macro inc, 4)
    ProbeLimit, \* the 10 of larray_set's `count > 10'
    NULL        \* what larray_get answers for an absent key

ASSUME LArrayAssumption == Inc \in Nat \ {0} /\ ProbeLimit \in Nat

\* A slot as calloc leaves it.
Unused == [used |-> FALSE, idx |-> 0, value |-> NULL]

larray_initl(len) ==
    [size |-> len, len |-> 0, arr |-> [i \in 0 .. len - 1 |-> Unused]]

larray_init == larray_initl(Inc)

\* The slot that probing for idx visits d steps after the first: ind++, and
\* back to 0 at the end of the table.
Probe(l, idx, d) ==
    LET ind == (idx % l.size) + d IN IF ind >= l.size THEN ind - l.size ELSE ind

\* Mutant: the probe does not recognise the key itself.
StopsUnusedOnly(l, idx, D) == {d \in D : ~l.arr[Probe(l, idx, d)].used}

\* Where a probe for idx may end: an unused slot or idx's own.
Stops(l, idx, D) ==
    {d \in D : LET s == l.arr[Probe(l, idx, d)] IN ~s.used \/ s.idx = idx}

\* The displacements larray_set tries before its `goto expand': it gives up
\* when the probe is back where it began or count exceeds the limit.
SetReach(l) == {d \in 0 .. l.size - 1 : d =< ProbeLimit + 1}

\* Mutant: the load test comes one set too late.
NearlyFullLate(l) == l.len >= l.size

\* The load test at the head of larray_set.
NearlyFull(l) == l.len + 1 >= l.size

\* Mutants: the probed slot is ignored; key and pointer are exchanged.
StoreHome(l, idx, value, d) ==
    LET item == [used |-> TRUE, idx |-> idx, value |-> value]
    IN  [size |-> l.size, len |-> l.len + 1,
         arr |-> [l.arr EXCEPT ![idx % l.size] = item]]

StoreSwapped(l, idx, value, d) ==
    LET item == [used |-> TRUE, idx |-> value, value |-> idx]
    IN  [size |-> l.size, len |-> l.len + 1,
         arr |-> [l.arr EXCEPT ![Probe(l, idx, d)] = item]]

\* The assignments that end larray_set.
Store(l, idx, value, d) ==
    LET item == [used |-> TRUE, idx |-> idx, value |-> value]
    IN  [size |-> l.size, len |-> l.len + 1,
         arr |-> [l.arr EXCEPT ![Probe(l, idx, d)] = item]]

\* larray_geti stops before the slot that precedes the first one; when the
\* first slot is slot 0 that test compares with 2^64 - 1 and never stops it.
GetReach(l, idx) == 0 .. IF idx % l.size = 0 THEN l.size - 1 ELSE l.size - 2

\* The loop of larray_geti ends for every key; on a full table a probe that
\* starts at slot 0 would go round for ever.
GetiTerminates(l, idx) ==
    idx % l.size = 0 => Stops(l, idx, GetReach(l, idx)) # {}

larray_geti(l, idx) ==
    LET stops == Stops(l, idx, GetReach(l, idx))
        ind   == Probe(l, idx, Min(stops))
    IN  IF stops = {} \/ ~l.arr[ind].used THEN -1 ELSE ind

larray_get(l, idx) ==
    LET r == larray_geti(l, idx) IN IF r = -1 THEN NULL ELSE l.arr[r].value

=============================================================================
