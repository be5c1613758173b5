---------------------------- MODULE LArrayTable -----------------------------
(***************************************************************************)
(* One larray under arbitrary sequences of larray_set, shown to implement  *)
(* a Dictionary.                                                           *)
(***************************************************************************)
EXTENDS LArraySet

CONSTANTS
    Keys,       \* the keys used, a set of naturals
    Values,     \* the pointers stored
    MaxSize     \* bound: no set is made once the table has more slots

ASSUME LArrayTableAssumption == Keys \subseteq Nat

Item == [used : BOOLEAN, idx : Keys \cup {0}, value : Values \cup {NULL}]

IsTable(l) ==
    l \in [size : Nat \ {0}, len : Nat, arr : [0 .. l.size - 1 -> Item]]

\* Tables have their slots numbered below size, and the loop of each
\* larray_expand stays inside the table it copies.
TypeOK ==
    /\ IsTable(table)
    /\ at \in SetLines
    /\ call.idx \in Keys \cup {0} /\ call.value \in Values \cup {NULL}
    /\ \A j \in DOMAIN stack : /\ IsTable(stack[j].table)
                               /\ stack[j].i \in 0 .. stack[j].table.size

Init == SetInit

Set(k, v) ==
    /\ table.size =< MaxSize
    /\ SetCall(k, v)

Next == SetStep \/ \E k \in Keys, v \in Values : Set(k, v)

Spec == Init /\ [][Next]_setVars

-----------------------------------------------------------------------------
(* larray_geti ends on every table the program can build, also for a key   *)
(* whose probe starts at slot 0, where the loop's own bound never applies: *)
(* larray_set keeps a slot free.                                           *)
GetiAlwaysEnds == \A k \in Keys : GetiTerminates(table, k)

(* A key is in one slot at most, and larray_geti finds every key that is   *)
(* stored, although it never looks at the last slot of a probe; also in a  *)
(* table that larray_expand is still filling.                              *)
StoredKeysFound ==
    \A i \in DOMAIN table.arr :
        table.arr[i].used => larray_geti(table, table.arr[i].idx) = i

(* larray.c implements a dictionary: rehashing, nested expansions and      *)
(* collisions lose no key and mix up no values, a set in progress is not   *)
(* seen before it is finished, and it then has set what it was called for. *)
Dict == INSTANCE Dictionary WITH
    dict  <- [k \in Keys |-> larray_get(Outer, k)],
    asked <- IF at = "idle" THEN {} ELSE {<<call.idx, call.value>>}
ImplementsDictionary == Dict!Spec
=============================================================================
