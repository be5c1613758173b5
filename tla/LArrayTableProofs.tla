------------------------- MODULE LArrayTableProofs --------------------------
(***************************************************************************)
(* The properties of LArrayTable for all keys and values, every size of    *)
(* the first table, every probe limit and any number of sets.              *)
(***************************************************************************)
EXTENDS LArrayTable, LArraySetProofs

\* The pointers of the slots.
Pointers == Values \cup {NULL}

\* larray_set's invariant; the slots and the running call hold the keys and
\* values that sets were asked for.
TableInv ==
    /\ SetInv(Pointers)
    /\ AllSlotsIn(Item)
    /\ call.idx \in Keys \cup {0} /\ call.value \in Pointers
    /\ at # "idle" => call.idx \in Keys /\ call.value \in Values

(* The invariant holds for the empty table.                                *)
LEMMA TableInvInit ==
    Init => TableInv
<1> SUFFICES ASSUME Init PROVE TableInv
    OBVIOUS
<1>1. SetInv(Pointers)
    BY SetInvInit DEF Init, Pointers
<1>2. SlotsIn(table, Item)
    BY DEF Init, SetInit, larray_init, larray_initl, SlotsIn, Slots, Unused, Item
<1>3. Len(stack) = 0
    BY EmptySeq DEF Init, SetInit
<1> QED
    BY <1>1, <1>2, <1>3 DEF TableInv, AllSlotsIn, Init, SetInit, NoCall, Pointers

(* Every step keeps the invariant.                                         *)
LEMMA TableInvNext ==
    TableInv /\ [Next]_setVars => TableInv'
<1> SUFFICES ASSUME TableInv, [Next]_setVars PROVE TableInv'
    OBVIOUS
<1>0. SetInv(Pointers) /\ NULL \in Pointers
    BY DEF TableInv, Pointers
<1>1. CASE SetStep
    <2>1. SetInv(Pointers)'
        BY <1>0, <1>1, SetInvStep
    <2>2. call' = call /\ at # "idle"
        BY <1>0, <1>1, OuterStep
    <2>3. Unused \in Item /\ [used |-> TRUE, idx |-> call.idx, value |-> call.value] \in Item
        BY <2>2 DEF Unused, Item, TableInv
    <2>4. AllSlotsIn(Item)'
        BY <1>0, <1>1, <2>3, SlotsStep DEF TableInv
    <2> QED
        BY <2>1, <2>2, <2>4 DEF TableInv, Pointers
<1>2. ASSUME NEW k \in Keys, NEW v \in Values, Set(k, v) PROVE TableInv'
    <2>1. SetCall(k, v) /\ k \in Nat /\ v \in Pointers
        BY <1>2, LArrayTableAssumption DEF Set, Pointers
    <2>2. SetInv(Pointers)'
        BY <1>0, <2>1, SetInvCall
    <2>3. AllSlotsIn(Item)'
        BY <2>1 DEF TableInv, AllSlotsIn, SetCall
    <2> QED
        BY <2>1, <2>2, <2>3 DEF TableInv, SetCall
<1>3. CASE UNCHANGED setVars
    <2>1. SetInv(Pointers)'
        BY <1>0, <1>3, SetInvStutter
    <2> QED
        BY <1>3, <2>1 DEF TableInv, AllSlotsIn, setVars
<1> QED
    BY <1>1, <1>2, <1>3 DEF Next

(* The invariant holds throughout every behaviour.                         *)
LEMMA TableInvHolds ==
    Spec => []TableInv
BY TableInvInit, TableInvNext, PTL DEF Spec

-----------------------------------------------------------------------------
(* A typed table with slots from Item is one of TypeOK's tables.           *)
LEMMA TypedIsTable ==
    ASSUME NEW V, NEW l, Typed(l, V), SlotsIn(l, Item)
    PROVE  IsTable(l)
<1>1. l \in [size : Nat \ {0}, len : Nat,
             arr : [Slots(l) -> [used : BOOLEAN, idx : Nat, value : V]]]
    BY DEF Typed
<1>2. l.arr \in [Slots(l) -> Item]
    BY <1>1 DEF SlotsIn
<1>3. l \in [size : Nat \ {0}, len : Nat, arr : [Slots(l) -> Item]]
    BY <1>1, <1>2
<1> QED
    BY <1>3 DEF IsTable, Slots

(* Tables have their slots numbered below size, with the keys and values   *)
(* of the sets in them, and no loop of larray_expand leaves its table.     *)
THEOREM TableTypeCorrect ==
    Spec => []TypeOK
<1>1. TableInv => TypeOK
    <2> SUFFICES ASSUME TableInv PROVE TypeOK
        OBVIOUS
    <2>1. SetInv(Pointers) /\ Typed(table, Pointers)
        BY DEF TableInv, SetInv
    <2>2. IsTable(table)
        BY <2>1, TypedIsTable DEF TableInv, AllSlotsIn
    <2>3. ASSUME NEW j \in 1 .. Len(stack)
          PROVE  IsTable(stack[j].table) /\ stack[j].i \in 0 .. stack[j].table.size
        <3>1. Typed(stack[j].table, Pointers) /\ FrameInv(j)
            BY <2>1, StackTyped DEF SetInv
        <3> QED
            BY <3>1, TypedIsTable DEF FrameInv, TableInv, AllSlotsIn
    <2>4. DOMAIN stack = 1 .. Len(stack)
        BY <2>1, LenProperties DEF SetInv
    <2> QED
        BY <2>1, <2>2, <2>3, <2>4 DEF TypeOK, TableInv, SetInv, Pointers
<1> QED
    BY <1>1, TableInvHolds, PTL

(* larray_geti ends for every key on every table that larray_set and       *)
(* larray_expand build.                                                    *)
THEOREM GetiEndsAlways ==
    Spec => []GetiAlwaysEnds
<1>1. TableInv => GetiAlwaysEnds
    BY GetiEnds, LArrayTableAssumption DEF TableInv, SetInv, GetiAlwaysEnds
<1> QED
    BY <1>1, TableInvHolds, PTL

(* larray_geti finds every stored key, in finished tables and in those     *)
(* that larray_expand is filling.                                          *)
THEOREM StoredKeysAreFound ==
    Spec => []StoredKeysFound
<1>1. TableInv => StoredKeysFound
    <2> SUFFICES ASSUME TableInv, NEW i \in DOMAIN table.arr, table.arr[i].used
                 PROVE  larray_geti(table, table.arr[i].idx) = i
        BY DEF StoredKeysFound
    <2>1. Typed(table, Pointers) /\ Sound(table)
        BY DEF TableInv, SetInv
    <2>2. i \in UsedSlots(table)
        BY <2>1 DEF Typed, UsedSlots
    <2> QED
        BY <2>1, <2>2, GetiFinds DEF Sound
<1> QED
    BY <1>1, TableInvHolds, PTL

-----------------------------------------------------------------------------
(* The refinement: each step of larray_set leaves the dictionary as it is  *)
(* but the last, which sets the key of the call to its value.              *)

(* The empty table is the empty dictionary.                                *)
LEMMA DictionaryInit ==
    Init => Dict!Init
<1> SUFFICES ASSUME Init PROVE Dict!Init
    OBVIOUS
<1>1. Typed(table, Pointers) /\ Sound(table) /\ Contents(table) = {}
    BY InitlSound, LArrayAssumption DEF Init, SetInit, larray_init, Pointers
<1>2. Outer = table /\ at = "idle"
    BY DEF Init, SetInit, Outer
<1>3. ASSUME NEW k \in Keys PROVE larray_get(Outer, k) = NULL
    BY <1>1, <1>2, GetAbsent, LArrayTableAssumption
<1> QED
    BY <1>2, <1>3 DEF Dict!Init

(* The caller's table is typed and sound.                                  *)
LEMMA OuterTable ==
    TableInv => Typed(Outer, Pointers) /\ Sound(Outer)
BY OuterTyped DEF TableInv

(* Every step is a step of the dictionary under the refinement mapping: a  *)
(* call is Ask, the last store is Set, everything else stutters.           *)
LEMMA DictionaryStep ==
    TableInv /\ TableInv' /\ [Next]_setVars => [Dict!Next]_<<[k \in Keys |-> larray_get(Outer, k)],
        IF at = "idle" THEN {} ELSE {<<call.idx, call.value>>}>>
<1> SUFFICES ASSUME TableInv, TableInv', [Next]_setVars
             PROVE  [Dict!Next]_<<[k \in Keys |-> larray_get(Outer, k)],
                          IF at = "idle" THEN {} ELSE {<<call.idx, call.value>>}>>
    OBVIOUS
<1> DEFINE dict == [k \in Keys |-> larray_get(Outer, k)]
           asked == IF at = "idle" THEN {} ELSE {<<call.idx, call.value>>}
<1>0. SetInv(Pointers) /\ SetInv(Pointers)'
    BY DEF TableInv
<1>1. /\ Typed(Outer, Pointers) /\ Sound(Outer)
      /\ Typed(Outer', Pointers) /\ Sound(Outer')
    <2>1. Typed(Outer, Pointers) /\ Sound(Outer)
        BY <1>0, OuterTyped
    <2>2. (Typed(Outer, Pointers) /\ Sound(Outer))'
        BY OuterTable, PTL
    <2> QED
        BY <2>1, <2>2
<1>2. CASE stack = <<>> /\ SetStore
    <2>1. at # "idle" /\ at' = "idle"
        BY <1>0, <1>2, OuterStore DEF SetStore
    <2>2. Contents(Outer') =
             {c \in Contents(Outer) : c[1] # call.idx} \cup {<<call.idx, call.value>>}
        BY <1>0, <1>2, OuterStore
    <2>3. call.idx \in Keys
        BY <2>1 DEF TableInv
    <2>4. ASSUME NEW k \in Keys
          PROVE  larray_get(Outer', k) = IF k = call.idx THEN call.value ELSE larray_get(Outer, k)
        <3>0. k \in Nat
            BY LArrayTableAssumption
        <3>1. CASE k = call.idx
            BY <1>1, <2>2, <3>0, <3>1, GetFound
        <3>2. CASE k # call.idx /\ \E c \in Contents(Outer) : c[1] = k
            <4>1. PICK c \in Contents(Outer) : c[1] = k
                BY <3>2
            <4>2. PICK i \in UsedSlots(Outer) : c = <<Outer.arr[i].idx, Outer.arr[i].value>>
                BY DEF Contents
            <4>3. <<k, Outer.arr[i].value>> \in Contents(Outer)
                BY <4>1, <4>2
            <4>4. <<k, Outer.arr[i].value>> \in Contents(Outer')
                BY <2>2, <3>2, <4>3
            <4> QED
                BY <1>1, <3>0, <3>2, <4>3, <4>4, GetFound
        <3>3. CASE k # call.idx /\ \A c \in Contents(Outer) : c[1] # k
            <4>1. \A c \in Contents(Outer') : c[1] # k
                BY <2>2, <3>3
            <4> QED
                BY <1>1, <3>0, <3>3, <4>1, GetAbsent
        <3> QED
            BY <3>1, <3>2, <3>3
    <2>5. dict' = [dict EXCEPT ![call.idx] = call.value]
        BY <2>3, <2>4
    <2>6. asked = {<<call.idx, call.value>>} /\ asked' = {}
        BY <2>1
    <2>7. Dict!Set
        BY <2>5, <2>6 DEF Dict!Set
    <2> QED
        BY <2>7 DEF Dict!Next
<1>3. ASSUME Contents(Outer') = Contents(Outer) PROVE dict' = dict
    <2>1. \A k \in Keys : larray_get(Outer', k) = larray_get(Outer, k)
        BY <1>1, <1>3, GetContents, LArrayTableAssumption
    <2> QED
        BY <2>1
<1>4. CASE SetStep /\ ~ (stack = <<>> /\ SetStore)
    <2>1. Contents(Outer') = Contents(Outer) /\ call' = call /\ at # "idle" /\ at' # "idle"
        BY <1>0, <1>4, OuterStep
    <2>2. asked' = asked
        BY <2>1
    <2> QED
        BY <1>3, <2>1, <2>2
<1>5. ASSUME NEW k \in Keys, NEW v \in Values, Set(k, v) PROVE Dict!Ask(k, v)
    <2>1. /\ at = "idle" /\ at' # "idle" /\ call'.idx = k /\ call'.value = v /\ Outer' = Outer
        BY <1>5 DEF Set, SetCall, Outer
    <2>2. dict' = dict
        BY <1>3, <2>1
    <2>3. asked = {} /\ asked' = {<<k, v>>}
        BY <2>1
    <2> QED
        BY <2>2, <2>3 DEF Dict!Ask
<1>6. CASE UNCHANGED setVars
    BY <1>6 DEF setVars, Outer
<1> QED
    BY <1>2, <1>4, <1>5, <1>6 DEF Next, Dict!Next

(* larray.c implements a dictionary, whatever the keys and however the     *)
(* tables grow.                                                            *)
THEOREM TableImplementsDictionary ==
    Spec => ImplementsDictionary
BY TableInvHolds, DictionaryInit, DictionaryStep, PTL DEF Spec, ImplementsDictionary, Dict!Spec
=============================================================================
