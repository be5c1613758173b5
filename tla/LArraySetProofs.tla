-------------------------- MODULE LArraySetProofs ---------------------------
(***************************************************************************)
(* What larray.c does to tables of every size, with every probe limit, any *)
(* keys and any pointers: lemmas about the tables, and the invariant of    *)
(* larray_set and larray_expand on which LArrayTableProofs and             *)
(* ThreadLocksProofs rest.                                                 *)
(***************************************************************************)
EXTENDS LArraySet, FiniteSetTheorems, WellFoundedInduction, SequenceTheorems, TLAPS

-----------------------------------------------------------------------------
(* A set of naturals that is not empty has a least member, which is what   *)
(* Min returns.                                                            *)
LEMMA MinOfNaturals ==
    ASSUME NEW S \in SUBSET Nat, S # {}
    PROVE  Min(S) \in S /\ \A y \in S : Min(S) =< y
<1> DEFINE R == {ss \in Nat \X Nat : ss[1] < ss[2]}
<1>1. PICK x \in S : \A y \in S : <<y, x>> \notin R
    <2>1. IsWellFoundedOn(R, Nat)
        BY NatLessThanWellFounded DEF OpToRel
    <2> HIDE DEF R
    <2> QED
        BY <2>1, WFMin
<1>2. \A y \in S : x =< y
    <2> SUFFICES ASSUME NEW y \in S, y < x PROVE FALSE
        BY <1>1
    <2>1. <<y, x>> \in R
        OBVIOUS
    <2> QED
        BY <1>1, <2>1
<1> QED
    BY <1>2 DEF Min

(* The probe of a key visits every slot once.                              *)
LEMMA ProbeInTable ==
    ASSUME NEW l, l.size \in Nat \ {0}, NEW idx \in Nat, NEW d \in 0 .. l.size - 1
    PROVE  Probe(l, idx, d) \in 0 .. l.size - 1
<1>1. idx % l.size \in 0 .. l.size - 1
    OBVIOUS
<1> QED
    BY <1>1 DEF Probe

(* A probe visits no slot twice.                                           *)
LEMMA ProbeInjective ==
    ASSUME NEW l, l.size \in Nat \ {0}, NEW idx \in Nat,
           NEW d \in 0 .. l.size - 1, NEW e \in 0 .. l.size - 1,
           Probe(l, idx, d) = Probe(l, idx, e)
    PROVE  d = e
<1>1. idx % l.size \in 0 .. l.size - 1
    OBVIOUS
<1> QED
    BY <1>1 DEF Probe

(* A probe visits every slot.                                              *)
LEMMA ProbeSurjective ==
    ASSUME NEW l, l.size \in Nat \ {0}, NEW idx \in Nat, NEW i \in 0 .. l.size - 1
    PROVE  \E d \in 0 .. l.size - 1 : Probe(l, idx, d) = i
<1>1. idx % l.size \in 0 .. l.size - 1
    OBVIOUS
<1>2. CASE i >= idx % l.size
    <2>1. i - (idx % l.size) \in 0 .. l.size - 1
        BY <1>1, <1>2
    <2> QED
        BY <1>1, <1>2, <2>1 DEF Probe
<1>3. CASE i < idx % l.size
    <2>1. i + l.size - (idx % l.size) \in 0 .. l.size - 1
        BY <1>1, <1>3
    <2> QED
        BY <1>1, <1>3, <2>1 DEF Probe
<1> QED
    BY <1>1, <1>2, <1>3

-----------------------------------------------------------------------------
(* Tables: how larray_set leaves them.  V is the set of pointers.          *)

Slots(l) == 0 .. l.size - 1

Typed(l, V) ==
    l \in [size : Nat \ {0}, len : Nat,
           arr : [Slots(l) -> [used : BOOLEAN, idx : Nat, value : V]]]

UsedSlots(l) == {i \in Slots(l) : l.arr[i].used}

\* The first d slots of idx's probe belong to other keys.
Passes(l, idx, d) ==
    \A e \in 0 .. d - 1 : LET s == l.arr[Probe(l, idx, e)] IN s.used /\ s.idx # idx

\* Key idx is in slot i, where its probe leads it before the last step.
PlacedAt(l, idx, i) ==
    \E d \in 0 .. l.size - 2 : Probe(l, idx, d) = i /\ Passes(l, idx, d)

\* Every key is where its probe finds it; len bounds the number of used slots
\* and is less than the number of slots.
Sound(l) ==
    /\ \A i \in UsedSlots(l) : PlacedAt(l, l.arr[i].idx, i)
    /\ Cardinality(UsedSlots(l)) =< l.len
    /\ l.len < l.size

\* The keys with their pointers.
Contents(l) == {<<l.arr[i].idx, l.arr[i].value>> : i \in UsedSlots(l)}

(* A table has as many slots as its size says.                             *)
LEMMA SlotsFinite ==
    ASSUME NEW V, NEW l, Typed(l, V)
    PROVE  /\ IsFiniteSet(Slots(l)) /\ Cardinality(Slots(l)) = l.size
           /\ IsFiniteSet(UsedSlots(l)) /\ Cardinality(UsedSlots(l)) \in Nat
<1>1. l.size \in Nat \ {0}
    BY DEF Typed
<1>2. IsFiniteSet(Slots(l)) /\ Cardinality(Slots(l)) = l.size
    <2>1. 0 \in Int /\ l.size - 1 \in Int /\ ~ 0 > l.size - 1
             /\ (l.size - 1) - 0 + 1 = l.size
        BY <1>1
    <2>2. IsFiniteSet(0 .. l.size - 1) /\ Cardinality(0 .. l.size - 1) = (l.size - 1) - 0 + 1
        BY <2>1, FS_Interval, Zenon
    <2> QED
        BY <2>1, <2>2 DEF Slots
<1>3. IsFiniteSet(UsedSlots(l))
    <2>1. UsedSlots(l) \in SUBSET Slots(l)
        BY DEF UsedSlots
    <2> QED
        BY <1>2, <2>1, FS_Subset
<1> QED
    BY <1>2, <1>3, FS_CardinalityType

(* A new table is sound and empty.                                         *)
LEMMA InitlSound ==
    ASSUME NEW V, NULL \in V, NEW n \in Nat \ {0}
    PROVE  LET l == larray_initl(n) IN
           Typed(l, V) /\ Sound(l) /\ UsedSlots(l) = {} /\ Contents(l) = {}
                /\ l.size = n /\ l.len = 0
<1> DEFINE l == larray_initl(n)
<1>1. Typed(l, V) /\ UsedSlots(l) = {} /\ l.size = n /\ l.len = 0
    BY DEF Typed, larray_initl, Unused, UsedSlots, Slots
<1>2. Sound(l) /\ Contents(l) = {}
    <2> HIDE DEF l
    <2> QED
        BY <1>1, FS_EmptySet DEF Sound, Contents
<1> QED
    BY <1>1, <1>2

(* The probe of larray_geti meets a key that is placed where it is placed. *)
LEMMA GetiFinds ==
    ASSUME NEW V, NEW l, Typed(l, V), NEW i \in UsedSlots(l),
           PlacedAt(l, l.arr[i].idx, i)
    PROVE  larray_geti(l, l.arr[i].idx) = i
<1> DEFINE idx == l.arr[i].idx
           stops == Stops(l, idx, GetReach(l, idx))
<1>1. /\ l.size \in Nat \ {0} /\ i \in 0 .. l.size - 1 /\ idx \in Nat
      /\ l.arr[i].used
    BY DEF Typed, Slots, UsedSlots
<1>2. PICK d \in 0 .. l.size - 2 : Probe(l, idx, d) = i /\ Passes(l, idx, d)
    BY DEF PlacedAt
<1>3. GetReach(l, idx) \in SUBSET Nat /\ d \in GetReach(l, idx)
    BY <1>1 DEF GetReach
<1>4. d \in stops /\ stops \in SUBSET Nat
    BY <1>2, <1>3 DEF Stops
<1>5. Min(stops) = d
    <2>1. Min(stops) \in stops /\ Min(stops) =< d
        BY <1>4, MinOfNaturals
    <2>2. ~ Min(stops) < d
        <3> SUFFICES ASSUME Min(stops) \in 0 .. d - 1 PROVE FALSE
            BY <1>4, <2>1
        <3> QED
            BY <1>2, <2>1 DEF Stops, Passes
    <2> QED
        BY <1>4, <2>1, <2>2
<1> QED
    BY <1>1, <1>2, <1>4, <1>5 DEF larray_geti

(* An index that larray_geti returns is a used slot of the key.            *)
LEMMA GetiReturns ==
    ASSUME NEW V, NEW l, Typed(l, V), NEW idx \in Nat, larray_geti(l, idx) # -1
    PROVE  /\ larray_geti(l, idx) \in UsedSlots(l)
           /\ l.arr[larray_geti(l, idx)].idx = idx
<1> DEFINE stops == Stops(l, idx, GetReach(l, idx))
           d == Min(stops)
<1>1. l.size \in Nat \ {0}
    BY DEF Typed
<1>2. stops # {} /\ larray_geti(l, idx) = Probe(l, idx, d)
          /\ l.arr[Probe(l, idx, d)].used
    BY DEF larray_geti
<1>3. GetReach(l, idx) \subseteq 0 .. l.size - 1
    BY <1>1 DEF GetReach
<1>4. d \in stops
    <2>1. stops \in SUBSET Nat
        BY <1>3 DEF Stops
    <2> QED
        BY <1>2, <2>1, MinOfNaturals
<1>5. d \in 0 .. l.size - 1 /\ l.arr[Probe(l, idx, d)].idx = idx
    BY <1>2, <1>3, <1>4 DEF Stops
<1> HIDE DEF d
<1>6. Probe(l, idx, d) \in 0 .. l.size - 1
    BY <1>1, <1>5, ProbeInTable
<1> QED
    BY <1>2, <1>5, <1>6 DEF UsedSlots, Slots

(* With a sound table larray_geti decides whether a key is there.          *)
LEMMA GetiDecides ==
    ASSUME NEW V, NEW l, Typed(l, V), Sound(l), NEW idx \in Nat
    PROVE  /\ \A i \in UsedSlots(l) : l.arr[i].idx = idx => larray_geti(l, idx) = i
           /\ (\A i \in UsedSlots(l) : l.arr[i].idx # idx) => larray_geti(l, idx) = -1
<1>1. ASSUME NEW i \in UsedSlots(l), l.arr[i].idx = idx PROVE larray_geti(l, idx) = i
    BY <1>1, GetiFinds DEF Sound
<1>2. ASSUME \A i \in UsedSlots(l) : l.arr[i].idx # idx PROVE larray_geti(l, idx) = -1
    BY <1>2, GetiReturns
<1> QED
    BY <1>1, <1>2

(* A sound table has an unused slot, so that larray_geti ends.             *)
LEMMA GetiEnds ==
    ASSUME NEW V, NEW l, Typed(l, V), Sound(l), NEW idx \in Nat
    PROVE  GetiTerminates(l, idx)
<1> SUFFICES ASSUME idx % l.size = 0
             PROVE  Stops(l, idx, GetReach(l, idx)) # {}
    BY DEF GetiTerminates
<1>1. l.size \in Nat \ {0} /\ l.len \in Nat
    BY DEF Typed
<1>2. PICK i \in Slots(l) : i \notin UsedSlots(l)
    <2>1. Cardinality(UsedSlots(l)) # Cardinality(Slots(l))
        BY <1>1, SlotsFinite DEF Sound
    <2>2. UsedSlots(l) # Slots(l)
        BY <2>1
    <2> QED
        BY <2>2 DEF UsedSlots
<1>3. PICK d \in 0 .. l.size - 1 : Probe(l, idx, d) = i
    BY <1>1, ProbeSurjective DEF Slots
<1>4. d \in Stops(l, idx, GetReach(l, idx))
    BY <1>1, <1>2, <1>3 DEF Stops, GetReach, UsedSlots
<1> QED
    BY <1>4

-----------------------------------------------------------------------------
(* What larray_set's probe and its last assignments do to a sound table.   *)

(* A probe passes no more slots than are used.                             *)
LEMMA PassesUsed ==
    ASSUME NEW V, NEW l, Typed(l, V), NEW idx \in Nat,
           NEW d \in 0 .. l.size - 1, Passes(l, idx, d)
    PROVE  d =< Cardinality(UsedSlots(l))
<1> DEFINE f == [e \in 0 .. d - 1 |-> Probe(l, idx, e)]
<1>1. l.size \in Nat \ {0}
    BY DEF Typed
<1>2. \A e \in 0 .. d - 1 : e \in 0 .. l.size - 1
    BY <1>1
<1>3. \A e \in 0 .. d - 1 : Probe(l, idx, e) \in UsedSlots(l)
    BY <1>1, <1>2, ProbeInTable DEF Passes, UsedSlots, Slots
<1>4. \A e, g \in 0 .. d - 1 : Probe(l, idx, e) = Probe(l, idx, g) => e = g
    BY <1>1, <1>2, ProbeInjective
<1>5. f \in Injection(0 .. d - 1, UsedSlots(l))
    BY <1>3, <1>4 DEF Injection, IsInjective
<1> HIDE DEF f
<1>6. Cardinality(0 .. d - 1) =< Cardinality(UsedSlots(l))
    BY <1>5, SlotsFinite, FS_Injection
<1>7. Cardinality(0 .. d - 1) = d
    <2>1. 0 \in Int /\ d - 1 \in Int /\ (0 > d - 1 <=> d = 0) /\ (d - 1) - 0 + 1 = d
        BY <1>1
    <2>2. Cardinality(0 .. d - 1) = IF 0 > d - 1 THEN 0 ELSE (d - 1) - 0 + 1
        BY <2>1, FS_Interval, Zenon
    <2> QED
        BY <2>1, <2>2
<1> QED
    BY <1>6, <1>7

(* Where larray_set's probe stops: on the key, or on an unused slot, after *)
(* slots that belong to other keys.                                        *)
LEMMA FirstStop ==
    ASSUME NEW V, NEW l, Typed(l, V), NEW idx \in Nat,
           Stops(l, idx, SetReach(l)) # {}
    PROVE  LET d == Min(Stops(l, idx, SetReach(l)))
               s == l.arr[Probe(l, idx, d)]
           IN  /\ d \in 0 .. l.size - 1
               /\ Passes(l, idx, d)
               /\ ~ s.used \/ s.idx = idx
<1> DEFINE stops == Stops(l, idx, SetReach(l))
           d == Min(stops)
<1>1. l.size \in Nat \ {0} /\ ProbeLimit \in Nat
    BY LArrayAssumption DEF Typed
<1>2. stops \in SUBSET Nat
    BY <1>1 DEF Stops, SetReach
<1>3. d \in stops /\ \A y \in stops : d =< y
    BY <1>2, MinOfNaturals
<1>4. d \in 0 .. l.size - 1 /\ d =< ProbeLimit + 1
        /\ (~ l.arr[Probe(l, idx, d)].used \/ l.arr[Probe(l, idx, d)].idx = idx)
    BY <1>3 DEF Stops, SetReach
<1>5. Passes(l, idx, d)
    <2> SUFFICES ASSUME NEW e \in 0 .. d - 1
                 PROVE  l.arr[Probe(l, idx, e)].used /\ l.arr[Probe(l, idx, e)].idx # idx
        BY DEF Passes
    <2>1. e \in SetReach(l) /\ e < d
        BY <1>1, <1>4 DEF SetReach
    <2>2. e \notin stops
        BY <1>1, <1>3, <1>4, <2>1
    <2> QED
        BY <2>1, <2>2 DEF Stops
<1> QED
    BY <1>4, <1>5

\* larray_set may store idx and value d steps from the start of idx's probe.
Storable(l, V, idx, value, d) ==
    /\ Typed(l, V) /\ Sound(l) /\ ~ NearlyFull(l)
    /\ idx \in Nat /\ value \in V
    /\ d \in 0 .. l.size - 1 /\ Passes(l, idx, d)
    /\ ~ l.arr[Probe(l, idx, d)].used \/ l.arr[Probe(l, idx, d)].idx = idx

(* The table stays sound.                                                  *)
LEMMA StoreSound ==
    ASSUME NEW V, NEW l, NEW idx, NEW value, NEW d, Storable(l, V, idx, value, d),
           NEW n, n = Store(l, idx, value, d), NEW p, p = Probe(l, idx, d)
    PROVE  /\ Typed(n, V) /\ Sound(n)
           /\ n.size = l.size /\ n.len = l.len + 1
           /\ n.arr = [l.arr EXCEPT ![p] = [used |-> TRUE, idx |-> idx, value |-> value]]
           /\ p \in Slots(l)
           /\ UsedSlots(n) = UsedSlots(l) \cup {p}
           /\ \A i \in UsedSlots(l) : l.arr[i].idx = idx => i = p
<1> DEFINE new == [used |-> TRUE, idx |-> idx, value |-> value]
<1>  /\ Typed(l, V) /\ Sound(l) /\ ~ NearlyFull(l)
     /\ idx \in Nat /\ value \in V
     /\ d \in 0 .. l.size - 1 /\ Passes(l, idx, d)
     /\ ~ l.arr[p].used \/ l.arr[p].idx = idx
    BY DEF Storable
<1>1. l.size \in Nat \ {0} /\ l.len \in Nat /\ l.arr \in [Slots(l) -> [used : BOOLEAN, idx : Nat, value : V]]
    BY DEF Typed
<1>2. p \in Slots(l)
    BY <1>1, ProbeInTable DEF Slots
<1>3. n.size = l.size /\ n.len = l.len + 1 /\ n.arr = [l.arr EXCEPT ![p] = new]
    BY DEF Typed, Store
<1>4. Typed(n, V)
    <2>1. n \in [size : Nat \ {0}, len : Nat,
                  arr : [Slots(l) -> [used : BOOLEAN, idx : Nat, value : V]]]
        BY <1>1, <1>2 DEF Typed, Store
    <2>2. Slots(n) = Slots(l)
        BY <1>3 DEF Slots
    <2> HIDE DEF new
    <2> QED
        BY <2>1, <2>2 DEF Typed
<1>5. UsedSlots(n) = UsedSlots(l) \cup {p}
    BY <1>1, <1>2, <1>3 DEF UsedSlots, Slots
<1>6. \A k \in Nat, e \in Nat : Probe(n, k, e) = Probe(l, k, e)
    BY <1>3 DEF Probe
<1>7. \A i \in UsedSlots(l) : l.arr[i].idx = idx => i = p
    <2> SUFFICES ASSUME NEW i \in UsedSlots(l), l.arr[i].idx = idx PROVE i = p
        OBVIOUS
    <2>1. PICK e \in 0 .. l.size - 2 : Probe(l, idx, e) = i /\ Passes(l, idx, e)
        BY DEF Sound, PlacedAt
    <2>2. ~ e < d
        <3> SUFFICES ASSUME e \in 0 .. d - 1 PROVE FALSE
            BY <1>1
        <3> QED
            BY <2>1 DEF Passes
    <2>3. ~ d < e
        <3> SUFFICES ASSUME d \in 0 .. e - 1 PROVE FALSE
            BY <1>1
        <3> QED
            BY <2>1 DEF Passes
    <2> QED
        BY <1>1, <2>1, <2>2, <2>3
<1>8. Passes(n, idx, d) /\ d =< l.size - 2 /\ Probe(n, idx, d) = p
    <2>1. d =< l.size - 2
        BY <1>1, PassesUsed, SlotsFinite DEF NearlyFull, Sound
    <2>2. ASSUME NEW e \in 0 .. d - 1 PROVE n.arr[Probe(n, idx, e)] = l.arr[Probe(l, idx, e)]
        <3>1. e \in 0 .. l.size - 1 /\ e # d /\ e \in Nat
            BY <1>1
        <3>2. Probe(l, idx, e) # p /\ Probe(l, idx, e) \in Slots(l)
            BY <1>1, <3>1, ProbeInjective, ProbeInTable DEF Slots
        <3> QED
            BY <1>1, <1>3, <1>6, <3>1, <3>2
    <2> QED
        BY <1>6, <2>1, <2>2 DEF Passes
<1>9. ASSUME NEW i \in UsedSlots(n) PROVE PlacedAt(n, n.arr[i].idx, i)
    <2>1. CASE i = p
        <3>1. n.arr[i].idx = idx
            BY <1>1, <1>2, <1>3, <2>1
        <3>2. d \in 0 .. n.size - 2
            BY <1>1, <1>3, <1>8
        <3> QED
            BY <1>8, <2>1, <3>1, <3>2 DEF PlacedAt
    <2>2. CASE i # p
        <3>1. i \in UsedSlots(l) /\ n.arr[i] = l.arr[i] /\ i \in Slots(l)
            BY <1>1, <1>3, <1>5, <2>2 DEF UsedSlots
        <3> DEFINE k == l.arr[i].idx
        <3>2. k \in Nat /\ k # idx
            BY <1>1, <1>7, <2>2, <3>1
        <3>3. PICK e \in 0 .. l.size - 2 : Probe(l, k, e) = i /\ Passes(l, k, e)
            BY <3>1 DEF Sound, PlacedAt
        <3> HIDE DEF k
        <3>4. Passes(n, k, e)
            <4> SUFFICES ASSUME NEW g \in 0 .. e - 1
                         PROVE  n.arr[Probe(n, k, g)].used /\ n.arr[Probe(n, k, g)].idx # k
                BY DEF Passes
            <4>1. g \in 0 .. l.size - 1 /\ g \in Nat
                BY <1>1
            <4>2. Probe(l, k, g) \in Slots(l) /\ Probe(n, k, g) = Probe(l, k, g)
                BY <1>1, <1>6, <3>2, <4>1, ProbeInTable DEF Slots
            <4>3. l.arr[Probe(l, k, g)].used /\ l.arr[Probe(l, k, g)].idx # k
                BY <3>3 DEF Passes
            <4> QED
                BY <1>1, <1>3, <3>2, <4>2, <4>3
        <3> QED
            BY <1>3, <1>6, <3>1, <3>2, <3>3, <3>4 DEF PlacedAt, k
    <2> QED
        BY <2>1, <2>2
<1>10. Cardinality(UsedSlots(n)) =< n.len /\ n.len < n.size
    <2>1. IsFiniteSet(UsedSlots(l)) /\ Cardinality(UsedSlots(l)) \in Nat
        BY SlotsFinite
    <2>2. Cardinality(UsedSlots(n)) =< Cardinality(UsedSlots(l)) + 1
        <3>1. Cardinality(UsedSlots(l) \cup {p}) =
                 IF p \in UsedSlots(l) THEN Cardinality(UsedSlots(l))
                                        ELSE Cardinality(UsedSlots(l)) + 1
            BY <2>1, FS_AddElement, Zenon
        <3> QED
            BY <1>5, <2>1, <3>1
    <2>3. Cardinality(UsedSlots(n)) \in Nat
        BY <1>4, SlotsFinite
    <2> QED
        BY <1>1, <1>3, <2>1, <2>2, <2>3 DEF Sound, NearlyFull
<1> QED
    BY <1>2, <1>3, <1>4, <1>5, <1>7, <1>9, <1>10 DEF Sound

(* A store keeps tables typed and sound.                                   *)
LEMMA StoreKeeps ==
    ASSUME NEW V, NEW l, NEW idx, NEW value, NEW d, Storable(l, V, idx, value, d)
    PROVE  Typed(Store(l, idx, value, d), V) /\ Sound(Store(l, idx, value, d))
<1>1. ASSUME NEW n, n = Store(l, idx, value, d), NEW p, p = Probe(l, idx, d)
      PROVE  /\ Typed(n, V) /\ Sound(n)
             /\ n.arr = [l.arr EXCEPT ![p] = [used |-> TRUE, idx |-> idx, value |-> value]]
    BY <1>1, StoreSound
<1> QED
    BY <1>1

(* It then has the key with the new pointer, and its other keys as before. *)
LEMMA StoreContents ==
    ASSUME NEW V, NEW l, NEW idx, NEW value, NEW d, Storable(l, V, idx, value, d),
           NEW n, n = Store(l, idx, value, d)
    PROVE  Contents(n) = {c \in Contents(l) : c[1] # idx} \cup {<<idx, value>>}
<1> DEFINE p == Probe(l, idx, d)
<1>1. /\ n.arr = [l.arr EXCEPT ![p] = [used |-> TRUE, idx |-> idx, value |-> value]]
      /\ p \in Slots(l)
      /\ UsedSlots(n) = UsedSlots(l) \cup {p}
      /\ \A i \in UsedSlots(l) : l.arr[i].idx = idx => i = p
    BY StoreSound
<1>2. l.arr \in [Slots(l) -> [used : BOOLEAN, idx : Nat, value : V]]
    BY DEF Typed, Storable
<1>0. ~ l.arr[p].used \/ l.arr[p].idx = idx
    BY DEF Storable
<1> HIDE DEF p
<1>3. n.arr[p].idx = idx /\ n.arr[p].value = value
    BY <1>1, <1>2
<1>4. \A i \in UsedSlots(l) : i # p => n.arr[i] = l.arr[i] /\ l.arr[i].idx # idx
    BY <1>1, <1>2 DEF UsedSlots
<1>5. ASSUME NEW c \in Contents(n) PROVE c \in {b \in Contents(l) : b[1] # idx} \cup {<<idx, value>>}
    <2>1. PICK i \in UsedSlots(n) : c = <<n.arr[i].idx, n.arr[i].value>>
        BY DEF Contents
    <2>2. CASE i = p
        BY <1>3, <2>1, <2>2
    <2>3. CASE i # p
        BY <1>1, <1>4, <2>1, <2>3 DEF Contents
    <2> QED
        BY <2>2, <2>3
<1>6. ASSUME NEW c \in Contents(l), c[1] # idx PROVE c \in Contents(n)
    <2>1. PICK i \in UsedSlots(l) : c = <<l.arr[i].idx, l.arr[i].value>>
        BY DEF Contents
    <2>2. CASE i = p
        \* the slot of the key itself
        <3>1. l.arr[p].idx = idx
            BY <1>0, <2>2 DEF UsedSlots
        <3> QED
            BY <1>6, <2>1, <2>2, <3>1
    <2>3. CASE i # p
        BY <1>1, <1>4, <2>1, <2>3 DEF Contents
    <2> QED
        BY <2>2, <2>3
<1>7. <<idx, value>> \in Contents(n)
    BY <1>1, <1>3 DEF Contents
<1> QED
    BY <1>5, <1>6, <1>7

-----------------------------------------------------------------------------
(* larray_get reads a dictionary off the contents.                         *)
LEMMA GetFound ==
    ASSUME NEW V, NEW l, Typed(l, V), Sound(l), NEW idx \in Nat, NEW value,
           <<idx, value>> \in Contents(l)
    PROVE  larray_get(l, idx) = value
<1>1. PICK i \in UsedSlots(l) : idx = l.arr[i].idx /\ value = l.arr[i].value
    BY DEF Contents
<1>2. larray_geti(l, idx) = i
    BY <1>1, GetiDecides
<1>3. i # -1
    BY DEF UsedSlots, Slots, Typed
<1> QED
    BY <1>1, <1>2, <1>3 DEF larray_get

(* A key that is not stored is answered NULL.                              *)
LEMMA GetAbsent ==
    ASSUME NEW V, NEW l, Typed(l, V), Sound(l), NEW idx \in Nat,
           \A c \in Contents(l) : c[1] # idx
    PROVE  larray_get(l, idx) = NULL
<1>1. ASSUME NEW i \in UsedSlots(l) PROVE l.arr[i].idx # idx
    <2>1. <<l.arr[i].idx, l.arr[i].value>> \in Contents(l)
        BY DEF Contents
    <2> QED
        BY <2>1
<1> QED
    BY <1>1, GetiDecides DEF larray_get

(* Tables with the same contents are the same dictionary.                  *)
LEMMA GetContents ==
    ASSUME NEW V, NEW l, Typed(l, V), Sound(l), NEW n, Typed(n, V), Sound(n),
           Contents(l) = Contents(n), NEW idx \in Nat
    PROVE  larray_get(l, idx) = larray_get(n, idx)
<1>1. CASE \E c \in Contents(l) : c[1] = idx
    <2>1. PICK c \in Contents(l) : c[1] = idx
        BY <1>1
    <2>2. PICK i \in UsedSlots(l) : c = <<l.arr[i].idx, l.arr[i].value>>
        BY DEF Contents
    <2>3. <<idx, l.arr[i].value>> \in Contents(l)
        BY <2>1, <2>2
    <2> QED
        BY <2>3, GetFound
<1>2. CASE \A c \in Contents(l) : c[1] # idx
    BY <1>2, GetAbsent
<1> QED
    BY <1>1, <1>2

-----------------------------------------------------------------------------
(* The loop of larray_expand: f is the table and its slot i, up the copy.  *)

UsedBefore(f) == {i \in UsedSlots(f.table) : i < f.i}
Copied(f) == {<<f.table.arr[i].idx, f.table.arr[i].value>> : i \in UsedBefore(f)}

\* The copy has what the slots before i have, and room for the others.
Copies(f, up) ==
    /\ up.size >= 4 * f.table.size
    /\ up.len =< Cardinality(UsedBefore(f))
    /\ Contents(up) = Copied(f)

(* The slots that a copy has passed are finitely many, no more than are    *)
(* used.                                                                   *)
LEMMA BeforeFinite ==
    ASSUME NEW V, NEW f, Typed(f.table, V)
    PROVE  /\ IsFiniteSet(UsedBefore(f)) /\ Cardinality(UsedBefore(f)) \in Nat
           /\ Cardinality(UsedBefore(f)) =< Cardinality(UsedSlots(f.table))
<1>1. UsedBefore(f) \in SUBSET UsedSlots(f.table)
    BY DEF UsedBefore
<1> QED
    BY <1>1, SlotsFinite, FS_Subset, FS_CardinalityType

(* The loop begins with an empty table.                                    *)
LEMMA CopiesBegin ==
    ASSUME NEW V, NULL \in V, NEW f, Typed(f.table, V), f.i = 0
    PROVE  Copies(f, larray_initl(f.table.size * 4))
<1> DEFINE n == f.table.size * 4
<1>1. n \in Nat \ {0} /\ n >= 4 * f.table.size
    BY DEF Typed
<1>2. UsedBefore(f) = {}
    BY DEF UsedBefore, UsedSlots, Slots, Typed
<1> HIDE DEF n
<1>3. /\ larray_initl(n).size = n /\ larray_initl(n).len = 0
      /\ Contents(larray_initl(n)) = {}
    BY <1>1, InitlSound
<1> QED
    BY <1>1, <1>2, <1>3, FS_EmptySet DEF Copies, Copied, n

(* It passes an unused slot.                                               *)
LEMMA CopiesSkip ==
    ASSUME NEW V, NEW f, Typed(f.table, V), f.i \in Slots(f.table),
           ~ f.table.arr[f.i].used,
           NEW g, g.table = f.table, g.i = f.i + 1, NEW up, Copies(f, up)
    PROVE  Copies(g, up)
<1>1. UsedBefore(g) = UsedBefore(f)
    BY DEF UsedBefore, UsedSlots, Slots, Typed
<1> QED
    BY <1>1 DEF Copies, Copied

(* A used slot is stored in the copy, where its key is new.                *)
LEMMA CopiesStore ==
    ASSUME NEW V, NEW f, Typed(f.table, V), Sound(f.table), f.i \in Slots(f.table),
           f.table.arr[f.i].used, NEW up, Copies(f, up), NEW d,
           NEW idx, idx = f.table.arr[f.i].idx, NEW value, value = f.table.arr[f.i].value,
           Storable(up, V, idx, value, d),
           NEW g, g.table = f.table, g.i = f.i + 1
    PROVE  Copies(g, Store(up, idx, value, d))
<1> DEFINE n == Store(up, idx, value, d)
           l == f.table
<1>1. UsedBefore(g) = UsedBefore(f) \cup {f.i} /\ f.i \notin UsedBefore(f)
    BY DEF UsedBefore, UsedSlots, Slots, Typed
<1>2. n.size = up.size /\ n.len = up.len + 1
    BY DEF Store
<1>3. Cardinality(UsedBefore(g)) = Cardinality(UsedBefore(f)) + 1
    BY <1>1, BeforeFinite, FS_AddElement
<1>4. up.len \in Nat /\ l.size \in Nat
    BY DEF Typed, Storable
<1>5. \A i \in UsedBefore(f) : l.arr[i].idx # idx
    <2> SUFFICES ASSUME NEW i \in UsedBefore(f), l.arr[i].idx = idx PROVE FALSE
        OBVIOUS
    <2>1. i \in UsedSlots(l) /\ f.i \in UsedSlots(l) /\ i # f.i
        BY <1>1 DEF UsedBefore, UsedSlots
    <2>2. larray_geti(l, idx) = i /\ larray_geti(l, idx) = f.i
        BY <2>1, GetiDecides DEF Storable
    <2> QED
        BY <2>1, <2>2
<1>6. Contents(n) = {c \in Contents(up) : c[1] # idx} \cup {<<idx, value>>}
    BY StoreContents
<1>7. \A c \in Copied(f) : c[1] # idx
    BY <1>5 DEF Copied
<1>8. Contents(n) = Copied(f) \cup {<<idx, value>>}
    <2> HIDE DEF n
    <2> QED
        BY <1>6, <1>7 DEF Copies
<1>9. Copied(g) = Copied(f) \cup {<<idx, value>>}
    BY <1>1 DEF Copied
<1>10. Cardinality(UsedBefore(f)) \in Nat
    BY BeforeFinite
<1> HIDE DEF n
<1>11. n.size >= 4 * g.table.size
    BY <1>2 DEF Copies
<1>12. n.len =< Cardinality(UsedBefore(g))
    BY <1>2, <1>3, <1>4, <1>10 DEF Copies
<1>13. Copies(g, n)
    BY <1>8, <1>9, <1>11, <1>12 DEF Copies
<1> QED
    BY <1>13 DEF n

(* The end of an inner loop: the copy takes the place of what was copied,  *)
(* which may itself be a copy.                                             *)
LEMMA CopiesEnd ==
    ASSUME NEW V, NEW f, Typed(f.table, V), f.i = f.table.size, NEW up, Copies(f, up)
    PROVE  Contents(up) = Contents(f.table) /\ up.len =< Cardinality(UsedSlots(f.table))
<1>1. UsedBefore(f) = UsedSlots(f.table)
    BY DEF UsedBefore, UsedSlots, Slots, Typed
<1> QED
    BY <1>1 DEF Copies, Copied, Contents

(* A copy of a copy is a copy of the first table's passed slots.           *)
LEMMA CopiesNested ==
    ASSUME NEW V, NEW g, Typed(g.table, V), NEW f, Typed(f.table, V), Sound(f.table),
           f.i = f.table.size, Copies(g, f.table), NEW up, Typed(up, V), Copies(f, up)
    PROVE  Copies(g, up)
<1>1. Contents(up) = Contents(f.table) /\ up.len =< Cardinality(UsedSlots(f.table))
    BY CopiesEnd
<1>2. /\ g.table.size \in Nat /\ f.table.size \in Nat /\ up.size \in Nat
      /\ up.len \in Nat /\ f.table.len \in Nat
    BY DEF Typed
<1>3. Cardinality(UsedSlots(f.table)) \in Nat /\ Cardinality(UsedBefore(g)) \in Nat
    BY SlotsFinite, BeforeFinite
<1> QED
    BY <1>1, <1>2, <1>3 DEF Copies, Sound

(* A copy is never nearly full while there are slots to copy, nor when the *)
(* loop has ended.                                                         *)
LEMMA CopyHasRoom ==
    ASSUME NEW V, NEW f, Typed(f.table, V), Sound(f.table),
           NEW up, Typed(up, V), Copies(f, up)
    PROVE  ~ NearlyFull(up)
<1>1. f.table.size \in Nat \ {0} /\ f.table.len \in Nat /\ up.size \in Nat /\ up.len \in Nat
    BY DEF Typed
<1>2. Cardinality(UsedBefore(f)) =< Cardinality(UsedSlots(f.table))
          /\ Cardinality(UsedBefore(f)) \in Nat /\ Cardinality(UsedSlots(f.table)) \in Nat
    BY BeforeFinite, SlotsFinite
<1> QED
    BY <1>1, <1>2 DEF Copies, Sound, NearlyFull

-----------------------------------------------------------------------------
(* The state of a call of larray_set.                                      *)

Items(V) == [used : BOOLEAN, idx : Nat, value : V]

Frames(V) ==
    [table : {l \in [size : Nat \ {0}, len : Nat,
                     arr : UNION {[0 .. n - 1 -> Items(V)] : n \in Nat}] : Typed(l, V)},
     i : Nat]

\* The table that the loop of stack[j] fills.
Above(j) == IF j = Len(stack) THEN table ELSE stack[j + 1].table

\* The loop of f is at a slot that it copies.
AtUsedSlot(f) == f.i \in Slots(f.table) /\ f.table.arr[f.i].used

FrameInv(j) ==
    /\ Sound(stack[j].table)
    /\ stack[j].i \in 0 .. stack[j].table.size
    /\ Copies(stack[j], Above(j))
    /\ j # Len(stack) \/ at # "copy" => AtUsedSlot(stack[j])

\* Every table is sound, each loop has copied the slots before its i, and all
\* loops but the innermost are in the larray_set of a used slot.
SetInv(V) ==
    /\ Typed(table, V) /\ Sound(table)
    /\ stack \in Seq(Frames(V))
    /\ call.idx \in Nat /\ call.value \in V
    /\ at \in SetLines
    /\ \A j \in 1 .. Len(stack) : FrameInv(j)
    /\ at = "idle" => stack = <<>>
    /\ at = "copy" => stack # <<>>
    /\ at = "probe" => ~ NearlyFull(table)

(* A table and a loop index make a frame.                                  *)
LEMMA FrameTyped ==
    ASSUME NEW V, NEW l, Typed(l, V), NEW i \in Nat
    PROVE  [table |-> l, i |-> i] \in Frames(V)
<1>1. l \in [size : Nat \ {0}, len : Nat, arr : [0 .. l.size - 1 -> Items(V)]]
    BY DEF Typed, Slots, Items
<1>2. l.size \in Nat /\ l.arr \in UNION {[0 .. n - 1 -> Items(V)] : n \in Nat}
    BY <1>1
<1>3. l \in [size : Nat \ {0}, len : Nat,
             arr : UNION {[0 .. n - 1 -> Items(V)] : n \in Nat}]
    BY <1>1, <1>2
<1> QED
    BY <1>3 DEF Frames

(* The frames of the calls of larray_expand are typed.                     *)
LEMMA StackTyped ==
    ASSUME NEW V, SetInv(V)
    PROVE  /\ Len(stack) \in Nat
           /\ stack = <<>> <=> Len(stack) = 0
           /\ \A j \in 1 .. Len(stack) :
                 /\ stack[j] \in Frames(V) /\ Typed(stack[j].table, V)
                 /\ stack[j].i \in Nat
                 /\ stack[j] = [table |-> stack[j].table, i |-> stack[j].i]
<1>1. stack \in Seq(Frames(V))
    BY DEF SetInv
<1>2. Len(stack) \in Nat /\ (stack = <<>> <=> Len(stack) = 0)
    BY <1>1, LenProperties, EmptySeq
<1>3. ASSUME NEW j \in 1 .. Len(stack) PROVE stack[j] \in Frames(V)
    BY <1>1, ElementOfSeq
<1>4. ASSUME NEW f \in Frames(V)
      PROVE  Typed(f.table, V) /\ f.i \in Nat /\ f = [table |-> f.table, i |-> f.i]
    BY DEF Frames
<1> QED
    BY <1>2, <1>3, <1>4

(* The larray_set that runs has a key and a pointer, those of the slot     *)
(* that is copied if it was called by larray_expand.                       *)
LEMMA PendingTyped ==
    ASSUME NEW V, SetInv(V), at \in {"test", "probe"}
    PROVE  /\ Pending.idx \in Nat /\ Pending.value \in V
           /\ stack # <<>> =>
                 /\ Len(stack) \in 1 .. Len(stack)
                 /\ AtUsedSlot(Frame) /\ Copies(Frame, table) /\ Sound(Frame.table)
                 /\ Typed(Frame.table, V)
                 /\ Pending.idx = Frame.table.arr[Frame.i].idx
                 /\ Pending.value = Frame.table.arr[Frame.i].value
<1>1. CASE stack = <<>>
    BY <1>1 DEF SetInv, Pending
<1>2. CASE stack # <<>>
    <2>0. Len(stack) \in 1 .. Len(stack)
        BY <1>2, StackTyped
    <2>1. Len(stack) \in 1 .. Len(stack) /\ Typed(Frame.table, V)
        BY <2>0, StackTyped DEF Frame
    <2>2. FrameInv(Len(stack))
        BY <2>1 DEF SetInv
    <2>3. AtUsedSlot(Frame) /\ Copies(Frame, table) /\ Sound(Frame.table)
        BY <2>2 DEF FrameInv, Frame, Above
    <2>4. Frame.table.arr[Frame.i] \in [used : BOOLEAN, idx : Nat, value : V]
        BY <2>1, <2>3 DEF AtUsedSlot, Typed
    <2>5. /\ Pending.idx = Frame.table.arr[Frame.i].idx
          /\ Pending.value = Frame.table.arr[Frame.i].value
        BY <1>2 DEF Pending, Slot
    <2> QED
        BY <1>2, <2>1, <2>3, <2>4, <2>5
<1> QED
    BY <1>1, <1>2

(* What the probe of the running larray_set may do to its table.           *)
LEMMA PendingStorable ==
    ASSUME NEW V, SetInv(V), at = "probe", PendingStops # {}
    PROVE  Storable(table, V, Pending.idx, Pending.value, Min(PendingStops))
<1>1. Typed(table, V) /\ Sound(table) /\ ~ NearlyFull(table)
    BY DEF SetInv
<1>2. Pending.idx \in Nat /\ Pending.value \in V
    BY PendingTyped
<1> QED
    BY <1>1, <1>2, FirstStop DEF Storable, PendingStops

-----------------------------------------------------------------------------
(* The invariant holds at first and after every step.                      *)

(* The invariant holds before the first call.                              *)
LEMMA SetInvInit ==
    ASSUME NEW V, NULL \in V, SetInit
    PROVE  SetInv(V)
<1>1. Typed(table, V) /\ Sound(table)
    BY InitlSound, LArrayAssumption DEF SetInit, larray_init
<1>2. stack \in Seq(Frames(V)) /\ Len(stack) = 0
    BY EmptySeq DEF SetInit
<1> QED
    BY <1>1, <1>2 DEF SetInit, SetInv, NoCall, SetLines

(* A call of larray_set keeps the invariant.                               *)
LEMMA SetInvCall ==
    ASSUME NEW V, SetInv(V), NEW k \in Nat, NEW v \in V, SetCall(k, v)
    PROVE  SetInv(V)'
<1>1. Len(stack') = 0 /\ stack' = <<>>
    BY StackTyped DEF SetInv, SetCall
<1> QED
    BY <1>1 DEF SetInv, SetCall, SetLines

(* A call of larray_expand keeps the invariant: its copy is empty.         *)
LEMMA SetInvExpand ==
    ASSUME NEW V, NULL \in V, SetInv(V), at \in {"test", "probe"}, larray_expand
    PROVE  SetInv(V)'
<1> DEFINE n == Len(stack)
           f == [table |-> table, i |-> 0]
           up == larray_initl(table.size * 4)
<1>1. Typed(table, V) /\ Sound(table) /\ table.size * 4 \in Nat \ {0}
    BY DEF SetInv, Typed
<1>2. table' = up /\ stack' = Append(stack, f) /\ at' = "copy" /\ call' = call
    BY DEF larray_expand
<1>3. f \in Frames(V)
    BY <1>1, FrameTyped
<1>4. Typed(up, V) /\ Sound(up)
    BY <1>1, InitlSound
<1>5. n \in Nat /\ stack \in Seq(Frames(V))
    BY StackTyped DEF SetInv
<1>6. f.table = table /\ f.i = 0
    OBVIOUS
<1>7. Copies(f, up)
    BY <1>1, <1>6, CopiesBegin
<1> HIDE DEF up, f
<1>8. /\ stack' \in Seq(Frames(V)) /\ Len(stack') = n + 1 /\ stack' # <<>>
      /\ \A j \in 1 .. n : stack'[j] = stack[j]
      /\ stack'[n + 1] = f
    BY <1>2, <1>3, <1>5, AppendProperties
<1>9. ASSUME NEW j \in 1 .. n + 1 PROVE FrameInv(j)'
    <2>1. CASE j = n + 1
        <3>1. stack'[j] = f /\ Above(j)' = up
            BY <1>2, <1>8, <2>1 DEF Above
        <3>2. f.i \in 0 .. f.table.size
            BY <1>1, <1>6 DEF Typed
        <3> QED
            BY <1>1, <1>2, <1>6, <1>7, <1>8, <2>1, <3>1, <3>2 DEF FrameInv
    <2>2. CASE j # n + 1
        <3>1. j \in 1 .. n /\ stack'[j] = stack[j]
            BY <1>5, <1>8, <2>2
        <3>2. Above(j)' = Above(j)
            <4>1. CASE j = n
                BY <1>5, <1>6, <1>8, <4>1 DEF Above
            <4>2. CASE j # n
                <5>1. j + 1 \in 1 .. n
                    BY <1>5, <3>1, <4>2
                <5> QED
                    BY <1>5, <1>8, <2>2, <4>2, <5>1 DEF Above
            <4> QED
                BY <4>1, <4>2
        <3>3. FrameInv(j) /\ AtUsedSlot(stack[j])
            BY <3>1 DEF SetInv, FrameInv
        <3> QED
            BY <3>1, <3>2, <3>3 DEF FrameInv
    <2> QED
        BY <2>1, <2>2
<1> QED
    BY <1>2, <1>4, <1>8, <1>9 DEF SetInv, SetLines

(* The loop of larray_expand goes to the next slot: f is what it leaves.   *)
LEMMA NextSlotStack ==
    ASSUME NEW V, SetInv(V), stack # <<>>, NextSlot
    PROVE  LET n == Len(stack)
               f == [table |-> Frame.table, i |-> Frame.i + 1]
           IN  /\ n \in Nat \ {0}
               /\ stack' \in Seq(Frames(V)) /\ Len(stack') = n /\ stack' # <<>>
               /\ stack'[n] = f
               /\ \A j \in 1 .. n : j # n => stack'[j] = stack[j]
<1> DEFINE n == Len(stack)
           f == [table |-> Frame.table, i |-> Frame.i + 1]
<1>1. n \in Nat \ {0} /\ stack \in Seq(Frames(V))
    BY StackTyped DEF SetInv
<1>0. n \in 1 .. n
    BY <1>1
<1>2. Typed(Frame.table, V) /\ Frame.i \in Nat /\ Frame = [table |-> Frame.table, i |-> Frame.i]
    BY <1>0, StackTyped DEF Frame
<1>3. f \in Frames(V)
    BY <1>2, FrameTyped
<1>4. [stack EXCEPT ![n].i = @ + 1] = [stack EXCEPT ![n] = f]
    <2>1. [stack[n] EXCEPT !.i = @ + 1] = f
        BY <1>2 DEF Frame
    <2> QED
        BY <2>1
<1> HIDE DEF f
<1>5. stack' = [stack EXCEPT ![n] = f]
    BY <1>4 DEF NextSlot
<1>6. /\ stack' \in Seq(Frames(V)) /\ Len(stack') = n
      /\ \A j \in 1 .. n : stack'[j] = IF j = n THEN f ELSE stack[j]
    BY <1>0, <1>1, <1>3, <1>5, ExceptSeq
<1>7. stack' # <<>>
    BY <1>1, <1>6, EmptySeq
<1> QED
    BY <1>0, <1>1, <1>6, <1>7 DEF f

(* The loop goes on, and its new table is what it should be at the next    *)
(* slot.                                                                   *)
LEMMA SetInvNextSlot ==
    ASSUME NEW V, SetInv(V), stack # <<>>, NextSlot,
           Frame.i \in Slots(Frame.table), at' = "copy", call' = call,
           Typed(table', V), Sound(table'), 
           Copies([table |-> Frame.table, i |-> Frame.i + 1], table')
    PROVE  SetInv(V)'
<1> DEFINE n == Len(stack)
           f == [table |-> Frame.table, i |-> Frame.i + 1]
<1>1. /\ n \in Nat \ {0}
      /\ stack' \in Seq(Frames(V)) /\ Len(stack') = n /\ stack' # <<>>
      /\ stack'[n] = f
      /\ \A j \in 1 .. n : j # n => stack'[j] = stack[j]
    BY NextSlotStack
<1>2. n \in 1 .. n
    BY <1>1
<1>3. FrameInv(n) /\ Typed(Frame.table, V)
    BY <1>2, StackTyped DEF SetInv, Frame
<1>4. f.table = Frame.table /\ f.i = Frame.i + 1
    OBVIOUS
<1>5. Copies(f, table')
    OBVIOUS
<1> HIDE DEF f
<1>6. FrameInv(n)'
    <2>1. f.i \in 0 .. f.table.size
        BY <1>3, <1>4 DEF Slots, Typed
    <2>2. Sound(f.table)
        BY <1>3, <1>4 DEF FrameInv, Frame
    <2> QED
        BY <1>1, <1>5, <2>1, <2>2 DEF FrameInv, Above
<1>7. ASSUME NEW j \in 1 .. n, j # n PROVE FrameInv(j)'
    <2>1. stack'[j] = stack[j] /\ j + 1 \in 1 .. n
        BY <1>1, <1>7
    <2>2. stack'[j + 1].table = stack[j + 1].table
        <3>1. CASE j + 1 = n
            BY <1>1, <1>4, <3>1 DEF Frame
        <3>2. CASE j + 1 # n
            BY <1>1, <2>1, <3>2
        <3> QED
            BY <3>1, <3>2
    <2>3. Above(j)' = Above(j)
        BY <1>1, <1>7, <2>2 DEF Above
    <2>4. FrameInv(j) /\ AtUsedSlot(stack[j])
        BY <1>7 DEF SetInv, FrameInv
    <2> QED
        BY <1>1, <1>7, <2>1, <2>3, <2>4 DEF FrameInv
<1> QED
    BY <1>1, <1>6, <1>7 DEF SetInv, SetLines

(* The end of a larray_set, outermost or in a copy, keeps the invariant.   *)
LEMMA SetInvStore ==
    ASSUME NEW V, SetInv(V), SetStore
    PROVE  SetInv(V)'
<1> DEFINE idx == Pending.idx
           value == Pending.value
           d == Min(PendingStops)
<1>1. at = "probe" /\ PendingStops # {} /\ table' = Store(table, idx, value, d) /\ call' = call
    BY DEF SetStore
<1>2. Storable(table, V, idx, value, d)
    BY <1>1, PendingStorable
<1>0. /\ idx \in Nat /\ value \in V
      /\ stack # <<>> =>
            /\ AtUsedSlot(Frame) /\ Copies(Frame, table) /\ Sound(Frame.table)
            /\ Typed(Frame.table, V)
            /\ idx = Frame.table.arr[Frame.i].idx
            /\ value = Frame.table.arr[Frame.i].value
    BY <1>1, PendingTyped
<1> HIDE DEF idx, value, d
<1>3. Typed(table', V) /\ Sound(table')
    BY <1>1, <1>2, StoreKeeps
<1>4. CASE stack = <<>>
    <2>1. stack' = <<>> /\ at' = "idle" /\ Len(stack') = 0
        BY <1>4, StackTyped DEF SetStore
    <2> QED
        BY <1>1, <1>3, <2>1 DEF SetInv, SetLines
<1>5. CASE stack # <<>>
    <2>1. NextSlot /\ at' = "copy"
        BY <1>5 DEF SetStore
    <2> DEFINE g == [table |-> Frame.table, i |-> Frame.i + 1]
    <2>2. g.table = Frame.table /\ g.i = Frame.i + 1
        OBVIOUS
    <2> HIDE DEF g
    <2>3. Copies(g, table')
        BY <1>0, <1>1, <1>2, <1>5, <2>2, CopiesStore DEF AtUsedSlot
    <2> QED
        BY <1>0, <1>1, <1>3, <1>5, <2>1, <2>3, SetInvNextSlot DEF AtUsedSlot, g
<1> QED
    BY <1>4, <1>5

(* Where the loop of larray_expand is.                                     *)
LEMMA LoopTyped ==
    ASSUME NEW V, SetInv(V), at = "copy"
    PROVE  /\ stack # <<>> /\ Len(stack) \in Nat \ {0} /\ Len(stack) \in 1 .. Len(stack)
           /\ Typed(Frame.table, V) /\ Sound(Frame.table)
           /\ Frame.i \in 0 .. Frame.table.size
           /\ Copies(Frame, table)
<1>1. stack # <<>> /\ Len(stack) \in Nat \ {0} /\ Len(stack) \in 1 .. Len(stack)
    BY StackTyped DEF SetInv
<1>2. FrameInv(Len(stack)) /\ Typed(Frame.table, V)
    BY <1>1, StackTyped DEF SetInv, Frame
<1> QED
    BY <1>1, <1>2 DEF FrameInv, Frame, Above

(* A round of larray_expand's loop keeps the invariant.                    *)
LEMMA SetInvCopySlot ==
    ASSUME NEW V, SetInv(V), CopySlot
    PROVE  SetInv(V)'
<1>0. at = "copy" /\ table' = table /\ call' = call
    BY DEF CopySlot
<1>1. /\ stack # <<>> /\ Len(stack) \in Nat \ {0} /\ Len(stack) \in 1 .. Len(stack)
      /\ Typed(Frame.table, V) /\ Sound(Frame.table)
      /\ Frame.i \in 0 .. Frame.table.size
      /\ Copies(Frame, table)
    BY <1>0, LoopTyped
<1>2. Frame.i \in Slots(Frame.table)
    BY <1>1 DEF CopySlot, Slots, Typed
<1>3. Typed(table, V) /\ Sound(table)
    BY DEF SetInv
<1>4. CASE Slot.used
    <2>1. at' = "test" /\ stack' = stack
        BY <1>4 DEF CopySlot
    <2>2. ASSUME NEW j \in 1 .. Len(stack) PROVE FrameInv(j)'
        <3>1. FrameInv(j)
            BY DEF SetInv
        <3>2. AtUsedSlot(stack[j])
            <4>1. CASE j = Len(stack)
                BY <1>2, <1>4, <4>1 DEF AtUsedSlot, Slot, Frame
            <4>2. CASE j # Len(stack)
                BY <3>1, <4>2 DEF FrameInv
            <4> QED
                BY <4>1, <4>2
        <3> QED
            BY <1>0, <2>1, <3>1, <3>2 DEF FrameInv, Above
    <2> QED
        BY <1>0, <2>1, <2>2 DEF SetInv, SetLines
<1>5. CASE ~ Slot.used
    <2>1. at' = "copy" /\ NextSlot
        BY <1>0, <1>5 DEF CopySlot
    <2> DEFINE g == [table |-> Frame.table, i |-> Frame.i + 1]
    <2>2. g.table = Frame.table /\ g.i = Frame.i + 1
        OBVIOUS
    <2> HIDE DEF g
    <2>3. Copies(g, table')
        BY <1>0, <1>1, <1>2, <1>5, <2>2, CopiesSkip DEF Slot
    <2> QED
        BY <1>0, <1>1, <1>2, <1>3, <2>1, <2>3, SetInvNextSlot DEF g
<1> QED
    BY <1>4, <1>5

(* What a finished copy leaves of the stack.                               *)
LEMMA PopStack ==
    ASSUME NEW V, SetInv(V), CopyDone
    PROVE  /\ Len(stack) \in Nat \ {0}
           /\ stack' \in Seq(Frames(V)) /\ Len(stack') = Len(stack) - 1
           /\ stack' = <<>> <=> Len(stack) = 1
           /\ \A j \in 1 .. Len(stack) - 1 : j \in 1 .. Len(stack) /\ stack'[j] = stack[j]
<1> DEFINE n == Len(stack)
<1>1. n \in Nat \ {0} /\ stack' = SubSeq(stack, 1, n - 1)
    BY LoopTyped DEF CopyDone
<1>2. \A j \in 1 .. n : stack[j] \in Frames(V)
    BY StackTyped
<1> HIDE DEF n
<1>3. 1 \in Int /\ n - 1 \in Int /\ \A j \in 1 .. n - 1 : j \in 1 .. n
    BY <1>1
<1>4. /\ stack' \in Seq(Frames(V))
      /\ Len(stack') = IF 1 =< n - 1 THEN n - 1 - 1 + 1 ELSE 0
      /\ \A j \in 1 .. n - 1 - 1 + 1 : stack'[j] = stack[1 + j - 1]
    BY <1>1, <1>2, <1>3, SubSeqProperties
<1>5. Len(stack') = n - 1
    BY <1>1, <1>4
<1>6. \A j \in 1 .. n - 1 : stack'[j] = stack[j]
    BY <1>1, <1>4
<1>7. stack' = <<>> <=> n = 1
    <2>1. stack' = <<>> <=> Len(stack') = 0
        BY <1>4, EmptySeq
    <2> QED
        BY <1>1, <1>5, <2>1
<1> QED
    BY <1>1, <1>3, <1>4, <1>5, <1>6, <1>7 DEF n

(* The end of larray_expand keeps the invariant: the copy stands for the   *)
(* table it replaces.                                                      *)
LEMMA SetInvCopyDone ==
    ASSUME NEW V, SetInv(V), CopyDone
    PROVE  SetInv(V)'
<1> DEFINE n == Len(stack)
<1>0. at = "copy" /\ at' = "probe" /\ table' = table /\ call' = call
        /\ Frame.i = Frame.table.size /\ stack' = SubSeq(stack, 1, n - 1)
    BY DEF CopyDone
<1>1. /\ n \in Nat \ {0} /\ n \in 1 .. n
      /\ Typed(Frame.table, V) /\ Sound(Frame.table)
      /\ Copies(Frame, table)
    BY <1>0, LoopTyped
<1>2. Typed(table, V) /\ Sound(table)
    BY DEF SetInv
<1>3. ~ NearlyFull(table)
    BY <1>1, <1>2, CopyHasRoom
<1>4. /\ stack' \in Seq(Frames(V)) /\ Len(stack') = n - 1
      /\ \A j \in 1 .. n - 1 : stack'[j] = stack[j]
    BY PopStack
<1>5. ASSUME NEW j \in 1 .. n - 1 PROVE FrameInv(j)'
    <2>1. stack'[j] = stack[j] /\ j \in 1 .. n /\ j # n
        BY <1>1, <1>4
    <2>2. FrameInv(j) /\ AtUsedSlot(stack[j]) /\ Typed(stack[j].table, V)
        BY <2>1, StackTyped DEF SetInv, FrameInv
    <2>3. Copies(stack[j], Above(j)')
        <3>1. CASE j = n - 1
            <4>0. j + 1 = n /\ j = Len(stack') /\ j # Len(stack)
                BY <1>1, <1>4, <2>1, <3>1
            <4>1. Above(j) = Frame.table /\ Above(j)' = table
                BY <1>0, <4>0 DEF Above, Frame
            <4>2. Copies(stack[j], Frame.table)
                BY <2>2, <4>1 DEF FrameInv
            <4> QED
                BY <1>0, <1>1, <1>2, <2>2, <4>1, <4>2, CopiesNested
        <3>2. CASE j # n - 1
            <4>1. j + 1 \in 1 .. n - 1
                BY <1>1, <3>2
            <4>2. Above(j)' = Above(j)
                BY <1>1, <1>4, <2>1, <3>2, <4>1 DEF Above
            <4> QED
                BY <2>2, <4>2 DEF FrameInv
        <3> QED
            BY <3>1, <3>2
    <2> QED
        BY <2>1, <2>2, <2>3 DEF FrameInv
<1> QED
    BY <1>0, <1>2, <1>3, <1>4, <1>5 DEF SetInv, SetLines

(* Every step inside larray_set keeps the invariant.                       *)
LEMMA SetInvStep ==
    ASSUME NEW V, NULL \in V, SetInv(V), SetStep
    PROVE  SetInv(V)'
<1>1. CASE SetTest
    <2>1. CASE NearlyFull(table)
        BY <1>1, <2>1, SetInvExpand DEF SetTest
    <2>2. CASE ~ NearlyFull(table)
        <3>1. at = "test" /\ at' = "probe" /\ table' = table /\ stack' = stack /\ call' = call
            BY <1>1, <2>2 DEF SetTest
        <3>2. \A j \in 1 .. Len(stack) : FrameInv(j)'
            BY <3>1 DEF SetInv, FrameInv, Above
        <3> QED
            BY <2>2, <3>1, <3>2 DEF SetInv, SetLines
    <2> QED
        BY <2>1, <2>2
<1>2. CASE SetGivesUp
    BY <1>2, SetInvExpand DEF SetGivesUp
<1> QED
    BY <1>1, <1>2, SetInvStore, SetInvCopySlot, SetInvCopyDone DEF SetStep

(* So does a step that leaves the tables alone.                            *)
LEMMA SetInvStutter ==
    ASSUME NEW V, SetInv(V), UNCHANGED setVars
    PROVE  SetInv(V)'
<1>1. \A j \in 1 .. Len(stack) : FrameInv(j)'
    BY DEF SetInv, FrameInv, Above, setVars
<1> QED
    BY <1>1 DEF SetInv, setVars

-----------------------------------------------------------------------------
(* What the steps do to the table that the caller sees.                    *)

(* The caller's table is typed and sound.                                  *)
LEMMA OuterTyped ==
    ASSUME NEW V, SetInv(V)
    PROVE  Typed(Outer, V) /\ Sound(Outer)
<1>1. CASE stack = <<>>
    BY <1>1 DEF SetInv, Outer
<1>2. CASE stack # <<>>
    <2>1. 1 \in 1 .. Len(stack)
        BY <1>2, StackTyped
    <2>2. Typed(stack[1].table, V) /\ FrameInv(1)
        BY <2>1, StackTyped DEF SetInv
    <2> QED
        BY <1>2, <2>2 DEF Outer, FrameInv
<1> QED
    BY <1>1, <1>2

(* A new loop does not change it, nor does a step of one.                  *)
LEMMA OuterExpand ==
    ASSUME NEW V, SetInv(V), larray_expand
    PROVE  Outer' = Outer
<1> DEFINE f == [table |-> table, i |-> 0]
<1>1. f \in Frames(V) /\ f.table = table
    BY FrameTyped DEF SetInv
<1>2. Len(stack) \in Nat /\ (stack = <<>> <=> Len(stack) = 0) /\ stack \in Seq(Frames(V))
    BY StackTyped DEF SetInv
<1> HIDE DEF f
<1>3. /\ stack' # <<>>
      /\ \A j \in 1 .. Len(stack) : stack'[j] = stack[j]
      /\ stack'[Len(stack) + 1] = f
    BY <1>1, <1>2, AppendProperties DEF larray_expand, f
<1>4. CASE stack = <<>>
    BY <1>1, <1>2, <1>3, <1>4 DEF Outer
<1>5. CASE stack # <<>>
    <2>1. 1 \in 1 .. Len(stack)
        BY <1>2, <1>5
    <2> QED
        BY <1>3, <1>5, <2>1 DEF Outer
<1> QED
    BY <1>4, <1>5

(* Going on to the next slot leaves the caller's table alone.              *)
LEMMA OuterNextSlot ==
    ASSUME NEW V, SetInv(V), stack # <<>>, NextSlot
    PROVE  Outer' = Outer
<1> DEFINE n == Len(stack)
           f == [table |-> Frame.table, i |-> Frame.i + 1]
<1>1. /\ n \in Nat \ {0} /\ stack' # <<>>
      /\ stack'[n] = f
      /\ \A j \in 1 .. n : j # n => stack'[j] = stack[j]
    BY NextSlotStack
<1>2. stack'[1].table = stack[1].table
    <2>1. CASE n = 1
        <3>1. stack'[1].table = Frame.table
            BY <1>1, <2>1
        <3> QED
            BY <2>1, <3>1 DEF Frame
    <2>2. CASE n # 1
        <3>1. 1 \in 1 .. n
            BY <1>1
        <3> QED
            BY <1>1, <2>2, <3>1
    <2> QED
        BY <2>1, <2>2
<1> QED
    BY <1>1, <1>2 DEF Outer

(* The end of the outermost loop replaces it by one of the same contents   *)
(* that is larger.                                                         *)
LEMMA OuterCopyDone ==
    ASSUME NEW V, SetInv(V), CopyDone
    PROVE  Contents(Outer') = Contents(Outer) /\ Outer'.size >= Outer.size
<1> DEFINE n == Len(stack)
<1>0. at = "copy" /\ table' = table
        /\ Frame.i = Frame.table.size /\ stack' = SubSeq(stack, 1, n - 1)
    BY DEF CopyDone
<1>1. /\ n \in Nat \ {0} /\ stack # <<>>
      /\ Typed(Frame.table, V) /\ Sound(Frame.table)
      /\ Copies(Frame, table)
    BY <1>0, LoopTyped
<1>2. CASE n = 1
    <2>1. stack' = <<>>
        BY <1>2, PopStack
    <2>2. Outer' = table /\ Outer = Frame.table
        BY <1>0, <1>1, <1>2, <2>1 DEF Outer, Frame
    <2>3. Contents(table) = Contents(Frame.table)
        BY <1>0, <1>1, CopiesEnd
    <2>4. table.size >= Frame.table.size
        BY <1>1 DEF Copies, Typed, SetInv
    <2> QED
        BY <2>2, <2>3, <2>4
<1>3. CASE n # 1
    <2>1. 1 \in 1 .. n - 1
        BY <1>3, PopStack
    <2>3. stack' # <<>> /\ stack'[1] = stack[1]
        BY <1>3, <2>1, PopStack
    <2>4. Outer' = Outer /\ Outer.size \in Nat
        BY <1>1, <2>3, OuterTyped DEF Outer, Typed
    <2> QED
        BY <2>4
<1> QED
    BY <1>2, <1>3

(* The caller's table changes when its larray_set ends, by the one key;    *)
(* its other slots stay unless the table has been replaced.                *)
LEMMA OuterStore ==
    ASSUME NEW V, SetInv(V), SetStore, stack = <<>>
    PROVE  /\ stack' = <<>> /\ at' = "idle"
           /\ Contents(Outer') =
                 {c \in Contents(Outer) : c[1] # call.idx} \cup {<<call.idx, call.value>>}
           /\ Outer'.size = Outer.size
           /\ \A i \in UsedSlots(Outer) : Outer.arr[i].idx # call.idx =>
                 i \in UsedSlots(Outer') /\ Outer'.arr[i] = Outer.arr[i]
<1> DEFINE d == Min(PendingStops)
           p == Probe(table, call.idx, d)
<1>1. at = "probe" /\ PendingStops # {} /\ stack' = <<>> /\ at' = "idle"
        /\ table' = Store(table, call.idx, call.value, d)
    BY DEF SetStore, Pending
<1>2. Storable(table, V, call.idx, call.value, d)
    BY <1>1, PendingStorable DEF Pending
<1> HIDE DEF d
<1>3. Outer = table /\ Outer' = table'
    BY <1>1 DEF Outer
<1>4. Contents(table') = {c \in Contents(table) : c[1] # call.idx} \cup {<<call.idx, call.value>>}
    BY <1>1, <1>2, StoreContents
<1>5. /\ table'.size = table.size
      /\ table'.arr = [table.arr EXCEPT ![p] = [used |-> TRUE, idx |-> call.idx, value |-> call.value]]
      /\ UsedSlots(table') = UsedSlots(table) \cup {p}
    BY <1>1, <1>2, StoreSound
<1>6. ASSUME NEW i \in UsedSlots(table), table.arr[i].idx # call.idx
      PROVE  i \in UsedSlots(table') /\ table'.arr[i] = table.arr[i]
    <2>1. i # p
        BY <1>2, <1>6 DEF Storable, UsedSlots
    <2>2. table.arr \in [Slots(table) -> [used : BOOLEAN, idx : Nat, value : V]]
        BY DEF SetInv, Typed
    <2> HIDE DEF p
    <2> QED
        BY <1>5, <2>1, <2>2 DEF UsedSlots
<1> QED
    BY <1>1, <1>3, <1>4, <1>5, <1>6

(* What a step inside larray_set does to the caller's table: only the last *)
(* store changes its contents.                                             *)
LEMMA OuterStep ==
    ASSUME NEW V, SetInv(V), SetStep
    PROVE  /\ call' = call /\ at # "idle" /\ Outer'.size >= Outer.size
           /\ at' = "idle" => stack = <<>> /\ SetStore
           /\ ~ (stack = <<>> /\ SetStore) => Contents(Outer') = Contents(Outer)
           /\ ~ (stack = <<>> /\ SetStore) /\ stack' = <<>> /\ stack = <<>> => Outer' = Outer
<1>0. Outer.size \in Nat
    BY OuterTyped DEF Typed
<1>1. CASE SetTest \/ SetGivesUp
    <2>1. call' = call /\ at # "idle" /\ at' # "idle" /\ Outer' = Outer
        BY <1>1, OuterExpand DEF SetTest, SetGivesUp, larray_expand, Outer
    <2> QED
        BY <1>0, <2>1
<1>2. CASE SetStore
    <2>1. call' = call /\ at # "idle" /\ (at' = "idle" => stack = <<>>)
        BY <1>2 DEF SetStore
    <2>2. CASE stack = <<>>
        BY <1>0, <1>2, <2>1, <2>2, OuterStore
    <2>3. CASE stack # <<>>
        <3>1. Outer' = Outer
            BY <1>2, <2>3, OuterNextSlot DEF SetStore
        <3> QED
            BY <1>0, <1>2, <2>1, <2>3, <3>1
    <2> QED
        BY <2>2, <2>3
<1>3. CASE CopySlot
    <2>1. at = "copy" /\ at' # "idle" /\ call' = call /\ table' = table
        BY <1>3 DEF CopySlot
    <2>2. Outer' = Outer
        <3>1. stack # <<>>
            BY <2>1 DEF SetInv
        <3> QED
            BY <1>3, <2>1, <3>1, OuterNextSlot DEF CopySlot, Outer
    <2> QED
        BY <1>0, <2>1, <2>2
<1>4. CASE CopyDone
    <2>1. at = "copy" /\ at' # "idle" /\ call' = call /\ stack # <<>>
        BY <1>4 DEF CopyDone, SetInv
    <2> QED
        BY <1>4, <2>1, OuterCopyDone
<1> QED
    BY <1>1, <1>2, <1>3, <1>4 DEF SetStep

-----------------------------------------------------------------------------
\* All slots of all tables are of S.
SlotsIn(l, S) == \A i \in Slots(l) : l.arr[i] \in S
AllSlotsIn(S) ==
    /\ SlotsIn(table, S)
    /\ \A j \in 1 .. Len(stack) : SlotsIn(stack[j].table, S)

(* A store adds no slot outside S but its own.                             *)
LEMMA SlotsStored ==
    ASSUME NEW V, NEW l, NEW idx, NEW value, NEW d, Storable(l, V, idx, value, d),
           NEW S, SlotsIn(l, S), [used |-> TRUE, idx |-> idx, value |-> value] \in S
    PROVE  SlotsIn(Store(l, idx, value, d), S)
<1> DEFINE item == [used |-> TRUE, idx |-> idx, value |-> value]
<1>1. ASSUME NEW n, n = Store(l, idx, value, d), NEW p, p = Probe(l, idx, d)
      PROVE  n.size = l.size /\ n.arr = [l.arr EXCEPT ![p] = item]
    BY <1>1, StoreSound
<1>2. l.arr \in [Slots(l) -> [used : BOOLEAN, idx : Nat, value : V]]
    BY DEF Storable, Typed
<1> HIDE DEF item
<1>3. ASSUME NEW n, n = Store(l, idx, value, d), NEW i \in Slots(n) PROVE n.arr[i] \in S
    <2> DEFINE p == Probe(l, idx, d)
    <2>1. n.size = l.size /\ n.arr = [l.arr EXCEPT ![p] = item]
        BY <1>1, <1>3
    <2>2. i \in Slots(l)
        BY <2>1 DEF Slots
    <2> HIDE DEF p
    <2>3. n.arr[i] = IF i = p THEN item ELSE l.arr[i]
        BY <1>2, <2>1, <2>2
    <2> QED
        BY <2>2, <2>3 DEF SlotsIn, item
<1> QED
    BY <1>3 DEF SlotsIn

(* Keys and pointers are only moved: the slots hold what the calls of      *)
(* larray_set have brought.                                                *)
LEMMA SlotsStep ==
    ASSUME NEW V, NULL \in V, SetInv(V), SetStep, NEW S, AllSlotsIn(S), Unused \in S,
           [used |-> TRUE, idx |-> call.idx, value |-> call.value] \in S
    PROVE  AllSlotsIn(S)'
<1> DEFINE n == Len(stack)
<1>0. n \in Nat /\ stack \in Seq(Frames(V)) /\ (stack = <<>> <=> n = 0)
    BY StackTyped DEF SetInv
<1>1. CASE larray_expand
    <2> DEFINE f == [table |-> table, i |-> 0]
    <2>1. f \in Frames(V) /\ f.table = table
        BY FrameTyped DEF SetInv
    <2>2. table' = larray_initl(table.size * 4) /\ stack' = Append(stack, f)
        BY <1>1 DEF larray_expand
    <2> HIDE DEF f
    <2>3. /\ Len(stack') = n + 1
          /\ \A j \in 1 .. n : stack'[j] = stack[j]
          /\ stack'[n + 1] = f
        BY <1>0, <2>1, <2>2, AppendProperties
    <2>4. SlotsIn(table', S)
        BY <2>2 DEF SlotsIn, larray_initl, Slots
    <2>5. ASSUME NEW j \in 1 .. n + 1 PROVE SlotsIn(stack'[j].table, S)
        <3>1. CASE j = n + 1
            BY <2>1, <2>3, <3>1 DEF AllSlotsIn
        <3>2. CASE j # n + 1
            <4>1. j \in 1 .. n
                BY <1>0, <3>2
            <4> QED
                BY <2>3, <4>1 DEF AllSlotsIn
        <3> QED
            BY <3>1, <3>2
    <2> QED
        BY <2>3, <2>4, <2>5 DEF AllSlotsIn
<1>2. ASSUME NextSlot, n # 0 PROVE \A j \in 1 .. Len(stack') : SlotsIn(stack'[j].table, S)
    <2> DEFINE f == [table |-> Frame.table, i |-> Frame.i + 1]
    <2>1. /\ n \in Nat \ {0} /\ Len(stack') = n
          /\ stack'[n] = f
          /\ \A j \in 1 .. n : j # n => stack'[j] = stack[j]
        BY <1>0, <1>2, NextSlotStack
    <2>2. SlotsIn(Frame.table, S)
        <3>1. n \in 1 .. n
            BY <2>1
        <3> QED
            BY <3>1 DEF AllSlotsIn, Frame
    <2>3. f.table = Frame.table
        OBVIOUS
    <2> HIDE DEF f
    <2> QED
        BY <2>1, <2>2, <2>3 DEF AllSlotsIn
<1>3. CASE SetStore
    <2> DEFINE idx == Pending.idx
               value == Pending.value
               d == Min(PendingStops)
    <2>1. at = "probe" /\ PendingStops # {} /\ table' = Store(table, idx, value, d)
        BY <1>3 DEF SetStore
    <2>2. Storable(table, V, idx, value, d)
        BY <2>1, PendingStorable
    <2>3. [used |-> TRUE, idx |-> idx, value |-> value] \in S
        <3>1. CASE stack = <<>>
            BY <3>1 DEF Pending
        <3>2. CASE stack # <<>>
            <4>1. /\ n \in 1 .. n /\ AtUsedSlot(Frame) /\ Typed(Frame.table, V)
                  /\ idx = Frame.table.arr[Frame.i].idx /\ value = Frame.table.arr[Frame.i].value
                BY <2>1, <3>2, PendingTyped
            <4>2. Frame.table.arr[Frame.i] \in [used : BOOLEAN, idx : Nat, value : V]
                BY <4>1 DEF AtUsedSlot, Typed
            <4>3. Frame.table.arr[Frame.i] \in S
                BY <4>1 DEF AllSlotsIn, SlotsIn, AtUsedSlot, Frame
            <4>4. Frame.table.arr[Frame.i] = [used |-> TRUE, idx |-> idx, value |-> value]
                BY <4>1, <4>2 DEF AtUsedSlot
            <4> QED
                BY <4>3, <4>4
        <3> QED
            BY <3>1, <3>2
    <2> HIDE DEF idx, value, d
    <2>4. SlotsIn(table', S)
        BY <2>1, <2>2, <2>3, SlotsStored DEF AllSlotsIn
    <2>5. \A j \in 1 .. Len(stack') : SlotsIn(stack'[j].table, S)
        BY <1>0, <1>2, <1>3 DEF SetStore, AllSlotsIn
    <2> QED
        BY <2>4, <2>5 DEF AllSlotsIn
<1>4. CASE CopySlot
    <2>1. at = "copy" /\ table' = table
        BY <1>4 DEF CopySlot
    <2>2. n # 0
        BY <1>0, <2>1 DEF SetInv
    <2>3. \A j \in 1 .. Len(stack') : SlotsIn(stack'[j].table, S)
        BY <1>2, <1>4, <2>2 DEF CopySlot, AllSlotsIn
    <2> QED
        BY <2>1, <2>3 DEF AllSlotsIn
<1>5. CASE CopyDone
    <2>1. table' = table
        BY <1>5 DEF CopyDone
    <2>2. \A j \in 1 .. Len(stack') : j \in 1 .. n /\ stack'[j] = stack[j]
        BY <1>5, PopStack
    <2> QED
        BY <2>1, <2>2 DEF AllSlotsIn
<1>6. CASE SetTest /\ ~ larray_expand
    <2>1. table' = table /\ stack' = stack
        BY <1>6 DEF SetTest
    <2> QED
        BY <2>1 DEF AllSlotsIn
<1> QED
    BY <1>1, <1>3, <1>4, <1>5, <1>6 DEF SetStep, SetGivesUp
=============================================================================
