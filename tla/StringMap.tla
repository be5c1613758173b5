----------------------------- MODULE StringMap ------------------------------
(***************************************************************************)
(* types/map.c, the table from strings to pointers, and parse_mimetypes    *)
(* (net/util.c), which fills one with the types of file extensions.  Slots *)
(* are probed like those of LArray; a slot whose hash agrees is taken for  *)
(* the key's own, and every set counts, of a new key or of an old one.     *)
(***************************************************************************)
EXTENDS Integers, Sequences, SequencesExt

CONSTANTS HashOf,         \* fnv_1 of the keys in use
          MapProbeLimit   \* the 10 of `count > 10'

Vacant == [used |-> FALSE]
map_initl(n) == [mod |-> n, len |-> 0, M |-> [i \in 0 .. n - 1 |-> Vacant]]
map_init == map_initl(4)

MapSlot(m, key, d) == (HashOf[key] + d) % m.mod
OwnSlot(s, key) == s.used /\ s.hash = HashOf[key] /\ s.key = key
First(D) == CHOOSE d \in D : \A e \in D : d <= e

\* Where the probe of map_set may stop.
MayHold(s, key) == ~s.used \/ s.hash = HashOf[key] \/ s.key = key

RECURSIVE map_set(_, _, _)
map_expand(m) ==
    FoldLeft(LAMBDA r, i : IF m.M[i].used THEN map_set(r, m.M[i].key, m.M[i].value) ELSE r,
             map_initl(m.mod * 4), [i \in 1 .. m.mod |-> i - 1])
map_set(m, key, value) ==
    LET stops == {d \in 0 .. m.mod - 1 : d <= MapProbeLimit + 1 /\ MayHold(m.M[MapSlot(m, key, d)], key)}
        slot == [used |-> TRUE, hash |-> HashOf[key], key |-> key, value |-> value]
    IN IF m.len + 1 >= m.mod \/ stops = {} THEN map_set(map_expand(m), key, value)
       ELSE [m EXCEPT !.M[MapSlot(m, key, First(stops))] = slot, !.len = @ + 1]

\* The loop ends at `initial - 1', which wraps when the probe starts at slot 0.
map_get(m, key) ==
    LET reach == IF HashOf[key] % m.mod = 0 THEN 0 .. m.mod - 1 ELSE 0 .. m.mod - 2
        stops == {d \in reach : LET s == m.M[MapSlot(m, key, d)] IN ~s.used \/ OwnSlot(s, key)}
        s == m.M[MapSlot(m, key, First(stops))]
    IN IF stops # {} /\ s.used THEN s.value ELSE "NULL"

\* A line is a type and the extensions behind it; an extension counts when a
\* blank or the line's end follows, and the last line may have no end.
SetLine(m, line) ==
    FoldLeft(LAMBDA r, ext : map_set(r, ext, line.type), m,
             IF line.ended \/ line.exts = <<>> THEN line.exts ELSE Front(line.exts))
parse_mimetypes(lines) == FoldLeft(SetLine, map_init, lines)
=============================================================================
