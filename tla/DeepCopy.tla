------------------------------ MODULE DeepCopy ------------------------------
(***************************************************************************)
(* luaI_deepcopy copies a value from one Lua state to another.  A table is *)
(* recorded in the destination's registry under the ADDRESS it has in the  *)
(* source, and the entry is never removed; a table whose address is there  *)
(* is not copied again.  Between two calls the source program assigns      *)
(* fields, drops tables, and gets the address of a dropped table again.    *)
(*                                                                         *)
(* A table has a field x, possibly a function under __gc (the key SKIP_GC  *)
(* leaves out) and possibly a metatable.  Tables of the destination are    *)
(* numbered.                                                               *)
(***************************************************************************)
EXTENDS Naturals, Sequences, FiniteSets, SequencesExt

CONSTANTS Addr,        \* addresses of the source state's tables
          Scalars,     \* values that are not tables
          Null,        \* no value, no metatable, no copy
          MaxCopies    \* bound on the calls, with one change of the source between two

ASSUME DeepCopyAssumption ==
    /\ Null \notin Scalars \cup Addr
    /\ Scalars \cap Addr = {}
    /\ Nat \cap (Scalars \cup Addr) = {}
    /\ MaxCopies \in Nat

VARIABLES
    src,     \* src[a]: the source's table at a, or Null
    reg,     \* reg[a]: registry of the destination, 0 for no entry
    dest,    \* the destination's tables, by number
    last,    \* the last copy: what was copied, with which flags, the result,
             \* and the registry before the call
    calls,   \* how many copies were made
    changed  \* whether the program changed a table since the last one

copyVars == <<src, reg, dest, last, calls, changed>>

FieldNames == <<"x", "__gc">>
TableFields == ToSet(FieldNames)
TableOf(T) == [x : Scalars \cup T \cup {Null}, __gc : Scalars \cup {Null}, meta : T \cup {Null}]
Empty == [x |-> Null, __gc |-> Null, meta |-> Null]
NoCopy == [v |-> Null, gc |-> FALSE, out |-> Null, old |-> [a \in Addr |-> 0]]
-----------------------------------------------------------------------------
\* What a copy changes and returns.
Result(r, d, out) == [reg |-> r, dest |-> d, out |-> out]

RECURSIVE deepcopy(_, _, _, _, _)
RECURSIVE CopyFields(_, _, _, _, _, _)

\* The fields from FieldNames[i] on; "skip __gc (when SKIP_GC)".
CopyFields(a, i, gc, meta, r, id) ==
    IF i > Len(FieldNames) THEN r
    ELSE IF (gc /\ FieldNames[i] = "__gc") \/ src[a][FieldNames[i]] = Null
    THEN CopyFields(a, i + 1, gc, meta, r, id)
    ELSE LET v == deepcopy(src[a][FieldNames[i]], gc, meta, r.reg, r.dest)
         IN CopyFields(a, i + 1, gc, meta,
                       Result(v.reg, [v.dest EXCEPT ![id][FieldNames[i]] = v.out], v.out), id)

\* The mutant takes SKIP_GC for SKIP_META.
CopyMetaUnlessGc(a, gc, meta, r, id) ==
    IF gc \/ meta \/ src[a].meta = Null THEN r
    ELSE LET m == deepcopy(src[a].meta, gc, TRUE, r.reg, r.dest)
         IN Result(m.reg, [m.dest EXCEPT ![id].meta = m.out], m.out)

\* The metatable is copied with SKIP_META, which the recursion passes on.
CopyMeta(a, gc, meta, r, id) ==
    IF meta \/ src[a].meta = Null THEN r
    ELSE LET m == deepcopy(src[a].meta, gc, TRUE, r.reg, r.dest)
         IN Result(m.reg, [m.dest EXCEPT ![id].meta = m.out], m.out)

\* A table that is met for the first time: it is registered before its fields
\* are copied, so a cycle finds it.
CopyTable(a, gc, meta, r0, d0) ==
    LET id == Len(d0) + 1
        new == Result([r0 EXCEPT ![a] = id], Append(d0, Empty), id)
        body == CopyFields(a, 1, gc, meta, new, id)
        done == CopyMeta(a, gc, meta, body, id)
    IN Result(done.reg, done.dest, id)

\* The mutant hands the source's own table over.
FoundReturnsSource(a, r0, d0) == Result(r0, d0, a)

\* A table whose address has an entry: the entry, whatever the table holds now.
Found(a, r0, d0) == Result(r0, d0, r0[a])

deepcopy(v, gc, meta, r0, d0) ==
    IF v \notin Addr THEN Result(r0, d0, v)
    ELSE IF r0[v] # 0 THEN Found(v, r0, d0)
    ELSE CopyTable(v, gc, meta, r0, d0)
-----------------------------------------------------------------------------
Live == {a \in Addr : src[a] # Null}

CopyInit ==
    /\ src = [a \in Addr |-> Null]
    /\ reg = [a \in Addr |-> 0]
    /\ dest = <<>>
    /\ last = NoCopy
    /\ calls = 0
    /\ changed = FALSE

\* The program makes its tables, any graph of them.
Make ==
    /\ Live = {}
    /\ src' \in [Addr -> TableOf(Addr) \cup {Null}]
    /\ Live' # {}
    /\ \A a \in Live' : \A f \in TableFields \cup {"meta"} : src'[a][f] \in Addr => src'[a][f] \in Live'
    /\ UNCHANGED <<reg, dest, last, calls, changed>>

\* A call of luaI_deepcopy on the source's table a, with or without SKIP_GC.
Copy(a, gc) ==
    /\ calls < MaxCopies
    /\ calls' = calls + 1
    /\ changed' = FALSE
    /\ a \in Live
    /\ LET c == deepcopy(a, gc, FALSE, reg, dest)
       IN /\ reg' = c.reg
          /\ dest' = c.dest
          /\ last' = [v |-> a, gc |-> gc, out |-> c.out, old |-> reg]
    /\ UNCHANGED src

\* The program runs between two copies.
Change == ~changed /\ calls \in 1 .. MaxCopies - 1 /\ changed' = TRUE /\ UNCHANGED calls

\* The program assigns a field.
Assign(a, v) ==
    /\ Change
    /\ a \in Live
    /\ v \in Live \cup Scalars
    /\ src' = [src EXCEPT ![a].x = v]
    /\ last' = NoCopy
    /\ UNCHANGED <<reg, dest>>

\* The collector frees a table nothing refers to; the program's next table
\* gets the address.
Reuse(a, v) ==
    /\ Change
    /\ a \in Live
    /\ \A b \in Live \ {a} : \A f \in TableFields \cup {"meta"} : src[b][f] # a
    /\ v \in Scalars
    /\ src' = [src EXCEPT ![a] = [Empty EXCEPT !.x = v]]
    /\ last' = NoCopy
    /\ UNCHANGED <<reg, dest>>

CopyNext ==
    \/ Make
    \/ \E a \in Addr : \/ \E gc \in BOOLEAN : Copy(a, gc)
                       \/ \E v \in Addr \cup Scalars : Assign(a, v)
                       \/ \E v \in Scalars : Reuse(a, v)
-----------------------------------------------------------------------------
CopyTypeOK ==
    /\ src \in [Addr -> TableOf(Addr) \cup {Null}]
    /\ reg \in [Addr -> 0 .. Len(dest)]
    /\ \A i \in DOMAIN dest : dest[i] \in TableOf(DOMAIN dest)
    /\ calls \in 0 .. MaxCopies
    /\ changed \in BOOLEAN

Copied(v) == IF v \in Addr THEN reg[v] ELSE v

\* Tables the last call copied: they had no entry before it.
Fresh == {a \in Addr : last.v # Null /\ last.old[a] = 0 /\ reg[a] # 0}

\* Each table a call copies has exactly the fields of its source at that
\* moment, except the __gc that SKIP_GC leaves out; tables that were shared or
\* cyclic are shared or cyclic in the copy (lua.c 193-245).  In particular a
\* first copy into a new state is the source's graph.
FreshTablesEqualSource ==
    \A a \in Fresh :
        /\ dest[reg[a]].x = Copied(src[a].x)
        /\ dest[reg[a]].__gc = IF last.gc THEN Null ELSE Copied(src[a].__gc)

\* A metatable is copied with the table, or was dropped because the table was
\* itself reached through a metatable (SKIP_META is passed on, lua.c 281-282);
\* dropped metatables stay dropped, since the table is not copied again.
Reaches(S) == LET R[n \in 0 .. Cardinality(Addr)] ==
                  IF n = 0 THEN S
                  ELSE R[n - 1] \cup ({src[a][f] : a \in R[n - 1], f \in TableFields} \cap Addr)
              IN R[Cardinality(Addr)]
MetaDroppedOnlyBelowMeta ==
    \A a \in Fresh :
        /\ dest[reg[a]].meta \in {Null, Copied(src[a].meta)}
        /\ src[a].meta # Null /\ dest[reg[a]].meta = Null
           => a \in Reaches({src[b].meta : b \in Live} \cap Addr)

\* What a call copies equals its source (lua.c 193-286).
CopiesEqualSource == FreshTablesEqualSource /\ MetaDroppedOnlyBelowMeta
=============================================================================
