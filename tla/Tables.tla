------------------------------- MODULE Tables -------------------------------
(***************************************************************************)
(* table.c.  A table is the sequence of its array part, a string the       *)
(* sequence of its bytes.  Loops up to `len - 1' do not stop at an empty   *)
(* table: they raise when they want a number, and hang otherwise.          *)
(***************************************************************************)
EXTENDS Sorts, Bytes

ToArray(t) == [i \in 0 .. Len(t) - 1 |-> t[i + 1]]
-----------------------------------------------------------------------------
\* last = end + 1: what is skipped is one byte, whatever the delimiter.
Skipped(end) == end + 1

RECURSIVE Pieces(_, _, _)
Pieces(string, search, last) ==
    LET end == memmem(string, last, search)
    IN IF end = 0 THEN <<From(string, last)>>
       ELSE <<SubSeq(string, last, end - 1)>> \o Pieces(string, search, Skipped(end))

\* memmem finds an empty delimiter everywhere, behind the end too.
l_split(string, search, skip) ==
    LET pieces == Pieces(string, search, 1)
    IN IF search = <<>> THEN Wild
       ELSE IF skip THEN Append(SelectSeq(Front(pieces), LAMBDA p : p # <<>>), Last(pieces))
       ELSE pieces

\* t[len - i - 1] for t[len - i]
l_reverse(t) == IF t = <<>> THEN Hangs ELSE [k \in 1 .. Len(t) - 1 |-> t[Len(t) - k]]

Better(Op(_, _), t) == FoldLeft(LAMBDA cur, v : IF Op(v, cur) THEN v ELSE cur, Head(t), Tail(t))
l_greatest(t) == IF t = <<>> THEN Error ELSE Better(LAMBDA a, b : a > b, t)
l_least(t) == IF t = <<>> THEN Error ELSE Better(LAMBDA a, b : a < b, t)
l_sum(t) == IF t = <<>> THEN Error ELSE FoldLeft(LAMBDA s, v : s + v, 0, t)

l_shuffle(t) == IF t = <<>> THEN {Error} ELSE i_shuffle(ToArray(t))

\* Indices are the array's: they count from 0.
l_indexof(t, v) ==
    IF Contains(t, v) THEN SelectInSeq(t, LAMBDA x : x = v) - 1
    ELSE IF t = <<>> THEN Hangs ELSE -1

RECURSIVE Bisect(_, _, _, _)
Bisect(t, target, l, r) ==
    IF l > r THEN -1
    ELSE LET m == l + (r - l) \div 2
             v == t[m + 1]
         IN IF v = target THEN m
            ELSE IF v > target THEN Bisect(t, target, m + 1, r) ELSE Bisect(t, target, l, m - 1)
\* The mutant starts below the last entry.
l_sindexofShort(t, target) == Bisect(t, target, 0, Len(t) - 2)
l_sindexof(t, target) == Bisect(t, target, 0, Len(t) - 1)
=============================================================================
