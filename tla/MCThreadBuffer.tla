--------------------------- MODULE MCThreadBuffer ---------------------------
(* Values: 0 and 1 are tables; 1 has the field that is indexed, 0 has not. *)
EXTENDS ThreadBuffer

CONSTANTS t1, t2, b1, b2

\* mod functions: one that counts, one that returns nothing for 1.
Count == [v \in Items |-> IF v = Nil THEN 1 ELSE 1 - v]
Maybe == [v \in Items |-> IF v = 0 THEN 1 ELSE Nil]
MCMods == {Count, Maybe}
=============================================================================
