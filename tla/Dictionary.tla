----------------------------- MODULE Dictionary -----------------------------
(***************************************************************************)
(* What a table from keys to pointers promises its users: a set that has   *)
(* been asked for happens at once, at some time before the next one is     *)
(* asked for, and gives its key its value and changes no other key.        *)
(***************************************************************************)
CONSTANTS Keys, Values, NULL

VARIABLES
    dict,   \* the value of each key
    asked   \* the set that is under way: {<<key, value>>}, or {} if none is

Init == dict = [k \in Keys |-> NULL] /\ asked = {}

Ask(k, v) ==
    /\ asked = {}
    /\ asked' = {<<k, v>>}
    /\ UNCHANGED dict

Set ==
    /\ \E kv \in asked : dict' = [dict EXCEPT ![kv[1]] = kv[2]]
    /\ asked' = {}

Next == Set \/ \E k \in Keys, v \in Values : Ask(k, v)

Spec == Init /\ [][Next]_<<dict, asked>>
=============================================================================
