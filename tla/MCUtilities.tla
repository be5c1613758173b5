---------------------------- MODULE MCUtilities -----------------------------
EXTENDS Utilities

SeqsUpTo(S, n) == UNION {[1 .. k -> S] : k \in 0 .. n}

NumberTablesVal == SeqsUpTo(-1 .. 2, 3) \cup [1 .. 4 -> 0 .. 2] \cup SetToSeqs({1, 2, 3, 4, 5})
SoughtVal == -1 .. 3
ShuffleTablesVal == SeqsUpTo(-1 .. 2, 3)
StringsVal == SeqsUpTo({"a", "-", "+"}, 5)
DelimitersVal == {<<>>, <<"-">>, <<"-", "+">>, <<"-", "-">>}
\* 62, 63 and 0 among the sextets (64, 190, 251, 255), and lines of 45 bytes
ByteStringsVal == SeqsUpTo({1, 64, 97, 190, 251, 255}, 4)
    \cup {[i \in 1 .. n |-> 1 + ((i * k) % 255)] : n \in {43, 44, 45, 46, 47, 89, 90, 91}, k \in {7, 64}}
DigitTablesVal == SeqsUpTo(0 .. 1, 5)
RequestPathsVal == {<<"/">>, <<"/", "p">>}
VersionsVal == {<<"V">>, <<"V", "SP", "W">>}
FieldsVal == [key : {<<"k">>, <<"l">>}, value : {<<>>, <<"v">>, <<"v", "SP", "w">>, <<"v", ":">>}]
CookiesVal == [key : {<<"k">>, <<"l">>}, quoted : {TRUE}, value : {<<>>, <<"v">>, <<"v", "SP">>, <<";", "=", "v">>}]
    \cup [key : {<<"k">>, <<"l">>}, quoted : {FALSE}, value : {<<>>, <<"v">>, <<"v", "SP">>}]
RouteParts == {"a", "/", "*", "{x}", "{y}"}
Patterns == {r \in SeqsUpTo(RouteParts, 3) \cup {<<"*", "/", "{x}", "/", "a">>, <<"*", "a", "*", "{x}", "/", "a">>} :
                 \A i, j \in DOMAIN r : r[i] = r[j] /\ r[i] \in {"{x}", "{y}"} => i = j}
RouteListsVal == {<<r, <<"/", "{y}">> >> : r \in Patterns}
PathsVal == SeqsUpTo({"a", "/"}, 5)
Pairs == [key : {<<"k">>, <<"k", "l">>}, value : {<<"v">>, <<"w", "v">>}]
QueriesVal == UNION {[1 .. n -> Pairs] : n \in 1 .. 3}
EscapedVal == {s \o t : s \in SeqsUpTo({"A", "/", "%41", "%00", "%G1"}, 3), t \in {<<>>, <<"%">>, <<"%4">>}}
UrlsVal == [proto : {NoText, <<"h">>}, domain : {<<"d">>, <<"d", "e">>}, port : {NoText, <<"8">>},
            path : {NoText, <<"/">>, <<"/", "p", "/">>, <<"/", ":", "p">>}]
\* b, c and d share slot 0 of four, and b and d their hash
HashOfVal == [k \in {"a", "b", "c", "d", "e"} |-> CASE k = "a" -> 1 [] k = "b" -> 4 [] k = "c" -> 20 [] k = "d" -> 4 [] OTHER -> 36]
Lines == [type : {"t1", "t2"}, exts : SeqsUpTo(DOMAIN HashOfVal, 2), ended : {TRUE}]
MimeFilesVal == {<<l1, l2>> : l1, l2 \in Lines}
    \cup {<<[type |-> "t1", exts |-> s, ended |-> e]>> : s \in SetToSeqs(DOMAIN HashOfVal) \cup [1 .. 3 -> DOMAIN HashOfVal], e \in BOOLEAN}

\* What docs/table.md searches.
DocumentedTables == { <<2, 4, 8>> }

CONSTANTS a1, a2, a3, s1
Symmetry == Permutations({a1, a2, a3})
=============================================================================
