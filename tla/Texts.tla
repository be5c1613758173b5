------------------------------- MODULE Texts --------------------------------
(***************************************************************************)
(* The parsers of requests, paths, routes, cookies and URLs (net/util.c,   *)
(* net.c, util.c) and the parray they fill (types/parray.c).  Characters   *)
(* are model values given as strings; "NUL" is the end of a C string that  *)
(* some loops copy as if it belonged to the text.                          *)
(***************************************************************************)
EXTENDS Tables

CONSTANT max_uri_len   \* 4096 in the code

OffTheEnd == -100   \* parse_header did not return
NoText == <<"NULL">>
Put1(table, key, value) == table \o <<[key |-> key, value |-> value]>>

\* types/parray.c: the entries in the order in which their keys came.
parray_geti(p, key) == SelectInSeq(p, LAMBDA e : e.key = key)
parray_get(p, key) == IF parray_geti(p, key) = 0 THEN NoText ELSE p[parray_geti(p, key)].value
parray_set(p, key, value) ==
    IF parray_geti(p, key) = 0 THEN Put1(p, key, value)
    ELSE [p EXCEPT ![parray_geti(p, key)].value = value]
parray_remove(p, key) == IF parray_geti(p, key) = 0 THEN p ELSE RemoveAt(p, parray_geti(p, key))

AllButLast(s) == IF s = <<>> THEN <<>> ELSE Front(s)
-----------------------------------------------------------------------------
\* parse_header: buffer is what is in front of the empty line.  The words of the
\* first line count when a space or the line's end follows; the character in
\* front of a line's end is taken to be CR.
HeaderStep(h, c) ==
    IF c = "SP" /\ h.current = <<>> THEN h
    ELSE IF h.sw = NoText /\ c = ":" THEN [h EXCEPT !.sw = h.current, !.current = <<>>]
    ELSE IF h.sw # NoText /\ c = "LF"
    THEN [table |-> parray_set(h.table, h.sw, AllButLast(h.current)), sw |-> NoText, current |-> <<>>]
    ELSE [h EXCEPT !.current = Append(@, c)]

\* The mutant forgets the header that the empty line ends.
LastHeaderLost(h) == h.table
LastHeader(h) == IF h.sw = NoText THEN h.table ELSE parray_set(h.table, h.sw, h.current)

parse_header(buffer) ==
    LET nl == FirstOf(buffer, "LF")
        line == IF nl = 0 THEN buffer ELSE SubSeq(buffer, 1, nl - 1)
        words == Pieces(line, <<"SP">>, 1)
        items == IF nl = 0 THEN Front(words) ELSE Append(Front(words), AllButLast(Last(words)))
        first == <<[key |-> <<"Request">>, value |-> items[1]],
                   [key |-> <<"Path">>, value |-> items[2]],
                   [key |-> <<"Version">>, value |-> items[3]]>>
    IN IF \E i \in DOMAIN line : i > max_uri_len /\ line[i] # "SP" THEN [code |-> -2]
       ELSE IF Len(items) < 3 THEN [code |-> -1]
       \* the second loop starts behind its end and finds no other
       ELSE IF nl = 0 THEN [code |-> OffTheEnd]
       ELSE [code |-> 0,
             table |-> LastHeader(FoldLeft(HeaderStep,
                                           [table |-> first, sw |-> NoText, current |-> <<>>],
                                           From(buffer, nl + 1)))]
-----------------------------------------------------------------------------
\* gen_parse, the cookies: inside quotes ; and = are text.
Opens(next) == next = "QUOTE"
GenStep(g, c, next) ==
    IF g.jump THEN [g EXCEPT !.jump = FALSE]
    ELSE IF ~g.quoted /\ c = ";"
    THEN [g EXCEPT !.table = IF g.last = NoText THEN @ ELSE parray_set(@, g.last, g.current),
                   !.last = NoText, !.current = <<>>]
    ELSE IF ~g.quoted /\ c = "="
    THEN [g EXCEPT !.last = g.current, !.current = <<>>,
                   !.quoted = Opens(next), !.jump = Opens(next)]
    ELSE IF g.quoted /\ c = "QUOTE" THEN [g EXCEPT !.quoted = FALSE]
    ELSE IF g.current # <<>> \/ c # "SP" THEN [g EXCEPT !.current = Append(@, c)]
    ELSE g

gen_parse(inp) ==
    LET end == FoldLeft(LAMBDA g, i : GenStep(g, inp[i], IF i < Len(inp) THEN inp[i + 1] ELSE "NUL"),
                        [table |-> <<>>, last |-> NoText, current |-> <<>>,
                         quoted |-> FALSE, jump |-> FALSE],
                        Up(1, Len(inp)))
    IN IF end.last = NoText THEN end.table ELSE parray_set(end.table, end.last, end.current)
-----------------------------------------------------------------------------
\* match_param: path is the route, in which "{x}" stands for a parameter named x
\* (a brace that is not closed would be read past the end); "*" matches any text.
IsParam(c) == c \in {"{x}", "{y}"}
PathAt(path, pi) == IF pi <= Len(path) THEN path[pi] ELSE "NUL"

\* Where a mismatch sends the search: behind the last wildcard, one further on.
\* The mutant goes on behind the character that did not match.
RetryBehind(imatch, mi) == mi + 1
Retry(imatch, mi) == imatch + 1

RECURSIVE MatchLoop(_, _, _, _, _, _, _)
MatchLoop(path, match, pi, mi, index, imatch, arr) ==
    LET c == PathAt(path, pi)
        end == IF \E e \in mi .. Len(match) : match[e] = "/" THEN memmem(match, mi, <<"/">>)
               ELSE Len(match) + 1
        stars == CHOOSE k \in pi .. Len(path) + 1 :
                     PathAt(path, k) # "*" /\ \A j \in pi .. k - 1 : path[j] = "*"
    IN IF mi > Len(match) THEN [ok |-> stars = Len(path) + 1, params |-> arr]
       ELSE IF IsParam(c)
       THEN MatchLoop(path, match, pi + 1, end, index, imatch,
                      parray_set(arr, c, SubSeq(match, mi, end - 1)))
       ELSE IF c = "*" THEN MatchLoop(path, match, pi + 1, mi, pi, mi, arr)
       ELSE IF c = match[mi] THEN MatchLoop(path, match, pi + 1, mi + 1, index, imatch, arr)
       ELSE IF index = 0 THEN [ok |-> FALSE, params |-> arr]
       ELSE MatchLoop(path, match, index + 1, Retry(imatch, mi), index, Retry(imatch, mi), arr)

match_param(path, match) == MatchLoop(path, match, 1, 1, 0, 0, <<>>)

\* The routes that match, in the order of their registration.
route_match(paths, request) ==
    LET hits == SelectSeq(paths, LAMBDA p : match_param(p, request).ok)
    IN [k \in DOMAIN hits |-> [path |-> hits[k], params |-> match_param(hits[k], request).params]]
-----------------------------------------------------------------------------
\* path_parse: the character behind ?, & or = is not looked at, and the last of
\* the text is never one of them.
NewPair(p) == [p EXCEPT !.query = parray_set(@, p.key, p.value), !.key = <<>>, !.value = <<>>]
PathStep(p, c, more) ==
    LET take(q) == [q EXCEPT ![q.reading] = Append(@, c), !.blind = FALSE]
    IN IF p.blind \/ ~more THEN take(p)
       ELSE CASE c = "&" -> [NewPair(p) EXCEPT !.reading = "key", !.blind = TRUE]
              [] c = "?" -> [p EXCEPT !.reading = "key", !.blind = TRUE]
              [] c = "=" -> [p EXCEPT !.reading = "value", !.blind = TRUE]
              [] OTHER -> take(p)

path_parse(raw) ==
    LET text == Append(raw, "NUL")
        end == FoldLeft(LAMBDA p, i : PathStep(p, text[i], Len(raw) - i + 1 > 1),
                        [path |-> <<>>, query |-> <<>>, key |-> <<>>, value |-> <<>>,
                         reading |-> "path", blind |-> FALSE],
                        Up(1, Len(text)))
    IN [path |-> end.path,
        query |-> IF end.reading = "value" THEN parray_set(end.query, end.key, end.value) ELSE end.query]

\* percent_decode.  Of strtol(hex, NULL, 16) two hexadecimal digits, or one.
\* "%41" is "A"; "%00" and digits that are none give 0.
Hex == [d \in {"0", "1", "4"} |-> CASE d = "0" -> 0 [] d = "1" -> 1 [] OTHER -> 4]
strtol16(a, b) == IF a \notin DOMAIN Hex THEN 0 ELSE IF b \notin DOMAIN Hex THEN Hex[a] ELSE 16 * Hex[a] + Hex[b]
CharOf(code) == IF code = 65 THEN "A" ELSE "other"

\* An escape may end the text.
EscapeAt(input, i) == PathAt(input, i) = "%" /\ Len(input) - i + 1 >= 3

RECURSIVE PercentLoop(_, _, _)
PercentLoop(input, i, output) ==
    IF i > Len(input) + 1 THEN [err |-> 0, output |-> output]
    ELSE IF EscapeAt(input, i)
    THEN LET c == strtol16(input[i + 1], input[i + 2])
         IN IF c = 0 THEN [err |-> 1, output |-> output]
            ELSE PercentLoop(input, i + 3, Append(output, CharOf(c)))
    ELSE PercentLoop(input, i + 1, Append(output, PathAt(input, i)))
percent_decode(input) == PercentLoop(input, 1, <<>>)

\* parse_url.  A ':' without "//" behind it ends the domain whenever no port has
\* been read, and is dropped after one, in the path too.
IsProto(url, i) == i + 2 <= Len(url) /\ SubSeq(url, i, i + 2) = <<":", "/", "/">>
RECURSIVE UrlLoop(_, _, _)
UrlLoop(url, i, u) ==
    LET next(field, read) == [u EXCEPT ![field] = u.buffer, !.buffer = <<>>, !.read = read]
    IN IF i > Len(url) THEN u
       ELSE IF url[i] = ":"
       THEN IF u.proto = NoText /\ IsProto(url, i)
            THEN UrlLoop(url, i + 3, next("proto", u.read))
            ELSE UrlLoop(url, i + 1, IF u.port = NoText THEN next("domain", 1) ELSE u)
       ELSE IF u.read # 2 /\ url[i] = "/"
       THEN UrlLoop(url, i, next(IF u.read = 1 THEN "port" ELSE "domain", 2))
       ELSE UrlLoop(url, i + 1, [u EXCEPT !.buffer = Append(@, url[i])])

\* What the end of the text ends.
LastPart(read) == CASE read = 0 -> "domain" [] read = 1 -> "port" [] OTHER -> "path"

parse_url(url) ==
    LET u == UrlLoop(url, 1, [proto |-> NoText, domain |-> NoText, port |-> NoText, path |-> NoText,
                              buffer |-> <<>>, read |-> 0])
        all == [u EXCEPT ![LastPart(u.read)] = u.buffer]
    IN [proto |-> all.proto, domain |-> all.domain, port |-> all.port, path |-> all.path]
=============================================================================
