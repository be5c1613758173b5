------------------------------ MODULE Library -------------------------------
(***************************************************************************)
(* The functions of the library that keep no state, one call to a         *)
(* behaviour: what they return against what they are for.                  *)
(***************************************************************************)
EXTENDS Encoders, Texts, StringMap

CONSTANTS NumberTables,   \* arguments of the sorts and the table functions, and
          Sought,         \* what index and sindex look for in them
          ShuffleTables,  \* of those that shuffle
          Strings,        \* and of split
          Delimiters,
          ByteStrings,    \* and of the encoders
          DigitTables,    \* and of baseconvert, with
          Bases,
          RequestPaths,   \* requests: a path,
          Versions,       \* what follows it in the line
          Fields,         \* and headers: records key, value
          Cookies,        \* records key, value, quoted
          RouteLists,     \* sequences of routes, and
          Paths,          \* paths of requests
          Queries,        \* sequences of records key, value
          Escaped,        \* paths to be decoded
          Urls,           \* records of the parts of a URL
          MimeFiles       \* sequences of records type, exts, ended

VARIABLES fn, arg, res

libVars == <<fn, arg, res>>

Call(f, a, r) == fn' = f /\ arg' = a /\ res' = r
-----------------------------------------------------------------------------
SortNames == {"quicksort", "mergesort", "heapsort", "shellsort", "bubblesort",
              "countingsort", "slowsort", "stalinsort", "miraclesort"}

Sorted(f, arr) ==
    CASE f = "quicksort" -> l_quicksort(arr)
      [] f = "mergesort" -> l_mergesort(arr)
      [] f = "heapsort" -> l_heapsort(arr)
      [] f = "shellsort" -> l_shellsort(arr)
      [] f = "bubblesort" -> l_bubblesort(arr)
      [] f = "countingsort" -> l_countingsort(arr)
      [] f = "slowsort" -> l_slowsort(arr)
      [] f = "stalinsort" -> l_stalinsort(arr)
      [] f = "miraclesort" -> l_miraclesort(arr)

\* l_bogosort: a loop of i_sorted and i_shuffle.
Bogosort == \E t \in ShuffleTables : Call("shuffling", t, Checked(ToArray(t), ToArray(t)))
BogoShuffle ==
    /\ fn = "shuffling" /\ res # Error /\ ~i_sorted(res)
    /\ res' \in i_shuffle(res)
    /\ UNCHANGED <<fn, arg>>
BogoEnds ==
    /\ fn = "shuffling" /\ res # Error /\ i_sorted(res)
    /\ Call("bogosort", arg, res)

\* What each sort and each table function makes of the same table.
Table ==
    \/ \E t \in NumberTables, v \in Sought :
          Call("table", [t |-> t, v |-> v],
               [sorts |-> [f \in SortNames |-> Sorted(f, ToArray(t))],
                reverse |-> l_reverse(t), least |-> l_least(t), greatest |-> l_greatest(t),
                sum |-> l_sum(t), index |-> l_indexof(t, v), sindex |-> l_sindexof(t, v)])
    \/ \E t \in ShuffleTables : \E r \in l_shuffle(t) : Call("shuffle", t, r)

Split == \E s \in Strings, d \in Delimiters, skip \in BOOLEAN :
            Call("split", [s |-> s, d |-> d, skip |-> skip], l_split(s, d, skip))

Encode ==
    \/ \E s \in ByteStrings : \/ Call("base64", s, de_base64(en_base64(s)))
                              \/ Call("uu", s, de_uu(en_uu(s)))
    \/ \E t \in DigitTables, b1 \in Bases, b2 \in Bases :
          Call("baseconvert", [t |-> t, b1 |-> b1, b2 |-> b2], l_baseconvert(t, b1, b2))
-----------------------------------------------------------------------------
\* How requests, cookies, queries and URLs are written.
Joined(parts, sep) == FoldLeft(LAMBDA s, p : s \o sep \o p, Head(parts), Tail(parts))
RequestText(r) ==
    Joined(<< <<"G", "SP">> \o r.path \o <<"SP">> \o r.version >>
           \o [i \in DOMAIN r.fields |-> r.fields[i].key \o <<":", "SP">> \o r.fields[i].value], CRLF)
CookieText(cs) ==
    Joined([i \in DOMAIN cs |-> cs[i].key \o <<"=">>
               \o (IF cs[i].quoted THEN <<"QUOTE">> \o cs[i].value \o <<"QUOTE">> ELSE cs[i].value)],
           <<";", "SP">>)
QueryText(q) ==
    <<"/", "p", "?">> \o Joined([i \in DOMAIN q |-> q[i].key \o <<"=">> \o q[i].value], <<"&">>)
\* A text of characters, some of them escaped, and of what is no escape.
AtomText(a) ==
    CASE a = "%41" -> <<"%", "4", "1">>
      [] a = "%00" -> <<"%", "0", "0">>
      [] a = "%G1" -> <<"%", "G", "1">>
      [] a = "%4" -> <<"%", "4">>
      [] OTHER -> <<a>>
EscapedText(s) == FlattenSeq([i \in DOMAIN s |-> AtomText(s[i])])
UrlText(u) ==
    (IF u.proto = NoText THEN <<>> ELSE u.proto \o <<":", "/", "/">>) \o u.domain
    \o (IF u.port = NoText THEN <<>> ELSE <<":">> \o u.port)
    \o (IF u.path = NoText THEN <<>> ELSE u.path)

Parse ==
    \/ \E n \in 0 .. 2, path \in RequestPaths, version \in Versions : \E fields \in [1 .. n -> Fields] :
          LET r == [path |-> path, version |-> version, fields |-> fields]
          IN Call("header", r, parse_header(RequestText(r)))
    \/ \E n \in 1 .. 2 : \E cs \in [1 .. n -> Cookies] : Call("cookie", cs, gen_parse(CookieText(cs)))
    \/ \E q \in Queries : Call("query", q, path_parse(QueryText(q)))
    \/ \E s \in Escaped : Call("percent", s, percent_decode(EscapedText(s)))
    \/ \E f \in MimeFiles : Call("mime", f, parse_mimetypes(f))
    \/ \E u \in Urls : Call("url", u, parse_url(UrlText(u)))

Route == \E rs \in RouteLists, p \in Paths : Call("route", [routes |-> rs, path |-> p], route_match(rs, p))
-----------------------------------------------------------------------------
LibInit == fn = "none" /\ arg = <<>> /\ res = <<>>
LibNext ==
    \/ fn = "none" /\ (Bogosort \/ Table \/ Split \/ Encode \/ Parse \/ Route)
    \/ BogoShuffle
    \/ BogoEnds
-----------------------------------------------------------------------------
IsPermutation(t, arr) ==
    /\ DOMAIN arr = 0 .. Len(t) - 1
    /\ \A v \in ToSet(t) : Cardinality({i \in DOMAIN t : t[i] = v})
                           = Cardinality({i \in DOMAIN arr : arr[i] = v})

Descends(arr) == \A i, j \in DOMAIN arr : i <= j => arr[i] >= arr[j]

\* The comparison sorts order the table "greatest -> least", countingsort "least
\* -> greatest" (sort.h); an empty table raises an error, and a negative number
\* ends countingsort's process.
UsualSortsOrder ==
    fn = "table" =>
        /\ \A f \in {"quicksort", "mergesort", "heapsort", "shellsort", "bubblesort"} :
              IF arg.t = <<>> THEN res.sorts[f] = Error
              ELSE IsPermutation(arg.t, res.sorts[f]) /\ Descends(res.sorts[f])
        /\ LET counted == res.sorts["countingsort"]
           IN CASE arg.t = <<>> -> counted = Error
                [] \E i \in DOMAIN arg.t : arg.t[i] < 0 -> counted = Fatal
                [] OTHER -> IsPermutation(arg.t, counted) /\ i_sorted(counted)

\* The others lose nothing, but for stalinsort, which keeps the first entry and
\* some of those behind it, and all end with a sorted table if they end.
EsotericSortsKeep ==
    /\ fn = "bogosort" => IsPermutation(arg, res) /\ (i_sorted(res) \/ Descends(res))
    /\ fn = "table" /\ arg.t # <<>> =>
          /\ \A f \in {"slowsort", "miraclesort"} :
                res.sorts[f] # Hangs => IsPermutation(arg.t, res.sorts[f])
          /\ \E kept \in SUBSET DOMAIN arg.t :
                1 \in kept /\ res.sorts["stalinsort"] = [k \in 1 .. Cardinality(kept) |->
                                   arg.t[SetToSortSeq(kept, <)[k]]]
          /\ \A f \in {"slowsort", "stalinsort", "miraclesort"} :
                res.sorts[f] # Hangs => i_sorted(res.sorts[f]) \/ Descends(res.sorts[f])

\* The sorts return what they are given, sorted (sort.c).
SortsOrder == UsualSortsOrder /\ EsotericSortsKeep

\* The table functions: reverse does not change the order of what it gives back;
\* shuffle loses nothing; least and greatest are in the table and bound it.
TablesKeepEntries ==
    /\ fn = "table" /\ arg.t # <<>> =>
          /\ IsSuffix(res.reverse, Reverse(arg.t))
          /\ {res.least, res.greatest} \subseteq ToSet(arg.t)
          /\ \A v \in ToSet(arg.t) : res.least <= v /\ v <= res.greatest
    /\ fn = "shuffle" /\ arg # <<>> => IsPermutation(arg, res)

\* An index is -1 exactly when the value is not there; sindex, a binary search,
\* needs a table that is sorted the way the sorts do it.
IndexFinds ==
    fn = "table" /\ arg.t # <<>> =>
        /\ res.index = -1 <=> ~Contains(arg.t, arg.v)
        /\ Descends(arg.t) => (res.sindex = -1 <=> ~Contains(arg.t, arg.v))

\* With a delimiter of one byte the pieces that are not empty are what is between
\* the delimiters, in order and none of it lost.
SplitAtDelimiters ==
    fn = "split" /\ Len(arg.d) = 1 =>
        LET d == Head(arg.d)
        IN /\ FlattenSeq(res) = SelectSeq(arg.s, LAMBDA c : c # d)
           /\ Cardinality({i \in DOMAIN res : res[i] # <<>>})
              = Cardinality({i \in DOMAIN arg.s : arg.s[i] # d /\ (i = 1 \/ arg.s[i - 1] = d)})

\* What the table functions answer (table.c), as far as its documents agree.
TablesAnswer == TablesKeepEntries /\ IndexFinds /\ SplitAtDelimiters

\* What the documents say of the same calls: the esoteric sorts give "greatest ->
\* least" (sort.h 16-19, docs/table.md 13-16), "reverse({5, 4, 22}) -- 22, 4, 5"
\* (line 44), "index({5, 4, 3}, 4) -- 2" (line 83), and "sindex({2, 4, 8}, 8) -- 3"
\* (line 93), in a table that ascends.
TablesAsDocumented ==
    fn = "table" /\ arg.t # <<>> =>
        /\ \A f \in {"slowsort", "stalinsort", "miraclesort"} :
              res.sorts[f] # Hangs => Descends(res.sorts[f])
        /\ res.reverse = Reverse(arg.t)
        /\ Contains(arg.t, arg.v) => res.index \in DOMAIN arg.t /\ arg.t[res.index] = arg.v
        /\ Contains(arg.t, arg.v) /\ Descends(Reverse(arg.t)) =>
              res.sindex \in DOMAIN arg.t /\ arg.t[res.sindex] = arg.v

\* Decoding brings back what was encoded: in uuencode always, across the lines of
\* 45 bytes; in base64 exactly the strings without the sextets of Base64Safe.
\* baseconvert keeps the number: its digits are the ones returned, last first.
EncodingsRoundTrip ==
    /\ fn = "uu" => res = arg
    /\ fn = "base64" => (res = arg <=> Base64Safe(arg))
    /\ fn = "baseconvert" => Value(Reverse(res), arg.b2) = Value(arg.t, arg.b1)

\* A request's headers are in its table, the last of those with the same name,
\* whatever spaces and colons their values have.  A line over the limit gives -2
\* (414).  Without headers a request is refused; with a fourth word in its line
\* the search for headers leaves the buffer.
HeaderParsed ==
    fn = "header" =>
        IF Len(arg.path) + Len(arg.version) + 3 + (IF arg.fields = <<>> THEN 0 ELSE 1) > max_uri_len
        THEN res.code = -2
        ELSE IF arg.fields = <<>> THEN res.code = IF Contains(arg.version, "SP") THEN OffTheEnd ELSE -1
        ELSE /\ res.code = 0
             /\ parray_get(res.table, <<"Path">>) = arg.path
             /\ parray_get(res.table, <<"Version">>) = <<"V">>
             /\ \A i \in DOMAIN arg.fields :
                    (\A j \in i + 1 .. Len(arg.fields) : arg.fields[j].key # arg.fields[i].key) =>
                        parray_get(res.table, arg.fields[i].key) = arg.fields[i].value
             /\ \A i, j \in DOMAIN res.table : res.table[i].key = res.table[j].key => i = j

\* Cookies are name and value, quoted values with the separators in them.
CookiesParsed ==
    fn = "cookie" =>
        res = FoldLeft(LAMBDA p, c : parray_set(p, c.key, c.value), <<>>, arg)

\* The pairs of a query whose names and values are not empty are all found; the
\* last value has the string's end attached.
QueryParsed ==
    fn = "query" =>
        /\ res.path = <<"/", "p">>
        /\ res.query = FoldLeft(LAMBDA p, i : parray_set(p, arg[i].key,
                                      IF i = Len(arg) THEN Append(arg[i].value, "NUL") ELSE arg[i].value),
                                <<>>, Up(1, Len(arg)))

\* What a route means: "*" is any text, a parameter the text up to the next "/".
RECURSIVE Fits(_, _)
Fits(r, p) ==
    IF r = <<>> THEN p = <<>>
    ELSE IF Head(r) = "*" THEN \E k \in 1 .. Len(p) + 1 : Fits(Tail(r), From(p, k))
    ELSE IF IsParam(Head(r))
    THEN p # <<>> /\ \E k \in 1 .. Len(p) + 1 :
             /\ \A j \in 1 .. k - 1 : p[j] # "/"
             /\ k <= Len(p) => p[k] = "/"
             /\ Fits(Tail(r), From(p, k))
    ELSE p # <<>> /\ Head(p) = Head(r) /\ Fits(Tail(r), Tail(p))
Filled(r, params) ==
    FlattenSeq([i \in DOMAIN r |-> IF IsParam(r[i]) THEN parray_get(params, r[i]) ELSE <<r[i]>>])

\* The routes run for a path are those it fits, in their order, although the
\* search goes back to the last wildcard only; and the parameters are those of
\* the attempt that succeeded ("/*/{user}/id would match /a/b/c/meow/id with
\* req.parameters.user being equal to meow", docs/net/listen.md).
RoutesMatch ==
    fn = "route" =>
        /\ [k \in DOMAIN res |-> res[k].path] = SelectSeq(arg.routes, LAMBDA r : Fits(r, arg.path))
        /\ \A k \in DOMAIN res : Fits(Filled(res[k].path, res[k].params), arg.path)

\* "%41" becomes "A" wherever it stands; "%00" and digits that are none are
\* refused (400); a % without two characters behind it is text; and the string's
\* end is copied.
PercentDecoded ==
    fn = "percent" =>
        IF \E i \in DOMAIN arg : arg[i] \in {"%00", "%G1"} THEN res.err = 1
        ELSE /\ res.err = 0
             /\ res.output = Append(FlattenSeq([i \in DOMAIN arg |->
                                        IF arg[i] = "%41" THEN <<"A">> ELSE AtomText(arg[i])]), "NUL")

\* An extension has the type of the last line that gives it (sendfile's
\* Content-Type), however the table grew, unless an extension with the same
\* hash took its slot or it ends a file without a line's end.
MimeTypesFound ==
    fn = "mime" =>
        LET given(l) == IF arg[l].ended THEN ToSet(arg[l].exts) ELSE ToSet(AllButLast(arg[l].exts))
            after(l) == UNION {given(j) : j \in l + 1 .. Len(arg)}
        IN /\ \A l \in DOMAIN arg : \A e \in given(l) :
                 e \notin after(l) /\ (\A x \in given(l) \cup after(l) : x # e => HashOf[x] # HashOf[e]) =>
                     map_get(res, e) = arg[l].type
           /\ \A e \in DOMAIN HashOf \ after(0) : map_get(res, e) = "NULL"

\* A URL's parts are found unless its path has a colon: with a port the colon is
\* lost, without one the path is taken for the domain and the rest for the port.
UrlParsed == fn = "url" => (res = arg <=> ~(arg.path # NoText /\ Contains(arg.path, ":")))

\* The parsers find in a text what was written into it (net/util.c, net.c, util.c).
TextsParsed ==
    HeaderParsed /\ CookiesParsed /\ QueryParsed /\ PercentDecoded /\ UrlParsed /\ MimeTypesFound
=============================================================================
