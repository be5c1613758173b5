--------------------------- MODULE RequestReader ----------------------------
(***************************************************************************)
(* The server's side of a request: recv_header reads up to the end of the  *)
(* header, rolling_file_parse takes the rest of that read and then what    *)
(* req:roll reads.  A body is plain, or a form of parts (files) separated  *)
(* by lines with a boundary; the boundary has no dashes, or some, which    *)
(* the parser drops.  Bytes are names.                                     *)
(*                                                                         *)
(* Where the C code reads outside its buffer or follows a null pointer,    *)
(* the parse state is "wild".                                              *)
(***************************************************************************)
EXTENDS Bytes, SequencesExt

CONSTANTS RequestHeaders,  \* header blocks, each up to its first CR LF CR LF
          Forms,           \* bodies as sequences of parts
          PlainBodies,
          Boundary,        \* a boundary without dashes
          DashedBoundary,
          Parameter,       \* the value of a parameter that is no boundary
          MaxHeader        \* MAX_HEADER_SIZE

Line == [key : Seq(Byte), value : Seq(Byte)]
Part == [head : Seq(Line), content : Seq(Byte)]

\* The end of a header is behind its first four bytes, as a request line has
\* more.
ASSUME RequestAssumption ==
    /\ \A h \in RequestHeaders : /\ h \in Seq(Byte) /\ Len(h) >= 8
                                 /\ \A i \in 1 .. Len(h) - 3 :
                                       SubSeq(h, i, i + 3) = CRLF \o CRLF <=> i = Len(h) - 3
    /\ \A b \in PlainBodies : b \in Seq(Byte)
    /\ \A ps \in Forms : ps \in Seq(Part)
    /\ Boundary \in Seq(Byte \ {"CR", "LF", "-"}) /\ Boundary # <<>>
    /\ DashedBoundary \in Seq(Byte) /\ \E i \in DOMAIN DashedBoundary : DashedBoundary[i] = "-"

VARIABLES
    reqst,   \* the request: type of content ("none", "plain", "params", "form"),
             \* boundary, parts, body
    inp,     \* bytes that have not been received
    rbuf,    \* the buffer of recv_header
    rpc,     \* where the handler is
    fp,      \* struct file_parse, with the files and the body it fills
    sliced   \* whether a read ended inside a boundary line

requestVars == <<reqst, inp, rbuf, rpc, fp, sliced>>

NoParse == [status |-> "ignore", current |-> <<>>, old |-> <<>>, keyed |-> FALSE,
           boundary |-> <<>>, files |-> <<>>, body |-> <<>>]
NewFile == [head |-> <<>>, content |-> <<"none">>]
-----------------------------------------------------------------------------
\* The client's side.
HeadLine(h) == h.key \o <<":", " ">> \o h.value \o CRLF
Dashes == <<"-", "-">>
WirePart(p, b) == Dashes \o b \o CRLF \o FlattenSeq([i \in DOMAIN p.head |-> HeadLine(p.head[i])])
                  \o CRLF \o p.content \o CRLF
WireForm(ps, b) == FlattenSeq([i \in DOMAIN ps |-> WirePart(ps[i], b)]) \o Dashes \o b \o Dashes \o CRLF

\* Offsets o of the body such that the parser's boundary line has bytes on both
\* sides of o.  It starts with the line end before the dashes, and after the
\* first one it goes on to the end of the next line.
LineStarts(r) == {i \in 1 .. Len(r.body) : memmem(r.body, i, Dashes \o r.boundary) = i}
InsideLine(r, o) ==
    \E i \in LineStarts(r) :
        LET end == memmem(r.body, i, <<"LF">>)
            next == IF i = 1 THEN 0 ELSE memmem(r.body, end + 1, <<"LF">>)
        IN o # 0 /\ o >= i - 2 /\ o < IF next = 0 THEN end ELSE next
-----------------------------------------------------------------------------
\* "if(state == 2 && content_type->c[i] != '-')": dashes are dropped.
Undash(b) == LET U[n \in 0 .. Len(b)] ==
                     IF n = 0 THEN <<>>
                     ELSE IF b[n] = "-" THEN U[n - 1] ELSE Append(U[n - 1], b[n])
             IN U[Len(b)]

\* Any type with a parameter (text/plain; charset=utf-8) is taken for a form,
\* and the parameter's value for the boundary.
HasParameter(r) == r.type \in {"form", "params"}
StartParse(r) == [NoParse EXCEPT !.status = IF HasParameter(r) THEN "barrier" ELSE "normal",
                           !.boundary = Undash(r.boundary)]

WildParse(st) == [st EXCEPT !.status = "wild"]
LastFile(st) == Len(st.files)

\* The parser goes through a buffer in rounds: what the status asks for is done
\* with the bytes that are left, and leaves fewer of them.
Parsed(st, buf) == [st |-> st, left |-> buf]

\* The rest of a boundary line; the next file starts two bytes after its CR.
Barrier(st, buf) ==
    LET cr == FirstOf(buf, "CR")
    IN IF cr = 0 THEN Parsed(st, <<>>)
       ELSE IF cr = Len(buf) THEN Parsed(WildParse(st), <<>>)   \* blen -= i + 2 underflows
       ELSE Parsed([st EXCEPT !.status = "fheader", !.files = Append(@, NewFile)],
                   From(buf, cr + 2))

\* One byte of a file's header.
FileHeader(st, c) ==
    CASE c = ":" -> [st EXCEPT !.old = st.current, !.keyed = TRUE, !.current = <<>>]
      [] c = "LF" /\ st.current = <<>> ->
           [st EXCEPT !.status = "fbody", !.keyed = FALSE, !.old = <<>>]
      [] c = "LF" /\ st.current # <<>> /\ ~st.keyed -> WildParse(st)
      [] c = "LF" /\ st.current # <<>> /\ st.keyed ->
           [st EXCEPT !.files[LastFile(st)].head =
                          Append(@, [key |-> st.old, value |-> st.current]),
                      !.keyed = FALSE, !.old = <<>>, !.current = <<>>]
      [] c = "CR" \/ (c = " " /\ st.current = <<>>) -> st
      [] OTHER -> [st EXCEPT !.current = Append(@, c)]

\* The mutant keeps the CR before the boundary line.
FileContentWithCR(current) == current
\* content.current->len - 1
FileContent(current) == Front(current)

\* A file's content, up to the line that has the boundary in it.
FileBody(st, buf) ==
    LET at == memmem(buf, 1, st.boundary)
        start == LastOf(SubSeq(buf, 1, at), "LF")
        end == at - 1 + FirstOf(From(buf, at), "LF")
        whole == st.current \o buf
        current == st.current \o SubSeq(buf, 1, start - 1)
    IN IF at = 0
       THEN Parsed(IF memmem(whole, 1, st.boundary) = 0 THEN [st EXCEPT !.current = whole]
                   ELSE [st EXCEPT !.status = "abort"], <<>>)
       ELSE IF start = 0 \/ end < at \/ current = <<>> THEN Parsed(WildParse(st), <<>>)
       ELSE Parsed([st EXCEPT !.files[LastFile(st)].content = FileContent(current),
                              !.current = <<>>, !.status = "barrier"],
                   From(buf, end))

ParseRound(p) ==
    IF p.left = <<>> THEN p
    ELSE CASE p.st.status = "barrier" -> Barrier(p.st, p.left)
           [] p.st.status = "fheader" -> Parsed(FileHeader(p.st, Head(p.left)), Tail(p.left))
           [] p.st.status = "fbody" -> FileBody(p.st, p.left)
           [] OTHER -> p

ParseForm(st, buf) ==
    LET Round[n \in 0 .. Len(buf)] ==
            IF n = 0 THEN Parsed(st, buf) ELSE ParseRound(Round[n - 1])
    IN Round[Len(buf)].st

\* The mutant starts the parser again with every read.
rolling_file_parseRestarts(r, st0, buf) ==
    LET st == StartParse(r)
    IN CASE r.type = "none" -> WildParse(st)
         [] st.status = "normal" -> [st EXCEPT !.body = st0.body \o buf]
         [] OTHER -> ParseForm(st, buf)

\* The first call sets the parser up, from a Content-Type that must be there.
rolling_file_parse(r, st0, buf) ==
    LET st == IF st0.status = "ignore" THEN StartParse(r) ELSE st0
    IN CASE r.type = "none" -> WildParse(st)
         [] r.type # "none" /\ st.status = "normal" -> [st EXCEPT !.body = @ \o buf]
         [] r.type # "none" /\ st.status # "normal" -> ParseForm(st, buf)
-----------------------------------------------------------------------------
NoRequest == [type |-> "none", boundary |-> <<>>, parts |-> <<>>, body |-> <<>>]

RequestInit ==
    /\ reqst = NoRequest
    /\ inp = <<>>
    /\ rbuf = <<>>
    /\ rpc = "unused"
    /\ fp = NoParse
    /\ sliced = FALSE

\* handle_client starts on request r of a client, which may stop in the header.
Accept(h, r) ==
    /\ rpc = "unused"
    /\ rpc' = "header"
    /\ reqst' = r
    /\ inp' \in {h \o r.body, Front(h)}
    /\ UNCHANGED <<rbuf, fp, sliced>>

PlainRequests(t) == {[NoRequest EXCEPT !.type = t, !.body = b] : b \in PlainBodies}
FormRequests(b) ==
    {[type |-> "form", boundary |-> b, parts |-> ps, body |-> WireForm(ps, b)] : ps \in Forms}
ParamRequests == {[r EXCEPT !.boundary = Parameter] : r \in PlainRequests("params")}
Requests == PlainRequests("none") \cup PlainRequests("plain") \cup ParamRequests
            \cup FormRequests(Boundary) \cup FormRequests(DashedBoundary)

\* The mutant looks back too little.
LookBackTwo(len) == IF len > 4 THEN 2 ELSE 0

\* How far the search for the header's end goes back: 4 bytes, but none when
\* there are at most 4 ("len - 4 > 0 ? len - 4 : len").
LookBack(len) == IF len > 4 THEN 4 ELSE 0

EndsInside(n) == InsideLine(reqst, Len(reqst.body) - (Len(inp) - n)) /\ n # Len(inp)

\* recv_header, one recv.  The rest of the last read goes to the parser when
\* the request has a Content-Type.
RecvHeader(n) ==
    /\ rpc = "header"
    /\ n \in 1 .. Len(inp)
    /\ inp' = From(inp, n + 1)
    /\ rbuf' = rbuf \o SubSeq(inp, 1, n)
    /\ LET e == memmem(rbuf', Len(rbuf) - LookBack(Len(rbuf)) + 1, CRLF \o CRLF)
       IN IF e = 0
          THEN /\ rpc' = IF Len(rbuf') >= MaxHeader THEN "large" ELSE rpc
               /\ UNCHANGED <<fp, sliced>>
          ELSE /\ rpc' = "route"
               /\ fp' = IF reqst.type = "none" THEN fp
                        ELSE rolling_file_parse(reqst, fp, From(rbuf', e + 4))
               /\ sliced' = (reqst.type = "form" /\ EndsInside(n))
    /\ UNCHANGED reqst

\* recv returns 0 or an error before the header's end.
RecvEnds ==
    /\ rpc = "header" /\ inp = <<>>
    /\ rpc' = "closed"
    /\ UNCHANGED <<reqst, inp, rbuf, fp, sliced>>

\* req:roll reads some of what is left of Content-Length bytes.
RollPiece(n) ==
    /\ rpc = "route"
    /\ fp.status \notin {"wild", "abort"}
    /\ n \in 1 .. Len(inp)
    /\ inp' = From(inp, n + 1)
    /\ fp' = rolling_file_parse(reqst, fp, SubSeq(inp, 1, n))
    /\ sliced' = (sliced \/ (reqst.type = "form" /\ EndsInside(n)))
    /\ UNCHANGED <<reqst, rbuf, rpc>>

RequestNext ==
    \/ \E h \in RequestHeaders, r \in Requests : Accept(h, r)
    \/ RecvEnds
    \/ \E n \in 1 .. Len(inp) : RecvHeader(n) \/ RollPiece(n)
-----------------------------------------------------------------------------
RequestTypeOK ==
    /\ rpc \in {"unused", "header", "large", "closed", "route"}
    /\ fp.status \in {"ignore", "normal", "barrier", "fheader", "fbody", "wild", "abort"}
    /\ fp.status \in {"fheader", "fbody"} => fp.files # <<>>

\* The header's end is found however the request is split (util.c 19-25).  The
\* search does not look back into the first four bytes, so this needs a header
\* of at least four, which every request line has.
RequestHeaderFound ==
    rpc \in {"closed", "large"} => memmem(rbuf, 1, CRLF \o CRLF) = 0

\* Forms that the parser can take apart: the boundary has no dashes and is in
\* no content; header lines have no further colon or line end and no blank at the
\* beginning of a key or value; from the second part on there is such a line.
Clear(s) == /\ \A i \in DOMAIN s : s[i] \notin {":", "CR", "LF"}
            /\ s # <<>> => s[1] # " "
ClearLine(h) == Clear(h.key) /\ Clear(h.value) /\ h.value # <<>>
Recognisable(r) ==
    /\ \A i \in DOMAIN r.boundary : r.boundary[i] # "-"
    /\ r.parts # <<>>
    /\ \A i \in DOMAIN r.parts :
        /\ memmem(r.parts[i].content, 1, r.boundary) = 0
        /\ \A j \in DOMAIN r.parts[i].head : ClearLine(r.parts[i].head[j])
        /\ i # 1 => r.parts[i].head # <<>>

\* The parser aborts, or leaves its buffer, only when a read ended inside a
\* boundary line, or when the request has no Content-Type or one with another
\* parameter (luai.c 57-66, 105-108, 157-172): a form that arrives at once, or
\* is split elsewhere, is parsed.
ParserFailsOnlyIfSliced ==
    fp.status \in {"wild", "abort"} =>
        \/ reqst.type \in {"none", "params"}
        \/ reqst.type = "form" /\ (sliced \/ ~Recognisable(reqst))

\* What the docs say of a boundary that two rolls share: its first bytes are
\* put in a buffer "until it ends or breaks a previous condition"
\* (docs/net/listen.md 189-209), so a form is parsed on (luai.c 157-168).
SlicedBoundaryIsBuffered ==
    reqst.type = "form" /\ Recognisable(reqst) => fp.status # "abort"

\* A form that was read to its end without such a split has its files: as many
\* as there were parts, with their contents; the first with its header, the
\* others without their first header line, which is taken for the rest of the
\* boundary line (luai.c 102-118, 170-180).
FilesArePartsOf(r) ==
    /\ Len(fp.files) = Len(r.parts)
    /\ \A i \in DOMAIN r.parts :
        /\ fp.files[i].content = r.parts[i].content
        /\ fp.files[i].head = IF i = 1 THEN r.parts[i].head ELSE Tail(r.parts[i].head)
FilesAreParts ==
    rpc = "route" /\ inp = <<>> /\ reqst.type = "form" /\ ~sliced /\ Recognisable(reqst)
        => FilesArePartsOf(reqst)

\* A plain body is collected byte for byte.
BodyIsCollected ==
    rpc = "route" /\ reqst.type = "plain" => fp.body \o inp = reqst.body

\* What roll gives the route is the body that was sent (luai.c 43-197).
BodiesParsed == FilesAreParts /\ BodyIsCollected
=============================================================================
