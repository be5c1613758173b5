----------------------------- MODULE HttpClient -----------------------------
(***************************************************************************)
(* net.request: the response is read in whatever pieces the network gives, *)
(* first up to the end of the header, then by the stream that the program  *)
(* gets as "content" (stream:read, stream:file, close, __gc), decoded when *)
(* the transfer encoding is chunked.                                       *)
(*                                                                         *)
(* Bytes are named; a response is its header, its transfer encoding and    *)
(* its body: chunks, and the length line that the peer writes before each. *)
(***************************************************************************)
EXTENDS Bytes, SequencesExt

CONSTANTS Headers,     \* header blocks, each up to its first CR LF CR LF
          Bodies,      \* bodies: chunks, and their length lines
          MaxLens      \* values of the second argument of stream:file

\* Hexadecimal digits, in either case.
HexDigits == <<"0", "1", "2", "3", "4", "5", "6", "7", "8", "9", "a", "b", "c", "d", "e", "f">>
Digits == [d \in {HexDigits[i] : i \in 1 .. 16} |-> (CHOOSE i \in 1 .. 16 : HexDigits[i] = d) - 1]

\* What strtoll skips.
White == {"CR", "LF", " "}
SkipWhite(s) ==
    LET at == {i \in DOMAIN s : s[i] \notin White}
    IN IF at = {} THEN <<>> ELSE From(s, CHOOSE i \in at : \A j \in at : i <= j)

\* The number that the digits at the front of s make; zero if there are none.
Hex(s) ==
    LET run == {i \in DOMAIN s : \A j \in 1 .. i : s[j] \in DOMAIN Digits}
        V[i \in {0} \cup run] == IF i = 0 THEN 0 ELSE 16 * V[i - 1] + Digits[s[i]]
    IN IF run = {} THEN 0 ELSE V[Max(run)]

\* strtoll(s, NULL, 16): white space is skipped, reading stops at the first
\* byte that is no digit.
Strtoll(s) == Hex(SkipWhite(s))

\* The lines that say n: any number of digits, and perhaps a chunk extension.
LengthLine(l, n) ==
    /\ l \in Seq(Byte \ {"CR", "LF"})
    /\ \E k \in 1 .. Len(l) : /\ \A i \in 1 .. k : l[i] \in DOMAIN Digits
                             /\ k < Len(l) => l[k + 1] = ";"
    /\ Strtoll(l) = n

MaxInt == 2147483647

\* The peer's length lines are right, the one of the empty last chunk included,
\* and the lengths fit the int that the decoder keeps them in.
ASSUME ClientAssumption ==
    /\ \A h \in Headers : /\ h \in Seq(Byte) /\ Len(h) >= 4
                         /\ \A i \in 1 .. Len(h) - 3 :
                               SubSeq(h, i, i + 3) = CRLF \o CRLF <=> i = Len(h) - 3
    /\ \A b \in Bodies :
         /\ b.chunks \in Seq(Seq(Byte)) /\ DOMAIN b.lines = 1 .. Len(b.chunks) + 1
         /\ \A i \in DOMAIN b.chunks : /\ 0 < Len(b.chunks[i]) /\ Len(b.chunks[i]) <= MaxInt
                                      /\ LengthLine(b.lines[i], Len(b.chunks[i]))
         /\ LengthLine(b.lines[Len(b.chunks) + 1], 0)

VARIABLES
    resp,    \* the response: te, body; whether the peer closes or
             \* the connection breaks; whether the status line has three words
    rest,    \* bytes that have not been read
    hbuf,    \* the bytes read for the header (a)
    cpc,     \* where the caller is
    chunk,   \* struct chunked_encoding_state
    extra,   \* request_state.buffer: body bytes that came with the header
    out,     \* the string a read fills
    got,     \* all that reads have returned and files have been given
    file,    \* stream:file: its maximal length and what it wrote; NoFile
    freed,   \* whether the stream's state was freed
    closed   \* whether the program has called close

clientVars == <<resp, rest, hbuf, cpc, chunk, extra, out, got, file, freed, closed>>

NoBuffer == <<"none">>
NoFile == [max |-> 0, total |-> 0, on |-> FALSE]
NoChunk == [reading |-> TRUE, len |-> 0, buf |-> <<>>, content |-> <<>>]
NoBody == [chunks |-> <<>>, lines |-> <<<<"0">>>>]
Ends == {"close", "break"}
-----------------------------------------------------------------------------
\* The peer's side: chunks as they go over the wire.
WireChunk(line, c) == line \o CRLF \o c \o CRLF
Wire(te, b) ==
    IF te = "chunked" THEN FlattenSeq([i \in DOMAIN b.chunks |-> WireChunk(b.lines[i], b.chunks[i])])
                           \o WireChunk(b.lines[Len(b.chunks) + 1], <<>>)
    ELSE FlattenSeq(b.chunks)
Content == FlattenSeq(resp.body.chunks)
-----------------------------------------------------------------------------
EndsLine(s) == Len(s) >= 2 /\ SubSeq(s, Len(s) - 1, Len(s)) = CRLF

\* One byte of a length line.  A line of length zero (the end of a chunk's
\* data, the last chunk) leaves the decoder reading lengths.
LengthByte(st, byte) ==
    LET buf == Append(st.buf, byte)
        n == Strtoll(SubSeq(buf, 1, Len(buf) - 2))
    IN IF EndsLine(buf) THEN [st EXCEPT !.len = n, !.buf = <<>>, !.reading = (n = 0)]
       ELSE [st EXCEPT !.buf = buf]

\* The mutant forgets what an earlier piece left in the buffer.
DataTakeWhole(st, input, i) ==
    LET left == st.len
        there == Len(input) - i + 1
    IN IF left < there THEN left ELSE there

\* lesser(state->chunk_length - state->buffer->len, length - i)
DataTake(st, input, i) ==
    LET left == st.len - Len(st.buf)
        there == Len(input) - i + 1
    IN IF left < there THEN left ELSE there

\* The mutant delivers a chunk as soon as part of it is there.
DataBytesEager(st, bytes) ==
    [st EXCEPT !.reading = TRUE, !.content = @ \o st.buf \o bytes, !.buf = <<>>]

DataBytes(st, bytes) ==
    LET buf == st.buf \o bytes
    IN IF Len(buf) >= st.len
       THEN [st EXCEPT !.reading = TRUE, !.content = @ \o buf, !.buf = <<>>]
       ELSE [st EXCEPT !.buf = buf]

\* A round of the loop of chunked_encoding_round: after data, i is advanced past
\* one more byte (the CR) by the loop itself.
ChunkRound(input, p) ==
    IF p.i > Len(input) THEN p
    ELSE IF p.st.reading
    THEN [i |-> p.i + 1, st |-> LengthByte(p.st, input[p.i])]
    ELSE LET k == DataTake(p.st, input, p.i)
         IN [i |-> p.i + k + 1, st |-> DataBytes(p.st, SubSeq(input, p.i, p.i + k - 1))]

chunked_encoding_round(input, st0) ==
    LET Round[n \in 0 .. Len(input)] ==
            IF n = 0 THEN [i |-> 1, st |-> st0] ELSE ChunkRound(input, Round[n - 1])
    IN Round[Len(input)].st
-----------------------------------------------------------------------------
ClientInit ==
    /\ resp = [te |-> "none", body |-> NoBody, end |-> "close", ok |-> TRUE]
    /\ rest = <<>>
    /\ hbuf = <<>>
    /\ cpc = "unused"
    /\ chunk = NoChunk
    /\ extra = NoBuffer
    /\ out = <<>>
    /\ got = <<>>
    /\ file = NoFile
    /\ freed = FALSE
    /\ closed = FALSE

\* _request connects and sends; the peer answers as it likes, and may stop
\* before the end of the header.
Request(h, te, b, end, ok) ==
    /\ cpc = "unused"
    /\ cpc' = "header"
    /\ resp' = [te |-> te, body |-> b, end |-> end, ok |-> ok]
    /\ \/ rest' = h \o Wire(te, b)
       \/ te = "none" /\ b.chunks = <<>> /\ rest' = Front(h)
    /\ UNCHANGED <<hbuf, chunk, extra, out, got, file, freed, closed>>

Piece(n) == SubSeq(rest, 1, n)
TakeRest(n) == rest' = From(rest, n + 1)

\* The first end of header in the last bytes of the buffer: the new piece of n
\* bytes and up to back bytes before it; 0 if there is none.
EndIn(buf, n, back) == memmem(buf, Len(buf) - n - back + 1, CRLF \o CRLF)

\* blen >= 4 ? 4 : blen
SearchBack(blen) == IF blen >= 4 THEN 4 ELSE blen

\* A piece of the header.  When its end is found the header is parsed, and what
\* came after it goes to the decoder, to the stream's buffer, or nowhere (an
\* encoding other than chunked).
HeaderPiece(n) ==
    /\ cpc = "header"
    /\ n \in 1 .. Len(rest)
    /\ TakeRest(n)
    /\ hbuf' = hbuf \o Piece(n)
    /\ LET e == EndIn(hbuf', n, SearchBack(Len(hbuf)))
           after == From(hbuf', e + 4)
       IN IF e = 0 THEN UNCHANGED <<cpc, chunk, extra>>
          ELSE IF ~resp.ok THEN cpc' = "abort" /\ UNCHANGED <<chunk, extra>>
          ELSE /\ cpc' = "idle"
               /\ chunk' = IF resp.te = "chunked"
                           THEN chunked_encoding_round(after, NoChunk) ELSE chunk
               /\ extra' = CASE resp.te = "none" -> after
                             [] resp.te = "chunked" -> <<>>
                             [] OTHER -> NoBuffer
    /\ UNCHANGED <<resp, out, got, file, freed, closed>>

\* read returns 0 or -1 before the header's end: an error is returned, and the
\* socket and the state are not freed.
HeaderFails ==
    /\ cpc = "header" /\ rest = <<>>
    /\ cpc' = "error"
    /\ UNCHANGED <<resp, rest, hbuf, chunk, extra, out, got, file, freed, closed>>
-----------------------------------------------------------------------------
\* _srequest_read starts with what the header's last piece left.
Begin == /\ cpc' = "reading"
         /\ out' = IF extra = NoBuffer THEN <<>> ELSE extra
         /\ extra' = NoBuffer

ReadCall ==
    /\ cpc = "idle" /\ ~freed
    /\ Begin
    /\ UNCHANGED <<resp, rest, hbuf, chunk, got, file, freed, closed>>

FileCall(max) ==
    /\ cpc = "idle" /\ ~freed
    /\ Begin
    /\ file' = [max |-> max, total |-> 0, on |-> TRUE]
    /\ UNCHANGED <<resp, rest, hbuf, chunk, got, freed, closed>>

BodyPiece(n) ==
    /\ cpc = "reading"
    /\ n \in 1 .. Len(rest)
    /\ TakeRest(n)
    /\ IF resp.te = "chunked"
       THEN chunk' = chunked_encoding_round(Piece(n), chunk) /\ UNCHANGED out
       ELSE out' = out \o Piece(n) /\ UNCHANGED chunk
    /\ UNCHANGED <<resp, hbuf, cpc, extra, got, file, freed, closed>>

Answer == IF resp.te = "chunked" THEN out \o chunk.content ELSE out

\* The mutant waits for a return value of 0, which this stream never gives.
FileDoneOnZero(total) == FALSE

\* "ret == 0 || totallen >= maxlen", where ret is always 1.
FileDone(total) == total >= file.max

\* The peer has closed: the read returns 1, and "more" stays true.  stream:file
\* reads again until it has written max bytes.
BodyEnd ==
    /\ cpc = "reading" /\ rest = <<>> /\ resp.end = "close"
    /\ got' = got \o Answer
    /\ chunk' = [chunk EXCEPT !.content = <<>>]
    /\ out' = <<>>
    /\ LET total == file.total + Len(Answer)
           over == file.on => FileDone(total)
       IN /\ cpc' = IF over THEN "idle" ELSE "reading"
          /\ file' = IF over THEN NoFile ELSE [file EXCEPT !.total = total]
    /\ UNCHANGED <<resp, rest, hbuf, extra, freed, closed>>

\* read returns -1, which is kept in a uint64_t and taken for a length.  The
\* decoder does nothing with a negative length and the loop reads again; the
\* error may have been reported once.  Without a decoder 2^64 - 1 bytes are
\* pushed.
BodyBreaks ==
    /\ cpc = "reading" /\ rest = <<>> /\ resp.end = "break"
    /\ IF resp.te = "chunked"
       THEN (\E end \in Ends : resp' = [resp EXCEPT !.end = end]) /\ UNCHANGED cpc
       ELSE cpc' = "wild" /\ UNCHANGED resp
    /\ UNCHANGED <<rest, hbuf, chunk, extra, out, got, file, freed, closed>>

\* _srequest_free; a second call frees the state again.
FreeStream(next) == freed' = TRUE /\ cpc' = IF freed THEN "wild" ELSE next

\* stream:close
StreamClose ==
    /\ cpc = "idle"
    /\ FreeStream("idle")
    /\ closed' = TRUE
    /\ UNCHANGED <<resp, rest, hbuf, chunk, extra, out, got, file>>

\* The collector, once the program has dropped the stream.
StreamGc ==
    /\ cpc = "idle"
    /\ FreeStream("gone")
    /\ UNCHANGED <<resp, rest, hbuf, chunk, extra, out, got, file, closed>>

\* stream:read after stream:close.
ReadFreed ==
    /\ cpc = "idle" /\ freed
    /\ cpc' = "wild"
    /\ UNCHANGED <<resp, rest, hbuf, chunk, extra, out, got, file, freed, closed>>

Network == BodyEnd \/ BodyBreaks \/ \E n \in 1 .. Len(rest) : BodyPiece(n)

ClientNext ==
    \/ \E h \in Headers, te \in {"none", "chunked", "other"}, b \in Bodies,
         end \in Ends, ok \in BOOLEAN : Request(h, te, b, end, ok)
    \/ \E n \in 1 .. Len(rest) : HeaderPiece(n)
    \/ HeaderFails \/ ReadCall \/ StreamClose \/ StreamGc \/ ReadFreed
    \/ \E max \in MaxLens : FileCall(max)
    \/ Network

\* The network goes on while a read waits for it.
ClientFairness == WF_clientVars(Network)
-----------------------------------------------------------------------------
ClientTypeOK ==
    /\ cpc \in {"unused", "header", "idle", "reading", "error", "abort", "wild", "gone"}
    /\ chunk.len \in Nat /\ chunk.reading \in BOOLEAN
    /\ ~chunk.reading => Len(chunk.buf) < chunk.len
    /\ file.total <= Len(Content)
    /\ freed \in BOOLEAN /\ closed \in BOOLEAN

\* However the response is split, what was decoded so far is a prefix of what
\* the peer sent (net.c 89-120, 579-588), bytes that look like line ends or
\* lengths included.
DecodedIsPrefix ==
    resp.te # "other" /\ cpc \in {"idle", "reading"} =>
        IsPrefix(got \o (IF extra = NoBuffer THEN out ELSE extra) \o chunk.content, Content)

\* Once the peer has closed and a call has returned, the program has the whole
\* content, whether it came with the header or later.
ContentComplete ==
    resp.te # "other" /\ cpc = "idle" /\ rest = <<>> /\ extra = NoBuffer =>
        got \o chunk.content = Content

\* The content of a response is delivered, in order and complete.
ContentDelivered == DecodedIsPrefix /\ ContentComplete

\* The end of the header is found in every split: the reader runs to the end of
\* what the peer sent only when there is none (net.c 579-588).
HeaderFound == cpc = "error" => EndIn(hbuf, Len(hbuf), 0) = 0

\* A stream's state is freed twice, or used after it was freed, only by a
\* program that calls close (lua.c 110-123, 140): otherwise just a broken
\* connection without a decoder is undefined behaviour.
WildOnlyAfterClose ==
    cpc = "wild" => closed \/ (resp.te # "chunked" /\ resp.end = "break")

\* A read, or a file that asks for no more than there is, returns once the
\* peer has closed (lua.c 87-104, net.c 443-458).
CallReturns ==
    (cpc = "reading" /\ resp.end = "close" /\ resp.te # "other"
        /\ got = <<>> /\ file.max <= Len(Content)) ~> cpc # "reading"
=============================================================================
