-------------------------- MODULE ConnectionsProofs --------------------------
(***************************************************************************)
(* Safety of the connections, for all frames, headers, bodies and splits.  *)
(* A step of one kind of connection leaves the variables of the others     *)
(* alone, so that each invariant is carried by the steps of its own kind.  *)
(***************************************************************************)
EXTENDS Connections, WebSocketProofs

allVars == <<clientVars, wsVars, requestVars>>

(* A step of the whole is one of the client, of the websocket or of the    *)
(* server, or none of its own.                                             *)
LEMMA StepsOfParts ==
    [Next]_allVars => /\ [ClientNext]_clientVars
                      /\ [WsNext]_wsVars
                      /\ [RequestNext]_requestVars
BY DEF Next, allVars

(* The messages read from a websocket are the peer's frames, in order,     *)
(* whatever their number, their lengths and the pieces in which they come. *)
THEOREM MessagesAreFramesRead == Spec => []MessagesAreFrames
<1>1. Init => WsInv
    BY WsInvInit DEF Init
<1>2. WsInv /\ [Next]_allVars => WsInv'
    BY StepsOfParts, WsInvNext
<1>3. WsInv => MessagesAreFrames
    BY WsInvFrames
<1> QED
    BY <1>1, <1>2, <1>3, PTL DEF Spec, allVars

(* The length of every frame that is written can be read back.             *)
THEOREM WrittenLengthsRead == Spec => []WrittenLengthReads
<1>1. Init => WroteInv
    BY WroteInvInit DEF Init
<1>2. WroteInv /\ [Next]_allVars => WroteInv'
    BY StepsOfParts, WroteInvNext
<1>3. WroteInv => WrittenLengthReads
    BY WroteInvReads
<1> QED
    BY <1>1, <1>2, <1>3, PTL DEF Spec, allVars

(* The state of a stream that is still there was freed by close only.      *)
FreeInv == /\ WildOnlyAfterClose
           /\ freed => closed \/ cpc = "gone"

(* Every step of the client keeps the invariant of freed streams.          *)
LEMMA FreeInvNext == FreeInv /\ [ClientNext]_clientVars => FreeInv'
<1> SUFFICES ASSUME FreeInv, [ClientNext]_clientVars PROVE FreeInv'
    OBVIOUS
<1> USE DEF FreeInv, WildOnlyAfterClose
<1>1. ASSUME NEW h, NEW te, NEW b, NEW end, NEW ok, Request(h, te, b, end, ok)
      PROVE  FreeInv'
    BY <1>1 DEF Request
<1>2. ASSUME NEW n, HeaderPiece(n)
      PROVE  FreeInv'
    <2>1. cpc = "header" /\ cpc' \in {"header", "abort", "idle"} /\ freed' = freed /\ closed' = closed
        BY <1>2 DEF HeaderPiece
    <2> QED
        BY <2>1
<1>3. CASE HeaderFails
    BY <1>3 DEF HeaderFails
<1>4. CASE ReadCall
    BY <1>4 DEF ReadCall, Begin
<1>5. CASE StreamClose
    BY <1>5 DEF StreamClose, FreeStream
<1>6. CASE StreamGc
    BY <1>6 DEF StreamGc, FreeStream
<1>7. CASE ReadFreed
    BY <1>7 DEF ReadFreed
<1>8. ASSUME NEW max, FileCall(max)
      PROVE  FreeInv'
    BY <1>8 DEF FileCall, Begin
<1>9. CASE BodyEnd
    <2>1. cpc = "reading" /\ cpc' \in {"idle", "reading"} /\ freed' = freed /\ closed' = closed
        BY <1>9 DEF BodyEnd
    <2> QED
        BY <2>1
<1>10. CASE BodyBreaks
    BY <1>10 DEF BodyBreaks
<1>11. ASSUME NEW n, BodyPiece(n)
       PROVE  FreeInv'
    BY <1>11 DEF BodyPiece
<1>12. CASE UNCHANGED clientVars
    BY <1>12 DEF clientVars
<1> QED
    BY <1>1, <1>2, <1>3, <1>4, <1>5, <1>6, <1>7, <1>8, <1>9, <1>10, <1>11, <1>12
       DEF ClientNext, Network

(* Every step of the websocket keeps its memory freed once at most.        *)
LEMMA WsFreedOnceNext == WsFreedOnce /\ [WsNext]_wsVars => WsFreedOnce'
BY DEF WsFreedOnce, WsNext, wsVars, Connect, Shake, WsPiece, ShakeFails, WsReadCall, WsReturn,
       WsEnd, WsBreaks, WsWrite, WsClose, WsUseClosed

(* A stream's and a websocket's memory is freed once, and not used         *)
(* afterwards, by every program that does not call close on a stream.      *)
THEOREM MemoryFreedOnce == Spec => []FreedOnce
<1>1. Init => FreeInv /\ WsFreedOnce
    BY DEF Init, ClientInit, WsInit, FreeInv, WildOnlyAfterClose, WsFreedOnce
<1>2. FreeInv /\ WsFreedOnce /\ [Next]_allVars => FreeInv' /\ WsFreedOnce'
    BY StepsOfParts, FreeInvNext, WsFreedOnceNext
<1>3. FreeInv /\ WsFreedOnce => FreedOnce
    BY DEF FreeInv, FreedOnce
<1> QED
    BY <1>1, <1>2, <1>3, PTL DEF Spec, allVars
-----------------------------------------------------------------------------
(* The end of a header: where it is in s, and where memmem finds it.       *)
Pat == CRLF \o CRLF
EndAt(s, i) == SubSeq(s, i, i + 3) = Pat

(* A header block ends at its first end.                                   *)
IsHeader(h) ==
    h \in Seq(Byte) /\ Len(h) >= 4 /\ \A i \in 1 .. Len(h) - 3 : EndAt(h, i) <=> i = Len(h) - 3

(* The headers of responses and of requests are such blocks.               *)
LEMMA HeaderBlocks == /\ \A h \in Headers : IsHeader(h)
                      /\ \A h \in RequestHeaders : IsHeader(h) /\ Len(h) >= 8
<1>1. ASSUME NEW h \in Headers PROVE IsHeader(h)
    BY ClientAssumption DEF IsHeader, EndAt, Pat
<1>2. ASSUME NEW h \in RequestHeaders PROVE IsHeader(h) /\ Len(h) >= 8
    <2>1. /\ h \in Seq(Byte) /\ Len(h) >= 8
          /\ \A i \in 1 .. Len(h) - 3 : SubSeq(h, i, i + 3) = CRLF \o CRLF <=> i = Len(h) - 3
        BY RequestAssumption
    <2>2. Len(h) >= 4
        BY <2>1
    <2> QED
        BY <2>1, <2>2 DEF IsHeader, EndAt, Pat
<1> QED
    BY <1>1, <1>2

(* The line end is two bytes.                                              *)
LEMMA LineEndBytes == CRLF \in Seq(Byte) /\ Len(CRLF) = 2
<1>1. "CR" \in Byte /\ "LF" \in Byte
    BY ByteNames
<1>2. PICK x, y : x = "CR" /\ y = "LF"
    OBVIOUS
<1>3. x \in Byte /\ y \in Byte /\ CRLF = <<x, y>>
    BY <1>1, <1>2 DEF CRLF
<1>4. <<x, y>> \in Seq(Byte) /\ Len(<<x, y>>) = 2
    BY <1>3
<1> QED
    BY <1>3, <1>4

(* The pattern that ends a header is four bytes long.                      *)
LEMMA PatIsFour == Len(Pat) = 4
<1>1. PICK c \in Seq(Byte) : c = CRLF /\ Len(c) = 2
    BY LineEndBytes
<1>2. Len(c \o c) = Len(c) + Len(c)
    BY ConcatProperties
<1> QED
    BY <1>1, <1>2 DEF Pat

(* memmem gives 0 just when the pattern is at no place from where it looks.*)
LEMMA NotFound ==
    ASSUME NEW s \in Seq(Byte), NEW from \in Nat, from # 0
    PROVE  memmem(s, from, CRLF \o CRLF) = 0 <=> \A i \in from .. Len(s) - 3 : ~EndAt(s, i)
<1> DEFINE at == {i \in from .. Len(s) - 3 : EndAt(s, i)}
<1>1. memmem(s, from, Pat) = IF at = {} THEN 0 ELSE CHOOSE i \in at : \A j \in at : i <= j
    <2>1. PICK k : k = Len(Pat)
        OBVIOUS
    <2>2. k = 4
        BY <2>1, PatIsFour
    <2>3. memmem(s, from, Pat) =
             LET u == {i \in from .. Len(s) + 1 - k : SubSeq(s, i, i + k - 1) = Pat}
             IN IF u = {} THEN 0 ELSE CHOOSE i \in u : \A j \in u : i <= j
        BY <2>1 DEF memmem
    <2>4. {i \in from .. Len(s) + 1 - k : SubSeq(s, i, i + k - 1) = Pat} = at
        <3>1. Len(s) + 1 - k = Len(s) - 3 /\ Len(s) \in Nat
            BY <2>2
        <3>2. \A i \in from .. Len(s) - 3 : i + k - 1 = i + 3
            BY <2>2, <3>1
        <3> QED
            BY <3>1, <3>2 DEF EndAt
    <2> QED
        BY <2>3, <2>4
<1>2. at \in SUBSET Nat /\ 0 \notin at
    OBVIOUS
<1>3. at # {} => memmem(s, from, Pat) # 0
    <2> HIDE DEF at
    <2> SUFFICES ASSUME at # {} PROVE memmem(s, from, Pat) # 0
        OBVIOUS
    <2>1. \E x \in at : \A y \in at : x <= y
        BY <1>2, LeastOfNaturals
    <2>2. (CHOOSE i \in at : \A j \in at : i <= j) \in at
        BY <2>1
    <2> QED
        BY <1>1, <1>2, <2>2
<1>4. memmem(s, from, Pat) = 0 <=> at = {}
    <2> HIDE DEF at
    <2> QED
        BY <1>1, <1>3
<1> QED
    BY <1>4 DEF Pat

(* What a piece adds leaves the bytes before it where they are.            *)
LEMMA EndInPrefix ==
    ASSUME NEW a \in Seq(Byte), NEW b \in Seq(Byte), NEW i \in 1 .. Len(a) - 3
    PROVE  EndAt(a \o b, i) <=> EndAt(a, i)
<1>1. PICK c : c = a \o b
    OBVIOUS
<1>2. c \in Seq(Byte) /\ Len(c) = Len(a) + Len(b) /\ \A j \in 1 .. Len(a) : c[j] = a[j]
    BY <1>1
<1>3. PICK u, v : u = SubSeq(c, i, i + 3) /\ v = SubSeq(a, i, i + 3)
    OBVIOUS
<1>4. u \in Seq(Byte) /\ Len(u) = 4 /\ \A j \in 1 .. 4 : u[j] = c[i + j - 1]
    BY <1>2, <1>3
<1>5. v \in Seq(Byte) /\ Len(v) = 4 /\ \A j \in 1 .. 4 : v[j] = a[i + j - 1]
    BY <1>3
<1>6. \A j \in 1 .. 4 : u[j] = v[j]
    <2> SUFFICES ASSUME NEW j \in 1 .. 4 PROVE u[j] = v[j]
        OBVIOUS
    <2>1. i + j - 1 \in 1 .. Len(a)
        OBVIOUS
    <2> QED
        BY <1>2, <1>4, <1>5, <2>1
<1>7. u = v
    BY <1>4, <1>5, <1>6, SeqEqual
<1> QED
    BY <1>1, <1>3, <1>7 DEF EndAt

(* A search that starts at most three bytes before the end of what was     *)
(* there finds whatever the new piece completes.                           *)
LEMMA NoEndAfterPiece ==
    ASSUME NEW a \in Seq(Byte), NEW b \in Seq(Byte), NEW from \in Nat, from # 0,
           \A i \in 1 .. Len(a) - 3 : ~EndAt(a, i),
           \A i \in 1 .. Len(a \o b) - 3 : i < from => i <= Len(a) - 3 \/ ~EndAt(a \o b, i),
           memmem(a \o b, from, CRLF \o CRLF) = 0
    PROVE  \A i \in 1 .. Len(a \o b) - 3 : ~EndAt(a \o b, i)
<1>1. PICK c : c = a \o b
    OBVIOUS
<1>2. c \in Seq(Byte)
    BY <1>1, ConcatProperties
<1>3. \A i \in from .. Len(c) - 3 : ~EndAt(c, i)
    BY <1>1, <1>2, NotFound
<1>4. \A i \in 1 .. Len(a) - 3 : ~EndAt(c, i)
    BY <1>1, EndInPrefix
<1>5. ASSUME NEW i \in 1 .. Len(c) - 3
      PROVE  ~EndAt(c, i)
    <2>1. CASE i < from
        <3>1. i <= Len(a) - 3 \/ ~EndAt(c, i)
            BY <1>1, <2>1
        <3>2. CASE i <= Len(a) - 3
            <4>1. i \in 1 .. Len(a) - 3
                BY <3>2
            <4> QED
                BY <1>4, <4>1
        <3> QED
            BY <3>1, <3>2
    <2>2. CASE ~(i < from)
        <3>1. i \in from .. Len(c) - 3
            BY <2>2
        <3> QED
            BY <1>3, <3>1
    <2> QED
        BY <2>1, <2>2
<1> QED
    BY <1>1, <1>5

(* Everything that comes over the wire is a sequence of bytes.             *)
LEMMA FlattenTyped ==
    ASSUME NEW S, NEW ss \in Seq(Seq(S))
    PROVE  FlattenSeq(ss) \in Seq(S)
<1>1. PICK f \in [0 .. Len(ss) -> Seq(S)] : f[Len(ss)] = FlattenSeq(ss)
    BY FlattenPrefixes
<1>2. Len(ss) \in 0 .. Len(ss)
    OBVIOUS
<1> QED
    BY <1>1, <1>2

(* Sequences of bytes are closed under concatenation.                      *)
LEMMA ConcatBytes == \A a, b \in Seq(Byte) : a \o b \in Seq(Byte)
BY ConcatProperties

(* The lines without a line end in them that say n.                        *)
LineFor(n) == {l \in Seq(Byte) : (\A i \in 1 .. Len(l) : l[i] \notin {"CR", "LF"}) /\ Strtoll(l) = n}

(* What a body has: chunks that are not empty, and a line for each.        *)
IsBody(b) ==
    /\ b.chunks \in Seq(Seq(Byte)) /\ DOMAIN b.chunks = 1 .. Len(b.chunks) /\ Len(b.chunks) \in Nat
    /\ \A i \in 1 .. Len(b.chunks) :
          /\ b.chunks[i] \in Seq(Byte) /\ Len(b.chunks[i]) # 0
          /\ b.lines[i] \in LineFor(Len(b.chunks[i]))
    /\ b.lines[Len(b.chunks) + 1] \in LineFor(0)

(* Every body has it.                                                      *)
LEMMA BodyParts == ASSUME NEW b \in Bodies PROVE IsBody(b)
<1>1. ASSUME NEW l, NEW n, LengthLine(l, n) PROVE l \in LineFor(n)
    <2>1. PICK N : N = Byte \ {"CR", "LF"}
        OBVIOUS
    <2>2. l \in Seq(N) /\ Strtoll(l) = n
        BY <1>1, <2>1 DEF LengthLine
    <2>3. \A i \in 1 .. Len(l) : l[i] \in N
        BY <2>2
    <2>4. N \subseteq Byte /\ \A c \in N : c \notin {"CR", "LF"}
        BY <2>1
    <2>5. l \in Seq(Byte)
        BY <2>2, <2>4
    <2> QED
        BY <2>2, <2>3, <2>4, <2>5 DEF LineFor
<1>2. PICK cs, ls : cs = b.chunks /\ ls = b.lines
    OBVIOUS
<1>3. /\ cs \in Seq(Seq(Byte))
      /\ \A i \in DOMAIN cs : 0 < Len(cs[i]) /\ LengthLine(ls[i], Len(cs[i]))
      /\ LengthLine(ls[Len(cs) + 1], 0)
    BY <1>2, ClientAssumption
<1>4. DOMAIN cs = 1 .. Len(cs) /\ Len(cs) \in Nat /\ \A i \in 1 .. Len(cs) : cs[i] \in Seq(Byte)
    BY <1>3
<1>5. \A i \in 1 .. Len(cs) : Len(cs[i]) # 0 /\ ls[i] \in LineFor(Len(cs[i]))
    BY <1>1, <1>3, <1>4
<1>6. ls[Len(cs) + 1] \in LineFor(0)
    BY <1>1, <1>3
<1> QED
    BY <1>2, <1>3, <1>4, <1>5, <1>6 DEF IsBody

(* A chunk as it goes over the wire is a sequence of bytes.                *)
LEMMA WireChunkTyped ==
    ASSUME NEW l \in Seq(Byte), NEW c \in Seq(Byte)
    PROVE  WireChunk(l, c) \in Seq(Byte)
BY ConcatBytes, LineEndBytes DEF WireChunk

(* The chunks of body b as they go over the wire.                          *)
WireChunks(b) == [i \in DOMAIN b.chunks |-> WireChunk(b.lines[i], b.chunks[i])]

(* They are sequences of bytes.                                            *)
LEMMA WireChunksTyped ==
    ASSUME NEW b \in Bodies
    PROVE  WireChunks(b) \in Seq(Seq(Byte))
<1>1. IsBody(b)
    BY BodyParts
<1>2. PICK n \in Nat : n = Len(b.chunks) /\ DOMAIN b.chunks = 1 .. n
    BY <1>1 DEF IsBody
<1>3. \A i \in 1 .. n : WireChunk(b.lines[i], b.chunks[i]) \in Seq(Byte)
    BY <1>1, <1>2, WireChunkTyped DEF IsBody, LineFor
<1> QED
    BY <1>2, <1>3 DEF WireChunks

(* What the peer sends for a body, plainly or in chunks, is a sequence of  *)
(* bytes.                                                                  *)
LEMMA WireTyped ==
    ASSUME NEW te, NEW b \in Bodies
    PROVE  Wire(te, b) \in Seq(Byte)
<1>1. b.chunks \in Seq(Seq(Byte)) /\ b.lines[Len(b.chunks) + 1] \in Seq(Byte)
    BY BodyParts DEF IsBody, LineFor
<1>2. PICK f, z : f = FlattenSeq(WireChunks(b)) /\ z = WireChunk(b.lines[Len(b.chunks) + 1], <<>>)
    OBVIOUS
<1>3. f \in Seq(Byte) /\ FlattenSeq(b.chunks) \in Seq(Byte)
    BY <1>1, <1>2, WireChunksTyped, FlattenTyped
<1>4. z \in Seq(Byte)
    <2>1. <<>> \in Seq(Byte)
        OBVIOUS
    <2> QED
        BY <1>1, <1>2, <2>1, WireChunkTyped
<1>5. f \o z \in Seq(Byte)
    BY <1>3, <1>4, ConcatBytes
<1>6. Wire(te, b) = IF te = "chunked" THEN f \o z ELSE FlattenSeq(b.chunks)
    BY <1>2 DEF Wire, WireChunks
<1> QED
    BY <1>3, <1>5, <1>6

(* The client: what it has of the header before it finds the end has none. *)
HeadInv ==
    /\ cpc = "unused" => hbuf = <<>>
    /\ cpc \in {"header", "error"} =>
         /\ hbuf \in Seq(Byte) /\ rest \in Seq(Byte)
         /\ \A i \in 1 .. Len(hbuf) - 3 : ~EndAt(hbuf, i)

(* A piece of the header keeps the client's search invariant: its search   *)
(* goes back to every place where the end could begin and no earlier       *)
(* search could have found it.                                             *)
LEMMA HeadInvPiece == ASSUME HeadInv, NEW n, HeaderPiece(n) PROVE HeadInv'
<1>1. PICK a, r, b : a = hbuf /\ r = rest /\ b = SubSeq(rest, 1, n)
    OBVIOUS
<1>2. cpc = "header" /\ n \in 1 .. Len(r) /\ rest' = SubSeq(r, n + 1, Len(r)) /\ hbuf' = a \o b
    BY <1>1 DEF HeaderPiece, TakeRest, From, Piece
<1>3. a \in Seq(Byte) /\ r \in Seq(Byte) /\ \A i \in 1 .. Len(a) - 3 : ~EndAt(a, i)
    BY <1>1, <1>2 DEF HeadInv
<1>4. b \in Seq(Byte) /\ Len(b) = n /\ rest' \in Seq(Byte)
    BY <1>1, <1>2, <1>3
<1>5. PICK c : c = a \o b
    OBVIOUS
<1>6. c \in Seq(Byte) /\ Len(c) = Len(a) + n /\ Len(a) \in Nat
    <2>1. Len(a \o b) = Len(a) + Len(b) /\ a \o b \in Seq(Byte)
        BY <1>3, <1>4, ConcatProperties
    <2> QED
        BY <1>3, <1>4, <1>5, <2>1
<1>7. PICK from : from = Len(c) - n - SearchBack(Len(a)) + 1
    OBVIOUS
<1>8. /\ from \in Nat /\ from # 0
      /\ \A i \in 1 .. Len(c) - 3 : i < from => i <= Len(a) - 3
    <2>1. PICK l, k : l = Len(a) /\ k = SearchBack(Len(a))
        OBVIOUS
    <2>2. l \in Nat /\ k \in Nat /\ ((k = 4 /\ l >= 4) \/ k = l)
        BY <1>6, <2>1 DEF SearchBack
    <2>3. n \in Nat /\ Len(c) = l + n
        BY <1>2, <1>6, <2>1
    <2>4. from = l - k + 1
        BY <1>7, <2>1, <2>2, <2>3
    <2>5. from \in Nat /\ from # 0 /\ \A i \in Nat : i # 0 /\ i < from => i <= l - 3
        BY <2>2, <2>4
    <2> QED
        BY <2>1, <2>5
<1>9. memmem(c, from, CRLF \o CRLF) = 0 => \A i \in 1 .. Len(c) - 3 : ~EndAt(c, i)
    BY <1>3, <1>4, <1>5, <1>8, NoEndAfterPiece
<1>10. \/ cpc' = "header" /\ memmem(c, from, CRLF \o CRLF) = 0
       \/ cpc' \in {"abort", "idle"}
    BY <1>1, <1>2, <1>5, <1>7 DEF HeaderPiece, EndIn
<1> QED
    BY <1>2, <1>4, <1>5, <1>6, <1>9, <1>10 DEF HeadInv

(* Every step of the client keeps the search invariant.                    *)
LEMMA HeadInvNext == HeadInv /\ [ClientNext]_clientVars => HeadInv'
<1> SUFFICES ASSUME HeadInv, [ClientNext]_clientVars PROVE HeadInv'
    OBVIOUS
<1>1. ASSUME NEW h \in Headers, NEW te, NEW b \in Bodies, NEW end, NEW ok, Request(h, te, b, end, ok)
      PROVE  HeadInv'
    <2>1. hbuf' = <<>> /\ cpc' = "header"
        BY <1>1 DEF Request, HeadInv
    <2>2. h \in Seq(Byte) /\ Len(h) >= 4
        BY ClientAssumption
    <2>3. rest' \in Seq(Byte)
        <3>1. Front(h) \in Seq(Byte)
            <4>1. 1 \in 1 .. Len(h) + 1 /\ Len(h) - 1 \in 0 .. Len(h)
                BY <2>2
            <4> QED
                BY <2>2 DEF Front
        <3>2. h \o Wire(te, b) \in Seq(Byte)
            BY <2>2, WireTyped, ConcatBytes
        <3> QED
            BY <1>1, <3>1, <3>2 DEF Request
    <2>4. <<>> \in Seq(Byte) /\ Len(<<>>) = 0 /\ 1 .. 0 - 3 = {}
        OBVIOUS
    <2> QED
        BY <2>1, <2>3, <2>4 DEF HeadInv
<1>2. ASSUME NEW n, HeaderPiece(n)
      PROVE  HeadInv'
    BY <1>2, HeadInvPiece
<1>3. CASE HeaderFails
    BY <1>3 DEF HeaderFails, HeadInv
<1>4. CASE UNCHANGED clientVars
    BY <1>4 DEF clientVars, HeadInv
<1>5. CASE cpc' \notin {"unused", "header", "error"}
    BY <1>5 DEF HeadInv
<1>6. \/ \E h \in Headers, b \in Bodies : \E te, end, ok : Request(h, te, b, end, ok)
      \/ \E n : HeaderPiece(n)
      \/ HeaderFails \/ UNCHANGED clientVars \/ cpc' \notin {"unused", "header", "error"}
    BY DEF ClientNext, Network, ReadCall, Begin, StreamClose, StreamGc, FreeStream, ReadFreed,
           FileCall, BodyEnd, BodyBreaks, BodyPiece
<1> QED
    BY <1>1, <1>2, <1>3, <1>4, <1>5, <1>6

(* The server: its search does not go back into the first four bytes, so   *)
(* that there must be no end in what they and the bytes to come make.      *)
ReqInv ==
    /\ rpc = "unused" => rbuf = <<>>
    /\ rpc \in {"header", "closed", "large"} =>
         /\ rbuf \in Seq(Byte) /\ inp \in Seq(Byte)
         /\ \A i \in 1 .. Len(rbuf) - 3 : ~EndAt(rbuf, i)
         /\ \A i \in 1 .. 4 : i <= Len(rbuf \o inp) - 3 => ~EndAt(rbuf \o inp, i)

(* The bytes of a form are a sequence of bytes.                            *)
LEMMA FormTyped ==
    ASSUME NEW ps \in Forms, NEW b \in Seq(Byte)
    PROVE  WireForm(ps, b) \in Seq(Byte)
<1>1. /\ DOMAIN ps = 1 .. Len(ps) /\ Len(ps) \in Nat
      /\ \A i \in 1 .. Len(ps) : ps[i] \in Part
    <2>1. ps \in Seq(Part)
        BY RequestAssumption
    <2> QED
        BY <2>1
<1>2. PICK d, s, e : d = Dashes /\ s = <<":", " ">> /\ e = CRLF
    OBVIOUS
<1>3. d \in Seq(Byte) /\ s \in Seq(Byte) /\ e \in Seq(Byte)
    <2>1. PICK x, y, z : x = "-" /\ y = ":" /\ z = " "
        OBVIOUS
    <2>2. x \in Byte /\ y \in Byte /\ z \in Byte
        BY <2>1, ByteNames
    <2>3. d = <<x, x>> /\ s = <<y, z>>
        BY <1>2, <2>1 DEF Dashes
    <2>4. d \in Seq(Byte) /\ s \in Seq(Byte)
        BY <2>2, <2>3
    <2> QED
        BY <1>2, <2>4, LineEndBytes
<1>4. ASSUME NEW h \in Line
      PROVE  HeadLine(h) \in Seq(Byte)
    <2>1. h.key \in Seq(Byte) /\ h.value \in Seq(Byte)
        BY DEF Line
    <2>2. HeadLine(h) = h.key \o s \o h.value \o e
        BY <1>2 DEF HeadLine
    <2> QED
        BY <1>3, <2>1, <2>2, ConcatBytes
<1>5. ASSUME NEW p \in Part
      PROVE  WirePart(p, b) \in Seq(Byte)
    <2>1. p.head \in Seq(Line) /\ p.content \in Seq(Byte)
        BY DEF Part
    <2>2. /\ DOMAIN p.head = 1 .. Len(p.head) /\ Len(p.head) \in Nat
          /\ \A i \in 1 .. Len(p.head) : p.head[i] \in Line
        BY <2>1
    <2>3. PICK ls : ls = [i \in DOMAIN p.head |-> HeadLine(p.head[i])]
        OBVIOUS
    <2>4. ls \in Seq(Seq(Byte))
        BY <1>4, <2>2, <2>3
    <2>5. PICK f : f = FlattenSeq(ls)
        OBVIOUS
    <2>6. f \in Seq(Byte)
        BY <2>4, <2>5, FlattenTyped
    <2>7. WirePart(p, b) = d \o b \o e \o f \o e \o p.content \o e
        BY <1>2, <2>3, <2>5 DEF WirePart
    <2> QED
        BY <1>3, <2>1, <2>6, <2>7, ConcatBytes
<1>6. PICK ls : ls = [i \in DOMAIN ps |-> WirePart(ps[i], b)]
    OBVIOUS
<1>7. ls \in Seq(Seq(Byte))
    BY <1>1, <1>5, <1>6
<1>8. PICK f : f = FlattenSeq(ls)
    OBVIOUS
<1>9. f \in Seq(Byte)
    BY <1>7, <1>8, FlattenTyped
<1>10. WireForm(ps, b) = f \o d \o b \o d \o e
    BY <1>2, <1>6, <1>8 DEF WireForm
<1> QED
    BY <1>3, <1>9, <1>10, ConcatBytes

(* Every body a client sends is a sequence of bytes.                       *)
LEMMA RequestsTyped == \A r \in Requests : r.body \in Seq(Byte)
<1> SUFFICES ASSUME NEW r \in Requests PROVE r.body \in Seq(Byte)
    OBVIOUS
<1>1. ASSUME NEW t, r \in PlainRequests(t)
      PROVE  r.body \in Seq(Byte)
    <2>1. PICK b \in PlainBodies : r = [NoRequest EXCEPT !.type = t, !.body = b]
        BY <1>1 DEF PlainRequests
    <2>2. r.body = b
        BY <2>1 DEF NoRequest
    <2> QED
        BY <2>2, RequestAssumption
<1>2. ASSUME NEW b \in Seq(Byte), r \in FormRequests(b)
      PROVE  r.body \in Seq(Byte)
    <2>1. PICK ps \in Forms :
             r = [type |-> "form", boundary |-> b, parts |-> ps, body |-> WireForm(ps, b)]
        BY <1>2 DEF FormRequests
    <2>2. r.body = WireForm(ps, b)
        BY <2>1
    <2> QED
        BY <2>2, FormTyped
<1>3. Boundary \in Seq(Byte) /\ DashedBoundary \in Seq(Byte)
    <2>1. \A i \in 1 .. Len(Boundary) : Boundary[i] \in Byte
        BY RequestAssumption
    <2>2. Len(Boundary) \in Nat /\ Boundary = [i \in 1 .. Len(Boundary) |-> Boundary[i]]
        BY RequestAssumption
    <2>3. Boundary \in Seq(Byte)
        BY <2>1, <2>2
    <2> QED
        BY <2>3, RequestAssumption
<1>4. ASSUME r \in ParamRequests PROVE r.body \in Seq(Byte)
    <2>1. PICK q \in PlainRequests("params") : r = [q EXCEPT !.boundary = Parameter]
        BY <1>4 DEF ParamRequests
    <2>2. PICK b \in PlainBodies : q = [NoRequest EXCEPT !.type = "params", !.body = b]
        BY <2>1 DEF PlainRequests
    <2>3. r.body = b
        BY <2>1, <2>2 DEF NoRequest
    <2> QED
        BY <2>3, RequestAssumption
<1>5. \/ r \in PlainRequests("none") \/ r \in PlainRequests("plain") \/ r \in ParamRequests
      \/ r \in FormRequests(Boundary) \/ r \in FormRequests(DashedBoundary)
    BY DEF Requests
<1> QED
    BY <1>1, <1>2, <1>3, <1>4, <1>5

(* A new request starts with an empty buffer and its header unread.        *)
LEMMA ReqInvAccept ==
    ASSUME ReqInv, NEW h \in RequestHeaders, NEW r \in Requests, Accept(h, r)
    PROVE  ReqInv'
<1>1. rbuf' = <<>> /\ rpc' = "header" /\ inp' \in {h \o r.body, Front(h)}
    BY DEF Accept, ReqInv
<1>2. PICK b : b = r.body
    OBVIOUS
<1>3. b \in Seq(Byte)
    BY <1>2, RequestsTyped
<1>4. h \in Seq(Byte) /\ Len(h) >= 8 /\ \A i \in 1 .. 4 : ~EndAt(h, i)
    <2>1. Len(h) >= 8 /\ h \in Seq(Byte) /\ \A i \in 1 .. Len(h) - 3 : EndAt(h, i) <=> i = Len(h) - 3
        BY HeaderBlocks DEF IsHeader
    <2>2. \A n \in Nat : n >= 8 => \A i \in 1 .. 4 : i \in 1 .. n - 3 /\ i # n - 3
        OBVIOUS
    <2>3. Len(h) \in Nat
        BY <2>1
    <2> QED
        BY <2>1, <2>2, <2>3
<1>5. PICK w : w = inp'
    OBVIOUS
<1>6. w \in Seq(Byte) /\ \A i \in 1 .. 4 : i <= Len(w) - 3 => ~EndAt(w, i)
    <2>1. CASE w = h \o b
        <3>1. w \in Seq(Byte)
            BY <1>3, <1>4, <2>1, ConcatBytes
        <3>2. \A i \in 1 .. 4 : i \in 1 .. Len(h) - 3
            BY <1>4
        <3>3. \A i \in 1 .. 4 : EndAt(w, i) <=> EndAt(h, i)
            BY <1>3, <1>4, <2>1, <3>2, EndInPrefix
        <3> QED
            BY <1>4, <3>1, <3>3
    <2>2. CASE w = Front(h)
        <3>1. PICK k, z : k = Len(h) - 1 /\ z = SubSeq(h, (Len(h) - 1) + 1, Len(h))
            OBVIOUS
        <3>2. k \in 1 .. Len(h) /\ w = SubSeq(h, 1, k) /\ z = SubSeq(h, k + 1, Len(h))
            BY <1>4, <2>2, <3>1 DEF Front
        <3>3. w \in Seq(Byte) /\ z \in Seq(Byte) /\ Len(w) = k
            BY <1>4, <3>2
        <3>4. SubSeq(h, 1, k) \o SubSeq(h, k + 1, Len(h)) = SubSeq(h, 1, Len(h))
            BY <1>4, <3>2, ConcatAdjacentSubSeq
        <3>5. w \o z = h
            BY <1>4, <3>2, <3>4, SubSeqFull
        <3>6. ASSUME NEW i \in 1 .. 4, i <= Len(w) - 3
              PROVE  ~EndAt(w, i)
            <4>1. i \in 1 .. Len(w) - 3
                BY <3>3, <3>6
            <4>2. EndAt(w \o z, i) <=> EndAt(w, i)
                BY <3>3, <4>1, EndInPrefix
            <4> QED
                BY <1>4, <3>5, <4>2
        <3> QED
            BY <3>3, <3>6
    <2> QED
        BY <1>1, <1>2, <1>5, <2>1, <2>2
<1>7. <<>> \in Seq(Byte) /\ Len(<<>>) = 0 /\ 1 .. 0 - 3 = {} /\ <<>> \o w = w
    BY <1>6
<1> QED
    BY <1>1, <1>5, <1>6, <1>7 DEF ReqInv

(* A round of recv_header keeps the server's search invariant: what it     *)
(* searches, with four bytes of look-back once there are more than four,   *)
(* has every place but the first four where the end could begin.           *)
LEMMA ReqInvRecv == ASSUME ReqInv, NEW n, RecvHeader(n) PROVE ReqInv'
<1>1. PICK a, r, b, v : a = rbuf /\ r = inp /\ b = SubSeq(inp, 1, n) /\ v = inp'
    OBVIOUS
<1>2. rpc = "header" /\ n \in 1 .. Len(r) /\ v = SubSeq(r, n + 1, Len(r)) /\ rbuf' = a \o b
    BY <1>1 DEF RecvHeader, From
<1>3. /\ a \in Seq(Byte) /\ r \in Seq(Byte)
      /\ \A i \in 1 .. Len(a) - 3 : ~EndAt(a, i)
      /\ \A i \in 1 .. 4 : i <= Len(a \o r) - 3 => ~EndAt(a \o r, i)
    BY <1>1, <1>2 DEF ReqInv
<1>4. b \in Seq(Byte) /\ Len(b) = n /\ v \in Seq(Byte)
    BY <1>1, <1>2, <1>3
<1>5. PICK c : c = a \o b
    OBVIOUS
<1>6. c \in Seq(Byte) /\ Len(c) = Len(a) + n /\ Len(a) \in Nat
    <2>1. Len(a \o b) = Len(a) + Len(b) /\ a \o b \in Seq(Byte)
        BY <1>3, <1>4, ConcatProperties
    <2> QED
        BY <1>3, <1>4, <1>5, <2>1
<1>7. c \o v = a \o r
    <2>1. b \o v = r
        <3>1. a \in Seq(Byte) /\ r \in Seq(Byte)
            BY <1>3
        <3>2. SubSeq(r, 1, n) \o SubSeq(r, n + 1, Len(r)) = SubSeq(r, 1, Len(r))
            BY <1>2, <3>1, ConcatAdjacentSubSeq
        <3> QED
            BY <1>1, <1>2, <3>1, <3>2, SubSeqFull
    <2>2. (a \o b) \o v = a \o (b \o v)
        <3>1. a \in Seq(Byte) /\ b \in Seq(Byte) /\ v \in Seq(Byte)
            BY <1>3, <1>4
        <3> QED
            BY <3>1, ConcatAssociative
    <2> QED
        BY <1>5, <2>1, <2>2
<1>8. PICK from : from = Len(a) - LookBack(Len(a)) + 1
    OBVIOUS
<1>9. from \in Nat /\ from # 0 /\ \A i \in Nat : i # 0 /\ i < from => i <= Len(a) - 3 \/ i <= 4
    <2>1. PICK l, k : l = Len(a) /\ k = LookBack(Len(a))
        OBVIOUS
    <2>2. l \in Nat /\ k \in Nat /\ ((k = 4 /\ l > 4) \/ (k = 0 /\ l <= 4))
        BY <1>6, <2>1 DEF LookBack
    <2>3. from = l - k + 1
        BY <1>8, <2>1
    <2> QED
        BY <2>1, <2>2, <2>3
<1>10. \A i \in 1 .. Len(c) - 3 : i <= 4 => ~EndAt(c, i)
    <2> SUFFICES ASSUME NEW i \in 1 .. Len(c) - 3, i <= 4 PROVE ~EndAt(c, i)
        OBVIOUS
    <2>1. EndAt(c \o v, i) <=> EndAt(c, i)
        BY <1>4, <1>6, EndInPrefix
    <2>2. Len(c \o v) = Len(c) + Len(v)
        BY <1>4, <1>6, ConcatProperties
    <2>3. i \in 1 .. 4 /\ i <= Len(c \o v) - 3
        BY <1>4, <1>6, <2>2
    <2> QED
        BY <1>3, <1>7, <2>1, <2>3
<1>11. \A i \in 1 .. Len(c) - 3 : i < from => i <= Len(a) - 3 \/ ~EndAt(c, i)
    BY <1>9, <1>10
<1>12. memmem(c, from, CRLF \o CRLF) = 0 => \A i \in 1 .. Len(c) - 3 : ~EndAt(c, i)
    BY <1>3, <1>4, <1>5, <1>9, <1>11, NoEndAfterPiece
<1>13. \/ rpc' \in {"header", "large"} /\ memmem(c, from, CRLF \o CRLF) = 0
       \/ rpc' = "route"
    BY <1>1, <1>2, <1>5, <1>8 DEF RecvHeader
<1>14. CASE rpc' = "route"
    BY <1>14 DEF ReqInv
<1>15. CASE rpc' \in {"header", "large"} /\ memmem(c, from, CRLF \o CRLF) = 0
    <2>1. rbuf' = c /\ inp' = v /\ c \o v = a \o r
        BY <1>1, <1>2, <1>5, <1>7
    <2> QED
        BY <1>3, <1>4, <1>6, <1>12, <1>15, <2>1 DEF ReqInv
<1> QED
    BY <1>13, <1>14, <1>15

(* Every step of the server keeps the search invariant.                    *)
LEMMA ReqInvNext == ReqInv /\ [RequestNext]_requestVars => ReqInv'
<1> SUFFICES ASSUME ReqInv, [RequestNext]_requestVars PROVE ReqInv'
    OBVIOUS
<1>1. ASSUME NEW h \in RequestHeaders, NEW r \in Requests, Accept(h, r)
      PROVE  ReqInv'
    BY <1>1, ReqInvAccept
<1>2. ASSUME NEW n, RecvHeader(n)
      PROVE  ReqInv'
    BY <1>2, ReqInvRecv
<1>3. CASE RecvEnds
    BY <1>3 DEF RecvEnds, ReqInv
<1>4. ASSUME NEW n, RollPiece(n)
      PROVE  ReqInv'
    BY <1>4 DEF RollPiece, ReqInv
<1>5. CASE UNCHANGED requestVars
    BY <1>5 DEF requestVars, ReqInv
<1> QED
    BY <1>1, <1>2, <1>3, <1>4, <1>5 DEF RequestNext

(* The end of every header is found, however the bytes are split: the      *)
(* client and the server give up only where there is none.                 *)
THEOREM HeadersAreFound == Spec => []HeadersFound
<1>1. Init => HeadInv /\ ReqInv
    BY DEF Init, ClientInit, RequestInit, HeadInv, ReqInv
<1>2. HeadInv /\ ReqInv /\ [Next]_allVars => HeadInv' /\ ReqInv'
    BY StepsOfParts, HeadInvNext, ReqInvNext
<1>3. HeadInv => HeaderFound
    <2> SUFFICES ASSUME HeadInv, cpc = "error" PROVE EndIn(hbuf, Len(hbuf), 0) = 0
        BY DEF HeaderFound
    <2>1. hbuf \in Seq(Byte) /\ \A i \in 1 .. Len(hbuf) - 3 : ~EndAt(hbuf, i)
        BY DEF HeadInv
    <2>2. Len(hbuf) - Len(hbuf) - 0 + 1 = 1
        BY <2>1
    <2>3. memmem(hbuf, 1, CRLF \o CRLF) = 0
        BY <2>1, NotFound
    <2> QED
        BY <2>2, <2>3 DEF EndIn
<1>4. ReqInv => RequestHeaderFound
    <2> SUFFICES ASSUME ReqInv, rpc \in {"closed", "large"}
                 PROVE  memmem(rbuf, 1, CRLF \o CRLF) = 0
        BY DEF RequestHeaderFound
    <2>1. rbuf \in Seq(Byte) /\ \A i \in 1 .. Len(rbuf) - 3 : ~EndAt(rbuf, i)
        BY DEF ReqInv
    <2> QED
        BY <2>1, NotFound
<1>5. HeadInv /\ ReqInv => HeadersFound
    BY <1>3, <1>4 DEF HeadersFound
<1> QED
    BY <1>1, <1>2, <1>5, PTL DEF Spec, allVars

(* Concatenation is associative.                                           *)
Assoc(a, b, c) == (a \o b) \o c = a \o (b \o c)

(* It is so for sequences of bytes.                                        *)
LEMMA ConcatAssoc == \A a, b, c \in Seq(Byte) : Assoc(a, b, c)
BY ConcatAssociative, SMTT(30) DEF Assoc

(* Regrouping four sequences.                                              *)
Regrouped(a, b, c, d) == a \o ((b \o c) \o d) = (a \o b) \o (c \o d)

(* Sequences of bytes can be regrouped.                                    *)
LEMMA Regroup == \A a, b, c, d \in Seq(Byte) : Regrouped(a, b, c, d)
<1> SUFFICES ASSUME NEW a \in Seq(Byte), NEW b \in Seq(Byte), NEW c \in Seq(Byte), NEW d \in Seq(Byte)
             PROVE  Regrouped(a, b, c, d)
    OBVIOUS
<1>1. PICK x : x = c \o d
    OBVIOUS
<1>2. x \in Seq(Byte)
    BY <1>1, ConcatBytes
<1>3. Assoc(b, c, d) /\ Assoc(a, b, x)
    BY <1>2, ConcatAssoc
<1> QED
    BY <1>1, <1>3 DEF Assoc, Regrouped

(* One byte after another.                                                 *)
LEMMA TwoInLine ==
    ASSUME NEW x \in Byte, NEW y \in Byte
    PROVE  <<x>> \o <<y>> = <<x, y>>
<1>1. PICK a, b, c : a = <<x>> /\ b = <<y>> /\ c = <<x, y>>
    OBVIOUS
<1>2. a \in Seq(Byte) /\ b \in Seq(Byte) /\ Len(a) = 1 /\ Len(b) = 1 /\ a[1] = x /\ b[1] = y
    BY <1>1
<1>3. c \in Seq(Byte) /\ Len(c) = 2 /\ c[1] = x /\ c[2] = y
    BY <1>1
<1>4. a \o b \in Seq(Byte) /\ Len(a \o b) = 2 /\ (a \o b)[1] = x /\ (a \o b)[2] = y
    <2>1. a \o b \in Seq(Byte) /\ Len(a \o b) = Len(a) + Len(b)
        BY <1>2, ConcatProperties
    <2>2. \A i \in 1 .. Len(a) + Len(b) : (a \o b)[i] = IF i <= Len(a) THEN a[i] ELSE b[i - Len(a)]
        BY <1>2, ConcatProperties
    <2> QED
        BY <1>2, <2>1, <2>2
<1>5. \A i \in 1 .. 2 : (a \o b)[i] = c[i]
    BY <1>3, <1>4
<1>6. a \o b = c
    BY <1>3, <1>4, <1>5, SeqEqual
<1> QED
    BY <1>1, <1>6

(* The line end is CR and then LF, and each byte is a sequence by itself.  *)
LEMMA ByteLists ==
    /\ <<"LF">> \in Seq(Byte) /\ <<"CR">> \in Seq(Byte) /\ CRLF = <<"CR">> \o <<"LF">>
    /\ Len(<<"LF">>) = 1 /\ Len(<<"CR">>) = 1
    /\ \A b \in Byte : <<b>> \in Seq(Byte) /\ Len(<<b>>) = 1
<1>1. \A b \in Byte : <<b>> \in Seq(Byte) /\ Len(<<b>>) = 1
    OBVIOUS
<1>2. PICK x, y \in Byte : x = "CR" /\ y = "LF"
    BY ByteNames
<1>3. <<x>> \o <<y>> = <<x, y>>
    BY TwoInLine
<1> QED
    BY <1>1, <1>2, <1>3 DEF CRLF

(* A sequence is what is before a place and what is from there on.         *)
LEMMA SplitAt ==
    ASSUME NEW S, NEW s \in Seq(S), NEW n \in 0 .. Len(s)
    PROVE  /\ SubSeq(s, 1, n) \in Seq(S) /\ Len(SubSeq(s, 1, n)) = n
           /\ SubSeq(s, n + 1, Len(s)) \in Seq(S) /\ Len(SubSeq(s, n + 1, Len(s))) = Len(s) - n
           /\ s = SubSeq(s, 1, n) \o SubSeq(s, n + 1, Len(s))
<1>1. PICK a, b : a = SubSeq(s, 1, n) /\ b = SubSeq(s, n + 1, Len(s))
    OBVIOUS
<1>2. a \in Seq(S) /\ Len(a) = n /\ \A i \in 1 .. n : a[i] = s[i]
    BY <1>1
<1>3. b \in Seq(S) /\ Len(b) = Len(s) - n /\ \A i \in 1 .. Len(s) - n : b[i] = s[n + i]
    <2>1. n + 1 \in 1 .. Len(s) + 1 /\ Len(s) \in 0 .. Len(s) /\ Len(s) \in Nat
        OBVIOUS
    <2>2. b \in Seq(S) /\ Len(b) = Len(s) - n
        BY <1>1, <2>1
    <2>3. ASSUME NEW i \in 1 .. Len(s) - n PROVE b[i] = s[n + i]
        <3>1. b[i] = s[(n + 1) + i - 1] /\ (n + 1) + i - 1 = n + i
            BY <1>1, <2>1, <2>2
        <3> QED
            BY <3>1
    <2> QED
        BY <2>2, <2>3
<1>4. PICK c : c = a \o b
    OBVIOUS
<1>5. c \in Seq(S) /\ Len(c) = Len(s)
    <2>1. c \in Seq(S) /\ Len(c) = Len(a) + Len(b)
        BY <1>2, <1>3, <1>4, ConcatProperties
    <2>2. Len(s) \in Nat
        OBVIOUS
    <2> QED
        BY <1>2, <1>3, <2>1, <2>2
<1>6. ASSUME NEW i \in 1 .. Len(s) PROVE c[i] = s[i]
    <2>1. CASE i <= n
        <3>1. i \in 1 .. Len(a)
            BY <1>2, <2>1
        <3>2. c[i] = a[i]
            BY <1>2, <1>3, <1>4, <3>1
        <3> QED
            BY <1>2, <3>1, <3>2
    <2>2. CASE ~(i <= n)
        <3>1. i - n \in 1 .. Len(s) - n /\ n + (i - n) = i
            BY <2>2
        <3>2. c[i] = b[i - n]
            BY <1>2, <1>3, <1>4, <1>5, <2>2
        <3> QED
            BY <1>3, <3>1, <3>2
    <2> QED
        BY <2>1, <2>2
<1>7. c = s
    BY <1>5, <1>6, SeqEqual
<1> QED
    BY <1>1, <1>2, <1>3, <1>4, <1>7

(* A line ends with its last two bytes: in terms of the bytes.             *)
LEMMA EndsLineAt ==
    ASSUME NEW s \in Seq(Byte)
    PROVE  EndsLine(s) <=> Len(s) >= 2 /\ s[Len(s) - 1] = "CR" /\ s[Len(s)] = "LF"
<1>1. CASE Len(s) >= 2
    <2>1. PICK u : u = SubSeq(s, Len(s) - 1, Len(s))
        OBVIOUS
    <2>2. Len(s) - 1 \in 1 .. Len(s) + 1 /\ Len(s) \in Nat /\ Len(s) \in 0 .. Len(s)
        BY <1>1
    <2>3. u \in Seq(Byte) /\ Len(u) = 2 /\ u[1] = s[Len(s) - 1] /\ u[2] = s[Len(s)]
        <3>1. u \in Seq(Byte) /\ Len(u) = Len(s) - (Len(s) - 1) + 1
            BY <1>1, <2>1, <2>2
        <3>2. \A i \in 1 .. Len(u) : u[i] = s[Len(s) - 1 + i - 1]
            BY <1>1, <2>1, <2>2
        <3> QED
            BY <3>1, <3>2, <2>2
    <2>4. u = CRLF <=> u[1] = "CR" /\ u[2] = "LF"
        <3>1. CRLF \in Seq(Byte) /\ Len(CRLF) = 2 /\ CRLF[1] = "CR" /\ CRLF[2] = "LF"
            BY LineEndBytes DEF CRLF
        <3>2. u[1] = "CR" /\ u[2] = "LF" => \A i \in 1 .. Len(u) : u[i] = CRLF[i]
            BY <2>3, <3>1
        <3> QED
            BY <2>3, <3>1, <3>2, SeqEqual
    <2> QED
        BY <1>1, <2>1, <2>3, <2>4 DEF EndsLine
<1>2. CASE ~(Len(s) >= 2)
    BY <1>2 DEF EndsLine
<1> QED
    BY <1>1, <1>2

(* White space before a line is skipped.                                   *)
LEMMA SkipsLF ==
    ASSUME NEW l \in Seq(Byte)
    PROVE  SkipWhite(<<"LF">> \o l) = SkipWhite(l)
<1>1. PICK y \in Byte : y = "LF"
    BY ByteNames
<1>2. PICK f : f = <<y>>
    OBVIOUS
<1>3. f \in Seq(Byte) /\ Len(f) = 1 /\ f[1] = y
    BY <1>2
<1>4. PICK s : s = f \o l
    OBVIOUS
<1>5. PICK n \in Nat : n = Len(l)
    OBVIOUS
<1>6. s \in Seq(Byte) /\ Len(s) = n + 1 /\ DOMAIN s = 1 .. n + 1 /\ DOMAIN l = 1 .. n
    <2>1. s \in Seq(Byte) /\ Len(s) = Len(f) + Len(l)
        BY <1>3, <1>4, ConcatProperties
    <2> QED
        BY <1>3, <1>5, <2>1
<1>7. s[1] = y /\ \A i \in 1 .. n : s[i + 1] = l[i]
    <2>1. \A i \in 1 .. Len(f) + Len(l) : s[i] = IF i <= Len(f) THEN f[i] ELSE l[i - Len(f)]
        BY <1>3, <1>4, ConcatProperties
    <2> QED
        BY <1>3, <1>5, <2>1
<1> DEFINE A == {i \in 1 .. n : l[i] \notin White}
           B == {i \in 1 .. n + 1 : s[i] \notin White}
<1>8. y \in White
    BY <1>1 DEF White
<1>9. B = {i + 1 : i \in A}
    <2>1. ASSUME NEW j \in B PROVE j - 1 \in A /\ j = (j - 1) + 1
        <3>1. j # 1
            BY <1>7, <1>8
        <3>2. j - 1 \in 1 .. n /\ (j - 1) + 1 = j
            BY <3>1
        <3> QED
            BY <1>7, <3>2
    <2>2. \A i \in A : i + 1 \in B
        BY <1>7
    <2> QED
        BY <2>1, <2>2
<1>10. /\ SkipWhite(l) = IF A = {} THEN <<>> ELSE From(l, CHOOSE i \in A : \A j \in A : i <= j)
       /\ SkipWhite(s) = IF B = {} THEN <<>> ELSE From(s, CHOOSE i \in B : \A j \in B : i <= j)
    BY <1>6 DEF SkipWhite
<1>11. A \in SUBSET (1 .. n) /\ A \in SUBSET Nat
    OBVIOUS
<1> HIDE DEF A, B
<1>12. CASE A = {}
    BY <1>1, <1>2, <1>4, <1>9, <1>10, <1>12
<1>13. CASE A # {}
    <2>1. \E i \in A : \A j \in A : i <= j
        BY <1>11, <1>13, LeastOfNaturals
    <2>2. PICK m \in A : m = (CHOOSE i \in A : \A j \in A : i <= j) /\ \A j \in A : m <= j
        BY <2>1
    <2>3. m \in 1 .. n /\ m + 1 \in B /\ \A j \in B : m + 1 <= j
        <3>1. m \in 1 .. n /\ m + 1 \in B
            BY <1>9, <1>11
        <3>2. ASSUME NEW j \in B PROVE m + 1 <= j
            <4>1. PICK i \in A : j = i + 1
                BY <1>9
            <4>2. m <= i /\ i \in Nat /\ m \in Nat
                BY <1>11, <2>2
            <4> QED
                BY <4>1, <4>2
        <3> QED
            BY <3>1, <3>2
    <2>4. B \subseteq Nat
        BY <1>9, <1>11
    <2>5. (CHOOSE i \in B : \A j \in B : i <= j) = m + 1
        <3>1. PICK k : k = CHOOSE i \in B : \A j \in B : i <= j
            OBVIOUS
        <3>2. k \in B /\ \A j \in B : k <= j
            BY <2>3, <3>1
        <3>3. k \in Nat /\ m + 1 \in Nat /\ k <= m + 1 /\ m + 1 <= k
            BY <2>3, <2>4, <3>2
        <3>4. k = m + 1
            BY <3>3
        <3> QED
            BY <3>1, <3>4
    <2>6. B # {}
        BY <2>3
    <2>7. From(l, m) = From(s, m + 1)
        <3>1. PICK u, v : u = SubSeq(l, m, n) /\ v = SubSeq(s, m + 1, n + 1)
            OBVIOUS
        <3>2. u \in Seq(Byte) /\ Len(u) = n - m + 1 /\ \A i \in 1 .. n - m + 1 : u[i] = l[m + i - 1]
            BY <1>5, <2>3, <3>1
        <3>3. v \in Seq(Byte) /\ Len(v) = n - m + 1 /\ \A i \in 1 .. n - m + 1 : v[i] = s[(m + 1) + i - 1]
            BY <1>6, <2>3, <3>1
        <3>4. ASSUME NEW i \in 1 .. n - m + 1 PROVE u[i] = v[i]
            <4>1. m + i - 1 \in 1 .. n /\ (m + 1) + i - 1 = (m + i - 1) + 1
                BY <2>3
            <4>2. PICK k \in 1 .. n : k = m + i - 1
                BY <4>1
            <4>3. s[k + 1] = l[k]
                BY <1>7
            <4> QED
                BY <3>2, <3>3, <4>1, <4>2, <4>3
        <3>5. u = v
            BY <3>2, <3>3, <3>4, SeqEqual
        <3> QED
            BY <1>5, <1>6, <3>1, <3>5 DEF From
    <2> QED
        BY <1>1, <1>2, <1>4, <1>10, <1>13, <2>2, <2>5, <2>6, <2>7
<1> QED
    BY <1>12, <1>13

(* So a line says the same after the LF that an earlier round left.        *)
LEMMA StrtollAfterLF == ASSUME NEW l \in Seq(Byte) PROVE Strtoll(<<"LF">> \o l) = Strtoll(l)
BY SkipsLF DEF Strtoll

(* An empty line stands for zero.                                          *)
LEMMA StrtollEmpty == Strtoll(<<>>) = 0
<1>1. SkipWhite(<<>>) = <<>>
    BY DEF SkipWhite
<1> QED
    BY <1>1 DEF Strtoll, Hex

(* The decoder's length lines: they end with the first line end in them.   *)
LineLike(s) ==
    /\ Len(s) >= 2 /\ s[Len(s) - 1] = "CR" /\ s[Len(s)] = "LF"
    /\ \A i \in 2 .. Len(s) - 1 : ~(s[i - 1] = "CR" /\ s[i] = "LF")

(* Line l, by itself or with the LF that an earlier round of the decoder   *)
(* left, and the lines that say n.                                         *)
Lines(l) == {l \o CRLF, (<<"LF">> \o l) \o CRLF}
LinesFor(n) == UNION {Lines(l) : l \in LineFor(n)}

(* A line end by itself is such a line, and means zero.                    *)
LEMMA EmptyLine ==
    LineLike(CRLF) /\ Strtoll(SubSeq(CRLF, 1, Len(CRLF) - 2)) = 0
<1>1. CRLF \in Seq(Byte) /\ Len(CRLF) = 2 /\ CRLF[1] = "CR" /\ CRLF[2] = "LF"
    BY LineEndBytes DEF CRLF
<1>2. LineLike(CRLF)
    BY <1>1 DEF LineLike
<1>3. SubSeq(CRLF, 1, Len(CRLF) - 2) = <<>>
    BY <1>1
<1> QED
    BY <1>2, <1>3, StrtollEmpty

(* The lines that say m are such lines.                                    *)
LEMMA LengthSaid ==
    ASSUME NEW m, NEW s \in LinesFor(m)
    PROVE  /\ s \in Seq(Byte) /\ LineLike(s)
           /\ Strtoll(SubSeq(s, 1, Len(s) - 2)) = m
<1>1. CRLF \in Seq(Byte) /\ Len(CRLF) = 2 /\ CRLF[1] = "CR" /\ CRLF[2] = "LF"
    BY LineEndBytes DEF CRLF
<1>2. PICK l \in LineFor(m) : s \in Lines(l)
    BY DEF LinesFor
<1> DEFINE Says(v) == v \in Seq(Byte) /\ (\A j \in 1 .. Len(v) : v[j] # "CR") /\ Strtoll(v) = m
<1>3. PICK v : Says(v) /\ s = v \o CRLF
    <2>1. l \in Seq(Byte) /\ (\A j \in 1 .. Len(l) : l[j] # "CR") /\ Strtoll(l) = m
        BY DEF LineFor
    <2>2. CASE s = l \o CRLF
        <3>1. Says(l)
            BY <2>1
        <3> QED
            BY <2>2, <3>1
    <2>3. CASE s = (<<"LF">> \o l) \o CRLF
        <3>1. PICK y \in Byte : y = "LF"
            BY ByteNames
        <3>2. PICK f, w : f = <<y>> /\ w = f \o l
            OBVIOUS
        <3>3. f \in Seq(Byte) /\ Len(f) = 1 /\ f[1] = y
            BY <3>2
        <3>4. w \in Seq(Byte) /\ Len(w) = 1 + Len(l) /\ Len(l) \in Nat
            BY <2>1, <3>2, <3>3, ConcatProperties
        <3>5. \A i \in 1 .. Len(f) + Len(l) : w[i] = IF i <= Len(f) THEN f[i] ELSE l[i - Len(f)]
            BY <2>1, <3>2, <3>3, ConcatProperties
        <3>6. ASSUME NEW i \in 1 .. Len(w) PROVE w[i] # "CR"
            <4>1. y # "CR"
                BY <3>1
            <4>2. CASE i = 1
                BY <3>3, <3>4, <3>5, <4>1, <4>2
            <4>3. CASE i # 1
                <5>1. i - 1 \in 1 .. Len(l) /\ i \in 1 .. Len(f) + Len(l) /\ ~(i <= Len(f))
                    BY <3>3, <3>4, <4>3
                <5>2. w[i] = l[i - 1]
                    BY <3>3, <3>5, <5>1
                <5> QED
                    BY <2>1, <5>1, <5>2
            <4> QED
                BY <4>2, <4>3
        <3>7. Strtoll(w) = m
            BY <2>1, <3>1, <3>2, StrtollAfterLF
        <3>8. Says(w) /\ s = w \o CRLF
            BY <2>3, <3>1, <3>2, <3>4, <3>6, <3>7
        <3> HIDE DEF Says
        <3> QED
            BY <3>8
    <2> HIDE DEF Says
    <2> QED
        BY <1>2, <2>2, <2>3 DEF Lines
<1>4. PICK n \in Nat : n = Len(v)
    BY <1>3
<1>5. /\ s \in Seq(Byte) /\ Len(s) = n + 2 /\ s[n + 1] = "CR" /\ s[n + 2] = "LF"
      /\ \A i \in 1 .. n : s[i] = v[i]
    <2>0. PICK e : e = CRLF
        OBVIOUS
    <2>1. e \in Seq(Byte) /\ Len(e) = 2 /\ e[1] = "CR" /\ e[2] = "LF" /\ v \in Seq(Byte) /\ s = v \o e
        BY <1>1, <1>3, <2>0
    <2>2. s \in Seq(Byte) /\ Len(s) = n + 2
        <3>1. v \o e \in Seq(Byte) /\ Len(v \o e) = Len(v) + Len(e)
            BY <2>1, ConcatProperties
        <3> QED
            BY <1>4, <2>1, <3>1
    <2>3. \A i \in 1 .. n + 2 : s[i] = IF i <= n THEN v[i] ELSE e[i - n]
        BY <1>4, <2>1, ConcatProperties
    <2> QED
        BY <1>4, <2>1, <2>2, <2>3
<1>6. LineLike(s)
    <2>1. ASSUME NEW i \in 2 .. Len(s) - 1 PROVE ~(s[i - 1] = "CR" /\ s[i] = "LF")
        <3>1. i - 1 \in 1 .. n
            BY <1>5
        <3> QED
            BY <1>3, <1>4, <1>5, <3>1
    <2>2. Len(s) >= 2 /\ s[Len(s) - 1] = "CR" /\ s[Len(s)] = "LF"
        <3>1. n + 2 >= 2 /\ n + 2 - 1 = n + 1
            OBVIOUS
        <3> QED
            BY <1>5, <3>1
    <2> QED
        BY <2>1, <2>2 DEF LineLike
<1>7. SubSeq(s, 1, Len(s) - 2) = v
    <2>1. PICK w : w = SubSeq(s, 1, Len(s) - 2)
        OBVIOUS
    <2>2. Len(s) - 2 = n /\ n \in 0 .. Len(s)
        BY <1>5
    <2>3. w \in Seq(Byte) /\ Len(w) = n /\ \A i \in 1 .. n : w[i] = s[i]
        BY <1>5, <2>1, <2>2
    <2>4. w = v
        BY <1>3, <1>4, <1>5, <2>3, SeqEqual
    <2> QED
        BY <2>1, <2>4
<1>8. Strtoll(v) = m
    BY <1>3
<1> HIDE DEF Says
<1> QED
    BY <1>5, <1>6, <1>7, <1>8

(* A byte more of a line: the line is not at its end before all of it is   *)
(* there, and then what comes is what comes after it.                      *)
InOrAfter(c, u, s, x) ==
    /\ c \in Seq(Byte) /\ c \o u = s \o x
    /\ \/ ~EndsLine(c) /\ Len(c) < Len(s)
       \/ EndsLine(c) /\ c = s /\ u = x

(* So it is for the byte that is appended to buf.                          *)
LEMMA LineByte ==
    ASSUME NEW s \in Seq(Byte), NEW x \in Seq(Byte), NEW buf \in Seq(Byte), NEW u \in Seq(Byte),
           NEW b \in Byte, LineLike(s), buf \o (<<b>> \o u) = s \o x, Len(buf) < Len(s)
    PROVE  InOrAfter(Append(buf, b), u, s, x)
<1>1. PICK c : c = Append(buf, b)
    OBVIOUS
<1>2. c \in Seq(Byte) /\ Len(c) = Len(buf) + 1
    BY <1>1
<1>3. c = buf \o <<b>>
    BY <1>1, AppendIsConcat
<1>4. c \o u = s \o x
    <2>1. <<b>> \in Seq(Byte)
        OBVIOUS
    <2>2. Assoc(buf, <<b>>, u)
        BY <2>1, ConcatAssoc
    <2> QED
        BY <1>3, <2>2 DEF Assoc
<1>5. PICK n \in Nat, m \in Nat : n = Len(c) /\ m = Len(s)
    BY <1>2
<1>6. n <= m
    BY <1>2, <1>5
<1>7. \A i \in 1 .. n : c[i] = s[i]
    <2> SUFFICES ASSUME NEW i \in 1 .. n PROVE c[i] = s[i]
        OBVIOUS
    <2>1. i \in 1 .. Len(c) + Len(u) /\ i <= Len(c) /\ i \in 1 .. Len(s) + Len(x) /\ i <= Len(s)
        BY <1>5, <1>6
    <2>2. (c \o u)[i] = c[i]
        BY <1>2, <2>1, ConcatProperties
    <2>3. (s \o x)[i] = s[i]
        BY <2>1, ConcatProperties
    <2> QED
        BY <1>4, <2>2, <2>3
<1>8. CASE n < m
    <2>1. ~EndsLine(c)
        <3> SUFFICES ASSUME EndsLine(c) PROVE FALSE
            OBVIOUS
        <3>1. n >= 2 /\ c[n - 1] = "CR" /\ c[n] = "LF"
            BY <1>2, <1>5, EndsLineAt
        <3>2. n \in 2 .. m - 1 /\ n - 1 \in 1 .. n /\ n \in 1 .. n
            BY <1>8, <3>1
        <3>3. s[n - 1] = "CR" /\ s[n] = "LF"
            BY <1>7, <3>1, <3>2
        <3> QED
            BY <1>5, <3>2, <3>3 DEF LineLike
    <2> QED
        BY <1>1, <1>2, <1>4, <1>5, <1>8, <2>1 DEF InOrAfter
<1>9. CASE n = m
    <2>1. c = s /\ u = x
        BY <1>2, <1>4, <1>5, <1>9, SplitEqual
    <2>2. EndsLine(s)
        BY EndsLineAt DEF LineLike
    <2> QED
        BY <1>1, <1>2, <1>4, <2>1, <2>2 DEF InOrAfter
<1> QED
    BY <1>6, <1>8, <1>9

(* Chunk cs[k] on the wire, with some line for its length, and what comes  *)
(* after it.                                                               *)
ChunkSent(cs, W, k) ==
    \E l \in LineFor(Len(cs[k])) : W[k - 1] = (l \o CRLF) \o ((cs[k] \o CRLF) \o W[k])

(* What is left after the first k chunks of cs: W[k] of the wire, D[k] of  *)
(* the content.                                                            *)
IsPlan(cs, W, D) ==
    /\ cs \in Seq(Seq(Byte)) /\ \A k \in 1 .. Len(cs) : Len(cs[k]) # 0
    /\ W \in [0 .. Len(cs) -> Seq(Byte)] /\ D \in [0 .. Len(cs) -> Seq(Byte)]
    /\ \E l \in LineFor(0) : W[Len(cs)] = (l \o CRLF) \o CRLF
    /\ D[0] = FlattenSeq(cs) /\ D[Len(cs)] = <<>>
    /\ \A k \in 1 .. Len(cs) : ChunkSent(cs, W, k) /\ D[k - 1] = cs[k] \o D[k]

(* The line s that the decoder is in, what comes after it, x, and what was *)
(* decoded, t: the end of a chunk's data; the length of a chunk; the       *)
(* length of the last one; the end of all.                                 *)
Want(cs, W, D, t, s, x) ==
    \/ \E k \in 0 .. Len(cs) : t \o D[k] = D[0] /\ s = CRLF /\ x = W[k]
    \/ \E k \in 1 .. Len(cs) : /\ t \o D[k - 1] = D[0]
                               /\ s \in LinesFor(Len(cs[k]))
                               /\ x = (cs[k] \o CRLF) \o W[k]
    \/ t = D[0] /\ s \in LinesFor(0) /\ x = CRLF
    \/ t = D[0] /\ s = CRLF /\ x = <<>>

ChunkState == [reading : BOOLEAN, len : Nat, buf : Seq(Byte), content : Seq(Byte)]

(* The decoder in a line, in the data of a chunk, and when all is read:    *)
(* u is what is still to come.                                             *)
InLine(cs, W, D, st, u, t) ==
    \E s, x \in Seq(Byte) : /\ Want(cs, W, D, t, s, x)
                            /\ st.buf \o u = s \o x /\ Len(st.buf) < Len(s)

InData(cs, W, D, st, u, t) ==
    \E k \in 1 .. Len(cs) : /\ t \o D[k - 1] = D[0]
                            /\ st.len = Len(cs[k]) /\ Len(st.buf) < st.len
                            /\ st.buf \o u = (cs[k] \o CRLF) \o W[k]

AtEnd(D, st, u, t) == t = D[0] /\ st.buf = <<>> /\ u = <<>>

Dec(cs, W, D, st, u, t) ==
    /\ st \in ChunkState /\ u \in Seq(Byte) /\ t \in Seq(Byte)
    /\ IF st.reading THEN InLine(cs, W, D, st, u, t) \/ AtEnd(D, st, u, t)
       ELSE InData(cs, W, D, st, u, t)

(* A line, with or without an LF before it, is one of its lines.           *)
LEMMA BeforeLine ==
    ASSUME NEW l \in Seq(Byte), NEW x \in Seq(Byte), NEW v \in {<<>>, <<"LF">>}
    PROVE  \E s \in Lines(l) : v \o ((l \o CRLF) \o x) = s \o x
<1>1. PICK f \in Seq(Byte), e \in Seq(Byte) : f = <<"LF">> /\ e = CRLF
    BY ByteLists, LineEndBytes
<1>2. l \o e \in Seq(Byte) /\ (l \o e) \o x \in Seq(Byte)
    BY ConcatBytes
<1>3. Lines(l) = {l \o e, (f \o l) \o e}
    BY <1>1 DEF Lines
<1>4. CASE v = <<>>
    <2>1. v \o ((l \o e) \o x) = (l \o e) \o x
        BY <1>2, <1>4, ConcatEmptySeq
    <2> QED
        BY <1>1, <1>3, <2>1
<1>5. CASE v = f
    <2>1. PICK g : g = l \o e
        OBVIOUS
    <2>2. Assoc(f, g, x) /\ Assoc(f, l, e)
        BY <1>2, <2>1, ConcatAssoc
    <2>3. v \o ((l \o e) \o x) = ((f \o l) \o e) \o x
        BY <1>5, <2>1, <2>2 DEF Assoc
    <2> QED
        BY <1>1, <1>3, <2>3
<1> QED
    BY <1>1, <1>4, <1>5

(* What a plan says of its k-th chunk.                                     *)
PlanAt(cs, W, D, k) ==
    /\ cs[k] \in Seq(Byte) /\ Len(cs[k]) \in Nat /\ Len(cs[k]) # 0
    /\ k \in 0 .. Len(cs) /\ k - 1 \in 0 .. Len(cs)
    /\ W[k] \in Seq(Byte) /\ D[k] \in Seq(Byte) /\ D[k - 1] = cs[k] \o D[k]
    /\ (cs[k] \o CRLF) \o W[k] \in Seq(Byte)
    /\ ChunkSent(cs, W, k)

(* A plan says so of every chunk.                                          *)
LEMMA PlanParts ==
    ASSUME NEW cs, NEW W, NEW D, IsPlan(cs, W, D), NEW k \in 1 .. Len(cs)
    PROVE  PlanAt(cs, W, D, k)
<1>1. cs[k] \in Seq(Byte) /\ Len(cs[k]) # 0 /\ k \in 0 .. Len(cs) /\ k - 1 \in 0 .. Len(cs)
    BY DEF IsPlan
<1>2. W[k] \in Seq(Byte) /\ D[k] \in Seq(Byte) /\ D[k - 1] = cs[k] \o D[k] /\ ChunkSent(cs, W, k)
    BY <1>1 DEF IsPlan
<1>3. (cs[k] \o CRLF) \o W[k] \in Seq(Byte)
    BY <1>1, <1>2, ConcatBytes, LineEndBytes
<1>4. Len(cs[k]) \in Nat
    BY <1>1
<1> QED
    BY <1>1, <1>2, <1>3, <1>4 DEF PlanAt

(* A decoder that has read all of k chunks is at the start of a line,      *)
(* whether or not the data's LF is still to come.                          *)
LEMMA LineStart ==
    ASSUME NEW cs, NEW W, NEW D, IsPlan(cs, W, D), NEW k \in 0 .. Len(cs), NEW t \in Seq(Byte),
           t \o D[k] = D[0], NEW v \in {<<>>, <<"LF">>}, NEW st \in ChunkState, st.reading,
           st.buf = <<>>
    PROVE  Dec(cs, W, D, st, v \o W[k], t)
<1>1. Len(cs) \in Nat /\ W[k] \in Seq(Byte) /\ D[k] \in Seq(Byte)
    <2>1. /\ cs \in Seq(Seq(Byte)) /\ W \in [0 .. Len(cs) -> Seq(Byte)]
          /\ D \in [0 .. Len(cs) -> Seq(Byte)]
        BY DEF IsPlan
    <2> QED
        BY <2>1
<1>2. v \in Seq(Byte)
    <2>1. "LF" \in Byte
        BY ByteNames
    <2>2. PICK y : y = "LF"
        OBVIOUS
    <2>3. <<y>> \in Seq(Byte) /\ <<>> \in Seq(Byte)
        BY <2>1, <2>2
    <2> QED
        BY <2>2, <2>3
<1>3. v \o W[k] \in Seq(Byte)
    BY <1>1, <1>2, ConcatBytes
<1>4. st.buf \o (v \o W[k]) = v \o W[k]
    BY <1>3, ConcatEmptySeq
<1>5. ASSUME NEW n, NEW l \in LineFor(n), NEW x \in Seq(Byte), W[k] = (l \o CRLF) \o x,
             \A s \in LinesFor(n) : Want(cs, W, D, t, s, x)
      PROVE  InLine(cs, W, D, st, v \o W[k], t)
    <2>1. PICK s \in Lines(l) : v \o W[k] = s \o x
        <3>1. l \in Seq(Byte)
            BY DEF LineFor
        <3>2. \E s \in Lines(l) : v \o ((l \o CRLF) \o x) = s \o x
            BY <3>1, BeforeLine
        <3> QED
            BY <1>5, <3>2
    <2>2. s \in LinesFor(n)
        BY DEF LinesFor
    <2>3. s \in Seq(Byte) /\ Len(s) >= 2
        BY <2>2, LengthSaid DEF LineLike
    <2>4. Len(st.buf) < Len(s)
        BY <2>3
    <2> QED
        BY <1>4, <1>5, <2>1, <2>2, <2>3, <2>4 DEF InLine
<1>6. CASE k = Len(cs)
    <2>1. CRLF \in Seq(Byte)
        BY LineEndBytes
    <2>2. PICK l \in LineFor(0) : W[k] = (l \o CRLF) \o CRLF
        BY <1>6 DEF IsPlan
    <2>3. t = D[0]
        BY <1>6, ConcatEmptySeq DEF IsPlan
    <2>4. \A s \in LinesFor(0) : Want(cs, W, D, t, s, CRLF)
        BY <2>3 DEF Want
    <2>5. InLine(cs, W, D, st, v \o W[k], t)
        BY <1>5, <2>1, <2>2, <2>4
    <2> QED
        BY <1>3, <2>5 DEF Dec
<1>7. CASE k # Len(cs)
    <2>1. PICK j \in 1 .. Len(cs) : j - 1 = k
        <3>1. k + 1 \in 1 .. Len(cs) /\ (k + 1) - 1 = k
            BY <1>1, <1>7
        <3> QED
            BY <3>1
    <2>2. PICK x, n : x = (cs[j] \o CRLF) \o W[j] /\ n = Len(cs[j])
        OBVIOUS
    <2>3. PlanAt(cs, W, D, j)
        BY PlanParts
    <2>4. PICK l \in LineFor(n) : W[k] = (l \o CRLF) \o x
        BY <2>1, <2>2, <2>3 DEF PlanAt, ChunkSent
    <2>5. x \in Seq(Byte)
        BY <2>2, <2>3 DEF PlanAt
    <2>6. \A s \in LinesFor(n) : Want(cs, W, D, t, s, x)
        BY <2>1, <2>2 DEF Want
    <2>7. InLine(cs, W, D, st, v \o W[k], t)
        BY <1>5, <2>4, <2>5, <2>6
    <2> QED
        BY <1>3, <2>7 DEF Dec
<1> QED
    BY <1>6, <1>7

(* A decoder that has read a line is a decoder.                            *)
LEMMA LineRead ==
    \A st \in ChunkState, n \in Nat, r \in BOOLEAN :
        [st EXCEPT !.len = n, !.buf = <<>>, !.reading = r] \in ChunkState
<1>1. <<>> \in Seq(Byte)
    OBVIOUS
<1>2. PICK e \in Seq(Byte) : e = <<>>
    BY <1>1
<1>3. \A st \in ChunkState, n \in Nat, r \in BOOLEAN :
        [st EXCEPT !.len = n, !.buf = e, !.reading = r] \in ChunkState
    BY DEF ChunkState
<1> QED
    BY <1>2, <1>3

(* One byte of a line, whatever the line is, keeps the decoder in step     *)
(* with what the peer sent.                                                *)
LEMMA LengthStep ==
    ASSUME NEW cs, NEW W, NEW D, IsPlan(cs, W, D), NEW st, NEW b \in Byte, NEW u \in Seq(Byte), NEW t,
           Dec(cs, W, D, st, <<b>> \o u, t), st.reading
    PROVE  /\ Dec(cs, W, D, LengthByte(st, b), u, t)
           /\ LengthByte(st, b).content = st.content
<1>1. st \in ChunkState /\ t \in Seq(Byte)
    BY DEF Dec
<1>2. ~AtEnd(D, st, <<b>> \o u, t)
    <2>1. <<b>> \in Seq(Byte) /\ Len(<<b>>) = 1
        OBVIOUS
    <2>2. Len(<<b>> \o u) = 1 + Len(u) /\ Len(u) \in Nat
        BY <2>1, ConcatProperties
    <2>3. Len(<<>>) = 0
        OBVIOUS
    <2> QED
        BY <2>2, <2>3 DEF AtEnd
<1>3. PICK s \in Seq(Byte), x \in Seq(Byte) :
         Want(cs, W, D, t, s, x) /\ st.buf \o (<<b>> \o u) = s \o x /\ Len(st.buf) < Len(s)
    BY <1>2 DEF Dec, InLine
<1>4. LineLike(s)
    BY <1>3, EmptyLine, LengthSaid DEF Want
<1>5. PICK c : c = Append(st.buf, b)
    OBVIOUS
<1>6. st.buf \in Seq(Byte)
    BY <1>1 DEF ChunkState
<1>7. /\ c \in Seq(Byte) /\ c \o u = s \o x
      /\ (~EndsLine(c) /\ Len(c) < Len(s)) \/ (EndsLine(c) /\ c = s /\ u = x)
    <2>1. InOrAfter(Append(st.buf, b), u, s, x)
        BY <1>3, <1>4, <1>6, LineByte
    <2> QED
        BY <1>5, <2>1 DEF InOrAfter
<1>8. CASE ~EndsLine(c) /\ Len(c) < Len(s)
    <2>1. LengthByte(st, b) = [st EXCEPT !.buf = c]
        BY <1>5, <1>8 DEF LengthByte
    <2>2. PICK z : z = LengthByte(st, b)
        OBVIOUS
    <2>3. z \in ChunkState /\ z.buf = c /\ z.reading /\ z.content = st.content
        BY <1>1, <1>7, <2>1, <2>2 DEF ChunkState
    <2>4. InLine(cs, W, D, z, u, t)
        BY <1>3, <1>7, <1>8, <2>3 DEF InLine
    <2> QED
        BY <1>1, <2>2, <2>3, <2>4 DEF Dec
<1>9. CASE EndsLine(c) /\ c = s /\ u = x
    <2>1. PICK n : n = Strtoll(SubSeq(s, 1, Len(s) - 2))
        OBVIOUS
    <2>2. PICK z : z = [st EXCEPT !.len = n, !.buf = <<>>, !.reading = (n = 0)]
        OBVIOUS
    <2>3. LengthByte(st, b) = z
        BY <1>5, <1>9, <2>1, <2>2 DEF LengthByte
    <2>4. z.buf = <<>> /\ z.content = st.content /\ z.len = n /\ z.reading = (n = 0)
        BY <1>1, <2>2 DEF ChunkState
    <2>5. n \in Nat => z \in ChunkState
        <3>1. (n = 0) \in BOOLEAN
            OBVIOUS
        <3>2. PICK r \in BOOLEAN : z = [st EXCEPT !.len = n, !.buf = <<>>, !.reading = r]
            BY <2>2, <3>1
        <3>3. n \in Nat => [st EXCEPT !.len = n, !.buf = <<>>, !.reading = r] \in ChunkState
            BY <1>1, LineRead
        <3> QED
            BY <3>2, <3>3
    <2>11. (n = 0 => z.reading) /\ (n # 0 => ~z.reading)
        BY <2>4, Zenon
    <2>12. n = 0 => z \in ChunkState
        BY <2>5
    <2>6. ASSUME NEW k \in 0 .. Len(cs), t \o D[k] = D[0], s = CRLF, x = W[k]
          PROVE  Dec(cs, W, D, z, u, t)
        <3>1. n = 0
            BY <2>1, <2>6, EmptyLine
        <3>2. z \in ChunkState /\ z.reading
            BY <2>11, <2>12, <3>1, Zenon
        <3>3. Dec(cs, W, D, z, <<>> \o W[k], t)
            BY <1>1, <2>4, <2>6, <3>2, LineStart
        <3>4. <<>> \o W[k] = u
            BY <1>9, <2>6, ConcatEmptySeq
        <3> QED
            BY <3>3, <3>4
    <2>7. ASSUME NEW k \in 1 .. Len(cs), t \o D[k - 1] = D[0], s \in LinesFor(Len(cs[k])),
                 x = (cs[k] \o CRLF) \o W[k]
          PROVE  Dec(cs, W, D, z, u, t)
        <3>1. PlanAt(cs, W, D, k)
            BY PlanParts
        <3>2. PICK m : m = Len(cs[k])
            OBVIOUS
        <3>3. m \in Nat /\ m # 0
            BY <3>1, <3>2 DEF PlanAt
        <3>4. n = m
            BY <2>1, <2>7, <3>2, LengthSaid
        <3>5. z \in ChunkState /\ ~z.reading /\ 0 < m
            <4>1. n \in Nat /\ n # 0 /\ 0 < m
                BY <3>3, <3>4
            <4> QED
                BY <2>5, <2>11, <4>1, Zenon
        <3>6. z.buf \o u = (cs[k] \o CRLF) \o W[k] /\ Len(z.buf) = 0
            BY <1>9, <2>4, <2>7, ConcatEmptySeq
        <3>7. InData(cs, W, D, z, u, t)
            BY <2>4, <2>7, <3>2, <3>4, <3>5, <3>6 DEF InData
        <3> QED
            BY <1>1, <3>5, <3>7 DEF Dec
    <2>8. ASSUME t = D[0], s \in LinesFor(0), x = CRLF
          PROVE  Dec(cs, W, D, z, u, t)
        <3>2. n = 0
            BY <2>1, <2>8, LengthSaid
        <3>3. z \in ChunkState /\ z.reading
            BY <2>11, <2>12, <3>2, Zenon
        <3>4. Want(cs, W, D, t, CRLF, <<>>) /\ <<>> \in Seq(Byte)
            BY <2>8 DEF Want
        <3>5. z.buf \o u = CRLF /\ CRLF \o <<>> = CRLF /\ Len(z.buf) < Len(CRLF)
            BY <1>9, <2>4, <2>8, ConcatEmptySeq, LineEndBytes
        <3>6. InLine(cs, W, D, z, u, t)
            BY <3>4, <3>5, LineEndBytes DEF InLine
        <3> QED
            BY <1>1, <3>3, <3>6 DEF Dec
    <2>9. ASSUME t = D[0], s = CRLF, x = <<>>
          PROVE  Dec(cs, W, D, z, u, t)
        <3>1. n = 0
            BY <2>1, <2>9, EmptyLine
        <3>2. z \in ChunkState /\ z.reading
            BY <2>11, <2>12, <3>1, Zenon
        <3> QED
            BY <1>1, <1>9, <2>4, <2>9, <3>2 DEF Dec, AtEnd
    <2>10. Dec(cs, W, D, z, u, t)
        BY <1>3, <2>6, <2>7, <2>8, <2>9 DEF Want
    <2> QED
        BY <2>3, <2>4, <2>10
<1> QED
    BY <1>7, <1>8, <1>9

(* The decoder after it has taken p of the data of chunk j, of which buf   *)
(* was there; q is left of the piece, and r is still to come.              *)
Taken(cs, W, D, j, t, buf, p, q, r, z) ==
    /\ Len(buf) + Len(p) = Len(cs[j]) =>
          buf \o p = cs[j] /\ q \o r = CRLF \o W[j] /\ (t \o (buf \o p)) \o D[j] = D[0]
    /\ Len(buf) + Len(p) < Len(cs[j]) /\ z.buf = buf \o p /\ z.len = Len(cs[j]) /\ ~z.reading =>
          Dec(cs, W, D, z, q \o r, t)

(* If no more than the chunk is taken, the chunk is complete or the        *)
(* decoder is still in it.                                                 *)
LEMMA DataTaken ==
    ASSUME NEW cs, NEW W, NEW D, IsPlan(cs, W, D), NEW j \in 1 .. Len(cs),
           NEW t \in Seq(Byte), t \o D[j - 1] = D[0],
           NEW buf \in Seq(Byte), NEW p \in Seq(Byte), NEW q \in Seq(Byte), NEW r \in Seq(Byte),
           buf \o ((p \o q) \o r) = (cs[j] \o CRLF) \o W[j],
           NEW z \in ChunkState, Len(buf) + Len(p) <= Len(cs[j])
    PROVE  Taken(cs, W, D, j, t, buf, p, q, r, z)
<1>1. PlanAt(cs, W, D, j)
    BY PlanParts
<1>2. PICK c \in Seq(Byte), w \in Seq(Byte), e \in Seq(Byte) : c = cs[j] /\ w = W[j] /\ e = CRLF
    BY <1>1, LineEndBytes DEF PlanAt
<1>3. PICK x, y : x = buf \o p /\ y = q \o r
    OBVIOUS
<1>4. x \in Seq(Byte) /\ y \in Seq(Byte) /\ Len(x) = Len(buf) + Len(p)
    BY <1>3, ConcatProperties
<1>5. x \o y = (c \o e) \o w
    <2>1. Regrouped(buf, p, q, r)
        BY Regroup
    <2> QED
        BY <1>2, <1>3, <2>1 DEF Regrouped
<1>6. ASSUME Len(x) = Len(c) PROVE x = c /\ y = e \o w /\ (t \o x) \o D[j] = D[0]
    <2>0. PICK f : f = e \o w
        OBVIOUS
    <2>1. Assoc(c, e, w) /\ Assoc(t, c, D[j]) /\ f \in Seq(Byte)
        BY <1>1, <2>0, ConcatAssoc, ConcatBytes DEF PlanAt
    <2>6. x \o y = c \o f
        BY <1>5, <2>0, <2>1 DEF Assoc
    <2>2. x = c /\ y = e \o w
        BY <1>4, <1>6, <2>0, <2>1, <2>6, SplitEqual
    <2>3. PICK d \in Seq(Byte) : d = D[j]
        BY <1>1 DEF PlanAt
    <2>4. t \o (c \o d) = D[0]
        BY <1>1, <1>2, <2>3 DEF PlanAt
    <2> QED
        BY <2>1, <2>2, <2>3, <2>4 DEF Assoc
<1>7. ASSUME Len(x) < Len(c), z.buf = x, z.len = Len(c), ~z.reading PROVE Dec(cs, W, D, z, y, t)
    <2>1. InData(cs, W, D, z, y, t)
        BY <1>2, <1>5, <1>7 DEF InData
    <2> QED
        BY <1>4, <1>7, <2>1 DEF Dec
<1> QED
    BY <1>2, <1>3, <1>4, <1>6, <1>7 DEF Taken

(* A decoder that has taken data is a decoder.                             *)
LEMMA DataRead ==
    ASSUME NEW st \in ChunkState, NEW p \in Seq(Byte)
    PROVE  LET z == DataBytes(st, p)
           IN /\ z \in ChunkState
              /\ Len(st.buf) + Len(p) >= st.len =>
                    z.reading /\ z.buf = <<>> /\ z.content = st.content \o (st.buf \o p)
              /\ Len(st.buf) + Len(p) < st.len =>
                    z.reading = st.reading /\ z.len = st.len /\ z.buf = st.buf \o p /\ z.content = st.content
<1>1. st.buf \in Seq(Byte) /\ st.content \in Seq(Byte) /\ st.len \in Nat
    BY DEF ChunkState
<1>2. PICK c : c = st.buf \o p
    OBVIOUS
<1>3. c \in Seq(Byte) /\ Len(c) = Len(st.buf) + Len(p)
    BY <1>1, <1>2, ConcatProperties
<1>4. PICK d : d = st.content \o c
    OBVIOUS
<1>5. d \in Seq(Byte)
    BY <1>1, <1>3, <1>4, ConcatBytes
<1>6. PICK e \in Seq(Byte) : e = <<>>
    <2>1. <<>> \in Seq(Byte)
        OBVIOUS
    <2> QED
        BY <2>1
<1>7. Len(c) \in Nat
    BY <1>3
<1>8. CASE Len(c) >= st.len
    <2>1. DataBytes(st, p) = [st EXCEPT !.reading = TRUE, !.content = d, !.buf = e]
        BY <1>2, <1>4, <1>6, <1>8 DEF DataBytes
    <2>2. [st EXCEPT !.reading = TRUE, !.content = d, !.buf = e] \in ChunkState
        BY <1>5 DEF ChunkState
    <2>3. ~(Len(c) < st.len)
        BY <1>1, <1>7, <1>8
    <2>4. /\ [st EXCEPT !.reading = TRUE, !.content = d, !.buf = e].reading
          /\ [st EXCEPT !.reading = TRUE, !.content = d, !.buf = e].buf = e
          /\ [st EXCEPT !.reading = TRUE, !.content = d, !.buf = e].content = d
        BY DEF ChunkState
    <2> QED
        BY <1>2, <1>3, <1>4, <1>6, <2>1, <2>2, <2>3, <2>4
<1>9. CASE ~(Len(c) >= st.len)
    <2>1. DataBytes(st, p) = [st EXCEPT !.buf = c]
        BY <1>2, <1>9 DEF DataBytes
    <2>2. [st EXCEPT !.buf = c] \in ChunkState
        BY <1>3 DEF ChunkState
    <2>3. /\ [st EXCEPT !.buf = c].reading = st.reading
          /\ [st EXCEPT !.buf = c].len = st.len
          /\ [st EXCEPT !.buf = c].buf = c
          /\ [st EXCEPT !.buf = c].content = st.content
        BY DEF ChunkState
    <2> QED
        BY <1>2, <1>3, <1>9, <2>1, <2>2, <2>3
<1> QED
    BY <1>8, <1>9

(* Data: p is taken, of the rest q of the piece one byte more is left out. *)
LEMMA DataStep ==
    ASSUME NEW cs, NEW W, NEW D, IsPlan(cs, W, D), NEW st, NEW g \in Seq(Byte),
           NEW p \in Seq(Byte), NEW q \in Seq(Byte), NEW r \in Seq(Byte), NEW y \in Seq(Byte),
           Dec(cs, W, D, st, (p \o q) \o r, g \o st.content), ~st.reading,
           Len(st.buf) + Len(p) <= st.len,
           \/ q = <<>> /\ y = <<>>
           \/ Len(st.buf) + Len(p) = st.len /\ \E b \in Byte : q = <<b>> \o y
    PROVE  Dec(cs, W, D, DataBytes(st, p), y \o r, g \o DataBytes(st, p).content)
<1>1. st \in ChunkState
    BY DEF Dec
<1>2. PICK buf \in Seq(Byte), t \in Seq(Byte), len \in Nat : buf = st.buf /\ t = st.content /\ len = st.len
    BY <1>1 DEF ChunkState
<1>3. PICK j \in 1 .. Len(cs) :
         /\ (g \o t) \o D[j - 1] = D[0] /\ len = Len(cs[j]) /\ Len(buf) < len
         /\ buf \o ((p \o q) \o r) = (cs[j] \o CRLF) \o W[j]
    BY <1>2 DEF Dec, InData
<1>4. PICK h \in Seq(Byte) : h = g \o t
    BY ConcatBytes
<1>5. PICK z : z = DataBytes(st, p)
    OBVIOUS
<1>6. z \in ChunkState
    BY <1>1, <1>5, DataRead
<1>7. /\ Len(buf) + Len(p) = len => buf \o p = cs[j] /\ q \o r = CRLF \o W[j] /\ (h \o (buf \o p)) \o D[j] = D[0]
      /\ Len(buf) + Len(p) < len /\ z.buf = buf \o p /\ z.len = len /\ ~z.reading =>
                 Dec(cs, W, D, z, q \o r, h)
    <2>1. h \o D[j - 1] = D[0] /\ Len(buf) + Len(p) <= Len(cs[j])
        BY <1>2, <1>3, <1>4
    <2>2. Taken(cs, W, D, j, h, buf, p, q, r, z)
        BY <1>3, <1>6, <2>1, DataTaken
    <2> QED
        BY <1>3, <2>2 DEF Taken
<1>8. PICK e, w : e = CRLF /\ w = W[j]
    OBVIOUS
<1>9. e \in Seq(Byte) /\ w \in Seq(Byte) /\ j \in 0 .. Len(cs)
    BY <1>8, LineEndBytes, PlanParts DEF PlanAt
<1>10. CASE Len(buf) + Len(p) = len
    <2>1. z.reading /\ z.buf = <<>> /\ z.content = t \o (buf \o p)
        <3>1. Len(buf) + Len(p) >= len
            BY <1>10
        <3> QED
            BY <1>1, <1>2, <1>5, <3>1, DataRead
    <2>2. PICK x \in Seq(Byte) : x = buf \o p
        BY ConcatBytes
    <2>3. Assoc(g, t, x)
        BY ConcatAssoc
    <2>4. PICK v \in Seq(Byte) : v = g \o z.content
        BY <1>6, ConcatBytes DEF ChunkState
    <2>5. v \o D[j] = D[0] /\ q \o r = e \o w
        BY <1>4, <1>7, <1>8, <1>10, <2>1, <2>2, <2>3, <2>4 DEF Assoc
    <2>6. ASSUME q = <<>>, y = <<>> PROVE Dec(cs, W, D, z, y \o r, v)
        <3>1. q \o r = r /\ y \o r = r
            BY <2>6, ConcatEmptySeq
        <3>2. z.buf \o r = e \o w /\ Len(z.buf) = 0 /\ 0 < Len(e)
            BY <1>8, <2>1, <2>5, <3>1, ConcatEmptySeq, LineEndBytes
        <3>3. Want(cs, W, D, v, e, w)
            BY <1>8, <1>9, <2>5 DEF Want
        <3>4. InLine(cs, W, D, z, r, v)
            BY <1>9, <3>2, <3>3 DEF InLine
        <3> QED
            BY <1>6, <2>1, <3>1, <3>4 DEF Dec
    <2>7. ASSUME NEW b \in Byte, q = <<b>> \o y PROVE Dec(cs, W, D, z, y \o r, v)
        <3>1. PICK l, f, n : l = <<"LF">> /\ f = <<"CR">> /\ n = <<b>>
            OBVIOUS
        <3>2. l \in Seq(Byte) /\ f \in Seq(Byte) /\ Len(f) = 1 /\ n \in Seq(Byte) /\ Len(n) = 1 /\ e = f \o l
            BY <1>8, <3>1, ByteLists
        <3>3. PICK a, c : a = y \o r /\ c = l \o w
            OBVIOUS
        <3>4. a \in Seq(Byte) /\ c \in Seq(Byte)
            BY <1>9, <3>2, <3>3, ConcatBytes
        <3>5. Assoc(n, y, r) /\ Assoc(f, l, w)
            BY <1>9, <3>2, ConcatAssoc
        <3>6. n \o a = f \o c
            BY <2>5, <2>7, <3>1, <3>2, <3>3, <3>5 DEF Assoc
        <3>7. a = c
            BY <3>2, <3>4, <3>6, SplitEqual
        <3>8. Dec(cs, W, D, z, <<"LF">> \o W[j], v)
            BY <1>6, <1>9, <2>1, <2>5, LineStart
        <3> QED
            BY <1>8, <3>1, <3>3, <3>7, <3>8
    <2> QED
        BY <1>2, <1>5, <2>4, <2>6, <2>7
<1>11. CASE Len(buf) + Len(p) # len
    <2>1. Len(buf) + Len(p) < len
        <3>1. \A m, n \in Nat : m <= n /\ m # n => m < n
            OBVIOUS
        <3>2. Len(buf) + Len(p) \in Nat /\ Len(buf) + Len(p) <= len
            BY <1>2
        <3> QED
            BY <1>11, <3>1, <3>2
    <2>2. ~z.reading /\ z.len = len /\ z.buf = buf \o p /\ z.content = t
        BY <1>1, <1>2, <1>5, <2>1, DataRead
    <2>3. Dec(cs, W, D, z, q \o r, h)
        BY <1>7, <2>1, <2>2
    <2>4. q = <<>> /\ y = <<>>
        BY <1>2, <1>11
    <2> QED
        BY <1>4, <1>5, <2>2, <2>3, <2>4
<1> QED
    BY <1>10, <1>11

(* What is left of s from i on, after k bytes more: nothing past the end,  *)
(* and otherwise these bytes and the rest.                                 *)
FromParts(s, i, k) ==
    /\ SubSeq(s, i, i + k - 1) \in Seq(Byte) /\ Len(SubSeq(s, i, i + k - 1)) = k
    /\ From(s, i + k) \in Seq(Byte) /\ Len(From(s, i + k)) = Len(s) - (i + k) + 1
    /\ From(s, i) = SubSeq(s, i, i + k - 1) \o From(s, i + k)

(* So it is as long as there are k bytes.                                  *)
LEMMA FromSplit ==
    ASSUME NEW s \in Seq(Byte), NEW i \in 1 .. Len(s) + 1, NEW k \in 0 .. Len(s) - i + 1
    PROVE  FromParts(s, i, k)
<1>1. PICK m \in Nat : m = Len(s)
    OBVIOUS
<1>2. PICK a, p, q : a = SubSeq(s, i, m) /\ p = SubSeq(s, i, i + k - 1) /\ q = SubSeq(s, i + k, m)
    OBVIOUS
<1>3. i \in Nat /\ k \in Nat /\ i >= 1 /\ i + k <= m + 1 /\ i <= m + 1
    BY <1>1
<1>4. a \in Seq(Byte) /\ Len(a) = m - i + 1 /\ \A j \in 1 .. m - i + 1 : a[j] = s[i + j - 1]
    BY <1>1, <1>2, <1>3
<1>5. p \in Seq(Byte) /\ Len(p) = k /\ \A j \in 1 .. k : p[j] = s[i + j - 1]
    <2>1. i + k - 1 \in 0 .. m /\ i + k - 1 - i + 1 = k
        BY <1>3
    <2> QED
        BY <1>1, <1>2, <1>3, <2>1
<1>6. q \in Seq(Byte) /\ Len(q) = m - (i + k) + 1 /\ \A j \in 1 .. m - (i + k) + 1 : q[j] = s[(i + k) + j - 1]
    <2>1. PICK n \in Nat : n = i + k
        BY <1>3
    <2>2. n \in 1 .. m + 1 /\ q = SubSeq(s, n, m)
        BY <1>2, <1>3, <2>1
    <2>3. q \in Seq(Byte) /\ Len(q) = m - n + 1 /\ \A j \in 1 .. m - n + 1 : q[j] = s[n + j - 1]
        BY <1>1, <2>2
    <2> QED
        BY <2>1, <2>3
<1>7. p \o q \in Seq(Byte) /\ Len(p \o q) = m - i + 1
    <2>1. p \o q \in Seq(Byte) /\ Len(p \o q) = Len(p) + Len(q)
        BY <1>5, <1>6, ConcatProperties
    <2> QED
        BY <1>3, <1>5, <1>6, <2>1
<1>8. ASSUME NEW j \in 1 .. m - i + 1 PROVE (p \o q)[j] = a[j]
    <2>1. (p \o q)[j] = IF j <= k THEN p[j] ELSE q[j - k]
        <3>1. \A l \in 1 .. Len(p) + Len(q) : (p \o q)[l] = IF l <= Len(p) THEN p[l] ELSE q[l - Len(p)]
            BY <1>5, <1>6, ConcatProperties
        <3>2. j \in 1 .. Len(p) + Len(q)
            BY <1>3, <1>5, <1>6
        <3> QED
            BY <1>5, <3>1, <3>2
    <2>2. CASE j <= k
        <3>1. j \in 1 .. k
            BY <2>2
        <3> QED
            BY <1>4, <1>5, <2>1, <2>2, <3>1
    <2>3. CASE ~(j <= k)
        <3>1. j - k \in 1 .. m - (i + k) + 1 /\ (i + k) + (j - k) - 1 = i + j - 1
            BY <1>3, <2>3
        <3> QED
            BY <1>4, <1>6, <2>1, <2>3, <3>1
    <2> QED
        BY <2>2, <2>3
<1>9. a = p \o q
    BY <1>4, <1>7, <1>8, SeqEqual
<1> QED
    BY <1>1, <1>2, <1>5, <1>6, <1>9 DEF From, FromParts

(* Past the end there is nothing.                                          *)
LEMMA FromPast ==
    ASSUME NEW s \in Seq(Byte), NEW i \in Nat, i > Len(s)
    PROVE  From(s, i) = <<>>
<1>1. PICK a : a = SubSeq(s, i, Len(s))
    OBVIOUS
<1>2. a \in Seq(Byte) /\ Len(a) = 0
    BY <1>1
<1> QED
    BY <1>1, <1>2, EmptySeq DEF From

(* One byte of a sequence.                                                 *)
LEMMA OneByte ==
    ASSUME NEW s \in Seq(Byte), NEW i \in 1 .. Len(s)
    PROVE  SubSeq(s, i, i) = <<s[i]>> /\ s[i] \in Byte
<1>1. PICK a, b : a = SubSeq(s, i, i) /\ b = <<s[i]>>
    OBVIOUS
<1>2. a \in Seq(Byte) /\ Len(a) = 1 /\ a[1] = s[i]
    <2>1. i \in 1 .. Len(s) + 1 /\ i \in 0 .. Len(s) /\ i - i + 1 = 1
        OBVIOUS
    <2>2. a \in Seq(Byte) /\ Len(a) = 1
        BY <1>1, <2>1
    <2>3. a[1] = s[i + 1 - 1] /\ i + 1 - 1 = i
        BY <1>1, <2>1, <2>2
    <2> QED
        BY <2>2, <2>3
<1>3. s[i] \in Byte
    OBVIOUS
<1>4. b \in Seq(Byte) /\ Len(b) = 1 /\ b[1] = s[i]
    BY <1>1, <1>3
<1>5. a = b
    BY <1>2, <1>4, SeqEqual
<1> QED
    BY <1>1, <1>3, <1>5

(* Before round n of the decoder it is at byte n at least, and in step     *)
(* with what is left of the piece and of the wire.                         *)
RoundOk(cs, W, D, input, r, g, p, n) ==
    /\ p.i \in Nat /\ p.i > n
    /\ Dec(cs, W, D, p.st, From(input, p.i) \o r, g \o p.st.content)

(* A round of the decoder's loop.                                          *)
LEMMA RoundStep ==
    ASSUME NEW cs, NEW W, NEW D, IsPlan(cs, W, D), NEW input \in Seq(Byte), NEW r \in Seq(Byte),
           NEW g \in Seq(Byte), NEW p, NEW n \in Nat, n < Len(input),
           RoundOk(cs, W, D, input, r, g, p, n)
    PROVE  RoundOk(cs, W, D, input, r, g, ChunkRound(input, p), n + 1)
<1>1. PICK i, st : i = p.i /\ st = p.st
    OBVIOUS
<1>2. i \in Nat /\ i > n /\ i >= 1 /\ Dec(cs, W, D, st, From(input, i) \o r, g \o st.content)
    BY <1>1 DEF RoundOk
<1>3. st \in ChunkState /\ Len(input) \in Nat
    BY <1>2 DEF Dec
<1>4. CASE i > Len(input)
    <2>1. ChunkRound(input, p) = p
        BY <1>1, <1>4 DEF ChunkRound
    <2>2. i > n + 1
        BY <1>2, <1>3, <1>4
    <2> QED
        BY <1>1, <1>2, <2>1, <2>2 DEF RoundOk
<1>5. CASE ~(i > Len(input)) /\ st.reading
    <2>1. i \in 1 .. Len(input) + 1 /\ 1 \in 0 .. Len(input) - i + 1 /\ i \in 1 .. Len(input)
        BY <1>2, <1>3, <1>5
    <2>2. FromParts(input, i, 1)
        BY <2>1, FromSplit
    <2>3. PICK b \in Byte, f \in Seq(Byte) : b = input[i] /\ f = From(input, i + 1)
        BY <2>1, <2>2 DEF FromParts
    <2>4. SubSeq(input, i, i + 1 - 1) = <<b>>
        <3>1. i + 1 - 1 = i
            BY <1>2
        <3>2. SubSeq(input, i, i) = <<input[i]>>
            BY <2>1, OneByte
        <3> QED
            BY <2>3, <3>1, <3>2
    <2>5. PICK l \in Seq(Byte) : l = <<b>>
        BY ByteLists
    <2>6. f \in Seq(Byte) /\ From(input, i) = l \o f
        BY <2>2, <2>3, <2>4, <2>5 DEF FromParts
    <2>7. Assoc(l, f, r) /\ f \o r \in Seq(Byte)
        BY <2>6, ConcatAssoc, ConcatBytes
    <2>8. PICK u \in Seq(Byte), t \in Seq(Byte) : u = f \o r /\ t = g \o st.content
        <3>1. st.content \in Seq(Byte)
            BY <1>3 DEF ChunkState
        <3>2. g \o st.content \in Seq(Byte)
            BY <3>1, ConcatBytes
        <3> QED
            BY <2>7, <3>2
    <2>9. Dec(cs, W, D, st, <<b>> \o u, t)
        BY <1>2, <2>5, <2>6, <2>7, <2>8 DEF Assoc
    <2>10. /\ Dec(cs, W, D, LengthByte(st, b), u, t)
           /\ LengthByte(st, b).content = st.content
        BY <1>5, <2>9, LengthStep
    <2>11. PICK z : z = ChunkRound(input, p)
        OBVIOUS
    <2>12. z = [i |-> i + 1, st |-> LengthByte(st, b)]
        BY <1>1, <1>5, <2>3, <2>11 DEF ChunkRound
    <2>13. z.i = i + 1 /\ z.st = LengthByte(st, b)
        BY <2>12
    <2>14. i + 1 \in Nat /\ i + 1 > n + 1
        BY <1>2
    <2>15. RoundOk(cs, W, D, input, r, g, z, n + 1)
        BY <2>3, <2>8, <2>10, <2>13, <2>14 DEF RoundOk
    <2> QED
        BY <2>11, <2>15
<1>6. CASE ~(i > Len(input)) /\ ~st.reading
    <2>1. PICK left, there, k : /\ left = st.len - Len(st.buf) /\ there = Len(input) - i + 1
                                /\ k = DataTake(st, input, i)
        OBVIOUS
    <2>2. k = IF left < there THEN left ELSE there
        BY <2>1 DEF DataTake
    <2>3. Len(st.buf) \in Nat /\ st.len \in Nat /\ Len(st.buf) < st.len
        <3>1. \E j \in 1 .. Len(cs) : Len(st.buf) < st.len
            BY <1>2, <1>6 DEF Dec, InData
        <3> QED
            BY <1>3, <3>1 DEF ChunkState
    <2>4. left \in Nat /\ there \in Nat /\ k \in Nat /\ k <= there /\ k <= left /\ there >= 1 /\ left >= 1
        BY <1>2, <1>3, <1>6, <2>1, <2>2, <2>3, SMTT(20)
    <2>5. i \in 1 .. Len(input) + 1 /\ k \in 0 .. Len(input) - i + 1
        BY <1>2, <1>3, <1>6, <2>1, <2>4
    <2>6. FromParts(input, i, k)
        BY <2>5, FromSplit
    <2>7. PICK c, q, y : c = SubSeq(input, i, i + k - 1) /\ q = From(input, i + k) /\ y = From(input, i + k + 1)
        OBVIOUS
    <2>8. c \in Seq(Byte) /\ Len(c) = k /\ q \in Seq(Byte) /\ From(input, i) = c \o q
        BY <2>6, <2>7 DEF FromParts
    <2>9. Dec(cs, W, D, st, (c \o q) \o r, g \o st.content)
        BY <1>2, <2>8
    <2>10. Len(st.buf) + Len(c) <= st.len
        BY <2>1, <2>3, <2>4, <2>8
    <2>11. /\ y \in Seq(Byte)
           /\ \/ q = <<>> /\ y = <<>>
              \/ Len(st.buf) + Len(c) = st.len /\ \E b \in Byte : q = <<b>> \o y
        <3>1. CASE k = there
            <4>1. i + k > Len(input) /\ i + k + 1 > Len(input) /\ i + k \in Nat /\ i + k + 1 \in Nat
                BY <1>2, <1>3, <2>1, <2>4, <3>1
            <4>2. q = <<>> /\ y = <<>>
                BY <2>7, <4>1, FromPast
            <4> QED
                BY <2>8, <4>2
        <3>2. CASE k # there
            <4>1. k = left
                BY <2>2, <3>2
            <4>2. PICK m : m = i + k
                OBVIOUS
            <4>3. m \in 1 .. Len(input) /\ m \in 1 .. Len(input) + 1 /\ 1 \in 0 .. Len(input) - m + 1
                <5>1. k < there /\ there = Len(input) - i + 1
                    BY <2>1, <2>4, <3>2
                <5>2. m \in Nat /\ m >= 1 /\ m <= Len(input)
                    BY <1>2, <1>3, <2>4, <4>2, <5>1
                <5> QED
                    BY <1>3, <5>2
            <4>4. FromParts(input, m, 1) /\ SubSeq(input, m, m) = <<input[m]>> /\ input[m] \in Byte
                BY <4>3, FromSplit, OneByte
            <4>5. m + 1 - 1 = m
                BY <4>3
            <4>6. y \in Seq(Byte) /\ q = <<input[m]>> \o y
                BY <2>7, <4>2, <4>4, <4>5 DEF FromParts
            <4>7. Len(st.buf) + Len(c) = st.len
                BY <2>1, <2>3, <2>8, <4>1
            <4> QED
                BY <4>4, <4>6, <4>7
        <3> QED
            BY <3>1, <3>2
    <2>12. Dec(cs, W, D, DataBytes(st, c), y \o r, g \o DataBytes(st, c).content)
        BY <1>6, <2>8, <2>9, <2>10, <2>11, DataStep
    <2>13. PICK z : z = ChunkRound(input, p)
        OBVIOUS
    <2>14. z = [i |-> i + k + 1, st |-> DataBytes(st, c)]
        BY <1>1, <1>6, <2>1, <2>7, <2>13 DEF ChunkRound
    <2>15. z.i = i + k + 1 /\ z.st = DataBytes(st, c)
        BY <2>14
    <2>16. i + k + 1 \in Nat /\ i + k + 1 > n + 1
        <3>1. k >= 1
            BY <2>2, <2>4
        <3> QED
            BY <1>2, <2>4, <3>1
    <2>17. RoundOk(cs, W, D, input, r, g, z, n + 1)
        BY <2>7, <2>12, <2>15, <2>16 DEF RoundOk
    <2> QED
        BY <2>13, <2>17
<1> QED
    BY <1>4, <1>5, <1>6

(* The states of the decoder's loop: a function that starts with st0 and   *)
(* goes on by ChunkRound.                                                  *)
IsRounds(f, input, st0, n) ==
    /\ DOMAIN f = 0 .. n
    /\ f[0] = [i |-> 1, st |-> st0]
    /\ \A m \in 1 .. n : f[m] = ChunkRound(input, f[m - 1])

(* There is such a function, and the decoder's result is its last state.   *)
LEMMA RoundsExist ==
    ASSUME NEW input \in Seq(Byte), NEW st0
    PROVE  \E f : /\ IsRounds(f, input, st0, Len(input))
                  /\ chunked_encoding_round(input, st0) = f[Len(input)].st
<1> DEFINE N == Len(input)
           Body(f) == [n \in 0 .. N |-> IF n = 0 THEN [i |-> 1, st |-> st0]
                                        ELSE ChunkRound(input, f[n - 1])]
           Bad == {n \in 0 .. N : ~ \E f : IsRounds(f, input, st0, n)}
<1>1. N \in Nat
    OBVIOUS
<1>2. Bad = {}
    <2> SUFFICES ASSUME Bad # {} PROVE FALSE
        OBVIOUS
    <2>1. PICK m \in Bad : \A y \in Bad : m <= y
        <3>1. Bad \in SUBSET Nat
            <4> HIDE DEF N
            <4> QED
                BY <1>1
        <3> HIDE DEF Bad
        <3> QED
            BY <3>1, LeastOfNaturals
    <2> HIDE DEF N
    <2>2. m \in 0 .. N /\ m \in Nat /\ ~ \E f : IsRounds(f, input, st0, m)
        BY <1>1
    <2>3. CASE m = 0
        <3> DEFINE f == [n \in 0 .. 0 |-> [i |-> 1, st |-> st0]]
        <3>1. DOMAIN f = 0 .. 0 /\ f[0] = [i |-> 1, st |-> st0] /\ 1 .. 0 = {}
            OBVIOUS
        <3> HIDE DEF f
        <3>2. IsRounds(f, input, st0, 0)
            BY <3>1 DEF IsRounds
        <3> QED
            BY <2>2, <2>3, <3>2
    <2>4. CASE m # 0
        <3>1. m - 1 \in 0 .. N /\ m - 1 \notin Bad
            <4> HIDE DEF Bad
            <4> QED
                BY <1>1, <2>1, <2>2, <2>4
        <3>2. PICK g : IsRounds(g, input, st0, m - 1)
            BY <3>1
        <3> DEFINE f == [n \in 0 .. m |-> IF n = m THEN ChunkRound(input, g[m - 1]) ELSE g[n]]
        <3>3. DOMAIN f = 0 .. m
            OBVIOUS
        <3>4. \A n \in 0 .. m : f[n] = IF n = m THEN ChunkRound(input, g[m - 1]) ELSE g[n]
            OBVIOUS
        <3> HIDE DEF f, Bad
        <3>5. f[0] = g[0] /\ f[m] = ChunkRound(input, f[m - 1])
            BY <2>2, <2>4, <3>4
        <3>6. ASSUME NEW n \in 1 .. m PROVE f[n] = ChunkRound(input, f[n - 1])
            <4>1. CASE n = m
                BY <3>5, <4>1
            <4>2. CASE n # m
                <5>1. n \in 1 .. m - 1 /\ n \in 0 .. m /\ n - 1 \in 0 .. m /\ n - 1 # m
                    BY <2>2, <4>2
                <5>2. f[n] = g[n] /\ f[n - 1] = g[n - 1]
                    BY <3>4, <4>2, <5>1
                <5>3. g[n] = ChunkRound(input, g[n - 1])
                    BY <3>2, <5>1 DEF IsRounds
                <5> QED
                    BY <5>2, <5>3
            <4> QED
                BY <4>1, <4>2
        <3>7. IsRounds(f, input, st0, m)
            BY <3>2, <3>3, <3>5, <3>6 DEF IsRounds
        <3> QED
            BY <2>2, <3>7
    <2> QED
        BY <2>3, <2>4
<1>3. PICK g : IsRounds(g, input, st0, N)
    <2>1. N \in 0 .. N /\ N \notin Bad
        <3> HIDE DEF N, Bad
        <3> QED
            BY <1>1, <1>2
    <2> QED
        BY <2>1
<1> HIDE DEF N
<1>4. \E f : f = Body(f)
    <2> DEFINE h == [n \in 0 .. N |-> g[n]]
    <2>1. h = Body(h)
        <3> SUFFICES ASSUME NEW n \in 0 .. N
                     PROVE  g[n] = IF n = 0 THEN [i |-> 1, st |-> st0] ELSE ChunkRound(input, h[n - 1])
            OBVIOUS
        <3>1. CASE n = 0
            BY <1>3, <3>1 DEF IsRounds
        <3>2. CASE n # 0
            <4>1. n \in 1 .. N /\ n - 1 \in 0 .. N
                BY <1>1, <3>2
            <4>2. h[n - 1] = g[n - 1]
                BY <4>1
            <4> HIDE DEF h
            <4> QED
                BY <1>3, <3>2, <4>1, <4>2 DEF IsRounds
        <3> QED
            BY <3>1, <3>2
    <2> HIDE DEF h, Body
    <2> QED
        BY <2>1
<1> DEFINE Round == CHOOSE f : f = Body(f)
<1>5. chunked_encoding_round(input, st0) = Round[N].st
    BY DEF chunked_encoding_round, N
<1>6. Round = Body(Round)
    <2> HIDE DEF Body
    <2> QED
        BY <1>4
<1> HIDE DEF Round
<1>7. IsRounds(Round, input, st0, N)
    <2>1. DOMAIN Round = 0 .. N
        BY <1>6
    <2>2. \A n \in 0 .. N : Round[n] = IF n = 0 THEN [i |-> 1, st |-> st0]
                                       ELSE ChunkRound(input, Round[n - 1])
        BY <1>6
    <2>3. 0 \in 0 .. N /\ \A n \in 1 .. N : n \in 0 .. N /\ n # 0
        BY <1>1
    <2> HIDE DEF Body
    <2>4. Round[0] = [i |-> 1, st |-> st0] /\ \A n \in 1 .. N : Round[n] = ChunkRound(input, Round[n - 1])
        BY <2>2, <2>3
    <2> QED
        BY <2>1, <2>4 DEF IsRounds
<1> QED
    BY <1>5, <1>7 DEF N

(* However long a piece is and wherever it ends, the decoder is in step    *)
(* with the wire after it if it was so before.                             *)
LEMMA PieceDecoded ==
    ASSUME NEW cs, NEW W, NEW D, IsPlan(cs, W, D), NEW input \in Seq(Byte), NEW r \in Seq(Byte),
           NEW g \in Seq(Byte), NEW st0, Dec(cs, W, D, st0, input \o r, g \o st0.content)
    PROVE  Dec(cs, W, D, chunked_encoding_round(input, st0), r,
               g \o chunked_encoding_round(input, st0).content)
<1>1. PICK f : IsRounds(f, input, st0, Len(input)) /\ chunked_encoding_round(input, st0) = f[Len(input)].st
    BY RoundsExist
<1> DEFINE N == Len(input)
           Bad == {n \in 0 .. N : ~RoundOk(cs, W, D, input, r, g, f[n], n)}
<1>2. N \in Nat
    OBVIOUS
<1>3. Bad = {}
    <2> SUFFICES ASSUME Bad # {} PROVE FALSE
        OBVIOUS
    <2>1. PICK m \in Bad : \A y \in Bad : m <= y
        <3>1. Bad \in SUBSET Nat
            <4> HIDE DEF N
            <4> QED
                BY <1>2
        <3> HIDE DEF Bad
        <3> QED
            BY <3>1, LeastOfNaturals
    <2> HIDE DEF N
    <2>2. m \in 0 .. N /\ m \in Nat /\ ~RoundOk(cs, W, D, input, r, g, f[m], m)
        BY <1>2
    <2>3. CASE m = 0
        <3>1. PICK p : p = f[0]
            OBVIOUS
        <3>2. p.i = 1 /\ p.st = st0
            BY <1>1, <3>1 DEF IsRounds
        <3>3. From(input, 1) = input
            <4>1. SubSeq(input, 1, Len(input)) = input
                BY SubSeqFull
            <4> QED
                BY <4>1 DEF From
        <3>4. RoundOk(cs, W, D, input, r, g, p, 0)
            BY <3>2, <3>3 DEF RoundOk
        <3> QED
            BY <2>2, <2>3, <3>1, <3>4
    <2>4. CASE m # 0
        <3>1. PICK k : k = m - 1
            OBVIOUS
        <3>2. k \in 0 .. N /\ k \in Nat /\ k < N /\ k + 1 = m /\ m \in 1 .. N /\ ~(m <= k)
            BY <1>2, <2>2, <2>4, <3>1
        <3>3. RoundOk(cs, W, D, input, r, g, f[k], k)
            <4>1. k \notin Bad
                <5> HIDE DEF Bad
                <5> QED
                    BY <2>1, <3>2
            <4> QED
                BY <3>2, <4>1
        <3>4. f[m] = ChunkRound(input, f[k])
            BY <1>1, <3>1, <3>2 DEF IsRounds, N
        <3>5. RoundOk(cs, W, D, input, r, g, ChunkRound(input, f[k]), k + 1)
            BY <3>2, <3>3, RoundStep DEF N
        <3> QED
            BY <2>2, <3>2, <3>4, <3>5
    <2> QED
        BY <2>3, <2>4
<1>4. RoundOk(cs, W, D, input, r, g, f[N], N)
    <2>1. N \in 0 .. N /\ N \notin Bad
        <3> HIDE DEF N, Bad
        <3> QED
            BY <1>2, <1>3
    <2> QED
        BY <2>1
<1>5. PICK p : p = f[N]
    OBVIOUS
<1>6. From(input, p.i) = <<>>
    BY <1>4, <1>5, FromPast DEF RoundOk
<1>7. <<>> \o r = r
    BY ConcatEmptySeq
<1>8. Dec(cs, W, D, p.st, r, g \o p.st.content)
    BY <1>4, <1>5, <1>6, <1>7 DEF RoundOk
<1> QED
    BY <1>1, <1>5, <1>8

(* Every body has its plan.                                                *)
LEMMA PlanExists ==
    ASSUME NEW b \in Bodies
    PROVE  \E W, D : IsPlan(b.chunks, W, D) /\ W[0] = Wire("chunked", b)
<1>1. IsBody(b)
    BY BodyParts
<1>2. PICK cs, ls : cs = b.chunks /\ ls = b.lines
    OBVIOUS
<1>3. /\ cs \in Seq(Seq(Byte)) /\ DOMAIN cs = 1 .. Len(cs) /\ Len(cs) \in Nat
      /\ \A k \in 1 .. Len(cs) : cs[k] \in Seq(Byte) /\ Len(cs[k]) # 0 /\ ls[k] \in LineFor(Len(cs[k]))
    BY <1>1, <1>2 DEF IsBody
<1>4. PICK l \in LineFor(0) : l = ls[Len(cs) + 1] /\ l \in Seq(Byte)
    BY <1>1, <1>2 DEF IsBody, LineFor
<1>5. PICK D : IsLeft(D, cs, Byte)
    BY <1>3, FlattenSuffixes
<1>6. PICK ws \in Seq(Seq(Byte)) : ws = WireChunks(b)
    BY WireChunksTyped
<1>7. Len(ws) = Len(cs) /\ \A k \in 1 .. Len(cs) : ws[k] = WireChunk(ls[k], cs[k])
    BY <1>2, <1>3, <1>6 DEF WireChunks
<1>8. PICK v : IsLeft(v, ws, Byte)
    BY FlattenSuffixes
<1>9. PICK e \in Seq(Byte) : e = CRLF
    BY LineEndBytes
<1>10. PICK y : y = (l \o e) \o e
    OBVIOUS
<1>11. y \in Seq(Byte)
    BY <1>4, <1>10, ConcatBytes
<1> DEFINE W == [k \in 0 .. Len(cs) |-> v[k] \o y]
<1>12. v \in [0 .. Len(cs) -> Seq(Byte)] /\ v[0] = FlattenSeq(ws) /\ v[Len(cs)] = <<>>
    BY <1>7, <1>8 DEF IsLeft
<1>13. W \in [0 .. Len(cs) -> Seq(Byte)]
    <2>1. \A k \in 0 .. Len(cs) : v[k] \o y \in Seq(Byte)
        BY <1>11, <1>12, ConcatBytes
    <2> QED
        BY <2>1
<1>14. W[Len(cs)] = y
    <2>1. W[Len(cs)] = v[Len(cs)] \o y
        BY <1>3
    <2> QED
        BY <1>11, <1>12, <2>1, ConcatEmptySeq
<1>15. W[0] = Wire("chunked", b)
    <2>1. PICK f : f = v[0]
        OBVIOUS
    <2>2. W[0] = f \o y
        BY <1>3, <2>1
    <2>3. WireChunk(l, <<>>) = ((l \o e) \o <<>>) \o e
        BY <1>9 DEF WireChunk
    <2>4. (l \o e) \o <<>> = l \o e
        BY <1>4, ConcatBytes, ConcatEmptySeq
    <2>5. WireChunk(l, <<>>) = y
        BY <1>10, <2>3, <2>4
    <2>6. Wire("chunked", b) = FlattenSeq(ws) \o WireChunk(l, <<>>)
        BY <1>2, <1>4, <1>6 DEF Wire, WireChunks
    <2> HIDE DEF W
    <2> QED
        BY <1>12, <2>1, <2>2, <2>5, <2>6
<1>16. ASSUME NEW k \in 1 .. Len(cs) PROVE ChunkSent(cs, W, k)
    <2>1. k \in 0 .. Len(cs) /\ k - 1 \in 0 .. Len(cs)
        BY <1>3
    <2>2. W[k] = v[k] \o y /\ W[k - 1] = v[k - 1] \o y
        BY <2>1
    <2> HIDE DEF W
    <2>3. v[k - 1] = ws[k] \o v[k]
        BY <1>7, <1>8 DEF IsLeft
    <2>4. PICK c \in Seq(Byte), d \in Seq(Byte), m \in LineFor(Len(cs[k])) : c = cs[k] /\ d = v[k] /\ m = ls[k]
        BY <1>3, <1>12, <2>1
    <2>5. m \in Seq(Byte)
        BY DEF LineFor
    <2>6. PICK p, q : p = m \o e /\ q = c \o e
        OBVIOUS
    <2>7. p \in Seq(Byte) /\ q \in Seq(Byte)
        BY <2>5, <2>6, ConcatBytes
    <2>8. ws[k] = p \o q
        <3>1. ws[k] = (p \o c) \o e
            BY <1>7, <1>9, <2>4, <2>6 DEF WireChunk
        <3>2. Assoc(p, c, e)
            BY <2>7, ConcatAssoc
        <3> QED
            BY <2>6, <3>1, <3>2 DEF Assoc
    <2>9. PICK w : w = W[k]
        OBVIOUS
    <2>10. W[k - 1] = p \o (q \o w)
        <3>1. PICK x : x = p \o q
            OBVIOUS
        <3>2. x \in Seq(Byte) /\ w = d \o y /\ W[k - 1] = (x \o d) \o y
            BY <2>2, <2>3, <2>4, <2>7, <2>8, <2>9, <3>1, ConcatBytes
        <3>3. Assoc(x, d, y) /\ Assoc(p, q, w) /\ w \in Seq(Byte)
            BY <1>11, <2>7, <3>2, ConcatAssoc, ConcatBytes
        <3> QED
            BY <3>1, <3>2, <3>3 DEF Assoc
    <2> QED
        BY <1>9, <2>4, <2>6, <2>9, <2>10 DEF ChunkSent
<1> HIDE DEF W
<1>17. /\ D \in [0 .. Len(cs) -> Seq(Byte)] /\ D[0] = FlattenSeq(cs) /\ D[Len(cs)] = <<>>
       /\ \A k \in 1 .. Len(cs) : D[k - 1] = cs[k] \o D[k]
    BY <1>5 DEF IsLeft
<1>18. \E m \in LineFor(0) : W[Len(cs)] = (m \o CRLF) \o CRLF
    BY <1>4, <1>9, <1>10, <1>14
<1>19. IsPlan(cs, W, D)
    BY <1>3, <1>13, <1>16, <1>17, <1>18 DEF IsPlan
<1> QED
    BY <1>2, <1>15, <1>19

(* The beginning of a plan.                                                *)
LEMMA PlanFirst ==
    ASSUME NEW cs, NEW W, NEW D, IsPlan(cs, W, D)
    PROVE  /\ 0 \in 0 .. Len(cs) /\ D[0] \in Seq(Byte) /\ W[0] \in Seq(Byte)
           /\ D[0] = FlattenSeq(cs)
<1>1. /\ cs \in Seq(Seq(Byte)) /\ W \in [0 .. Len(cs) -> Seq(Byte)]
      /\ D \in [0 .. Len(cs) -> Seq(Byte)] /\ D[0] = FlattenSeq(cs)
    BY DEF IsPlan
<1>2. 0 \in 0 .. Len(cs)
    BY <1>1
<1> QED
    BY <1>1, <1>2

(* Lengths add up.                                                         *)
LEMMA ConcatLen ==
    \A a, b \in Seq(Byte) : Len(a \o b) = Len(a) + Len(b) /\ Len(a) \in Nat /\ Len(b) \in Nat
BY ConcatProperties

(* The decoder st is in step with the chunks cs if u is still to come and  *)
(* the program has got g.                                                  *)
Decoding(cs, st, u, g) ==
    \E W, D : IsPlan(cs, W, D) /\ Dec(cs, W, D, st, u, g \o st.content)

(* At first it is.                                                         *)
LEMMA DecodingStarts ==
    ASSUME NEW b \in Bodies
    PROVE  Decoding(b.chunks, NoChunk, Wire("chunked", b), <<>>)
<1>0. PICK cs : cs = b.chunks
    OBVIOUS
<1>1. PICK W, D : IsPlan(cs, W, D) /\ W[0] = Wire("chunked", b)
    BY <1>0, PlanExists
<1>2. PICK z : z = NoChunk
    OBVIOUS
<1>3. z \in ChunkState /\ z.reading /\ z.buf = <<>> /\ z.content = <<>>
    <2>1. <<>> \in Seq(Byte)
        OBVIOUS
    <2>2. PICK e \in Seq(Byte) : e = <<>>
        BY <2>1
    <2>3. z = [reading |-> TRUE, len |-> 0, buf |-> e, content |-> e]
        BY <1>2, <2>2 DEF NoChunk
    <2>4. z \in ChunkState /\ z.reading /\ z.buf = e /\ z.content = e
        BY <2>3 DEF ChunkState
    <2> QED
        BY <2>2, <2>4
<1>4. <<>> \in Seq(Byte) /\ <<>> \o <<>> = <<>>
    BY ConcatEmptySeq
<1>5. 0 \in 0 .. Len(cs) /\ D[0] \in Seq(Byte) /\ W[0] = Wire("chunked", b) /\ W[0] \in Seq(Byte)
    BY <1>1, PlanFirst
<1>6. <<>> \o D[0] = D[0] /\ <<>> \o W[0] = W[0]
    BY <1>5, ConcatEmptySeq
<1>7. Dec(cs, W, D, z, <<>> \o W[0], <<>>)
    BY <1>1, <1>3, <1>4, <1>5, <1>6, LineStart
<1>8. Dec(cs, W, D, z, Wire("chunked", b), <<>> \o z.content)
    BY <1>3, <1>4, <1>5, <1>6, <1>7
<1> QED
    BY <1>0, <1>1, <1>2, <1>8 DEF Decoding

(* A piece keeps it so.                                                    *)
LEMMA DecodingPiece ==
    ASSUME NEW cs, NEW a \in Seq(Byte), NEW r \in Seq(Byte), NEW g \in Seq(Byte), NEW st,
           Decoding(cs, st, a \o r, g)
    PROVE  Decoding(cs, chunked_encoding_round(a, st), r, g)
BY PieceDecoded DEF Decoding

(* What is decoded is at the front of the content, and all of it once      *)
(* nothing more comes.                                                     *)
LEMMA DecodingFront ==
    ASSUME NEW cs, NEW st, NEW u, NEW g \in Seq(Byte), Decoding(cs, st, u, g)
    PROVE  /\ st \in ChunkState /\ u \in Seq(Byte) /\ (~st.reading => Len(st.buf) < st.len)
           /\ \E d \in Seq(Byte) : (g \o st.content) \o d = FlattenSeq(cs)
           /\ u = <<>> => g \o st.content = FlattenSeq(cs)
<1>1. PICK W, D : IsPlan(cs, W, D) /\ Dec(cs, W, D, st, u, g \o st.content)
    BY DEF Decoding
<1>2. PICK t, C : t = g \o st.content /\ C = FlattenSeq(cs)
    OBVIOUS
<1>3. st \in ChunkState /\ u \in Seq(Byte) /\ t \in Seq(Byte) /\ D[0] = C /\ C \in Seq(Byte)
    <2>1. st \in ChunkState /\ u \in Seq(Byte) /\ t \in Seq(Byte)
        BY <1>1, <1>2 DEF Dec
    <2> QED
        BY <1>1, <1>2, <2>1, PlanFirst
<1>4. st.buf \in Seq(Byte) /\ Len(st.buf) \in Nat /\ Len(u) \in Nat
    BY <1>3 DEF ChunkState
<1>5. t \o <<>> = t /\ <<>> \in Seq(Byte) /\ Len(<<>>) = 0
    BY <1>3, ConcatEmptySeq
<1>6. ASSUME AtEnd(D, st, u, t), st.reading PROVE t = C /\ t \o <<>> = C
    BY <1>3, <1>5, <1>6 DEF AtEnd
<1>7. ASSUME InLine(cs, W, D, st, u, t), st.reading PROVE u # <<>> /\ \E d \in Seq(Byte) : t \o d = C
    <2>1. PICK s \in Seq(Byte), x \in Seq(Byte) :
            Want(cs, W, D, t, s, x) /\ st.buf \o u = s \o x /\ Len(st.buf) < Len(s)
        BY <1>7 DEF InLine
    <2>3. u # <<>>
        <3> SUFFICES ASSUME u = <<>> PROVE FALSE
            OBVIOUS
        <3>1. st.buf \o u = st.buf
            BY <1>4, ConcatEmptySeq
        <3>2. Len(s \o x) = Len(s) + Len(x) /\ Len(s) \in Nat /\ Len(x) \in Nat
            BY ConcatProperties
        <3> QED
            BY <1>4, <2>1, <3>1, <3>2
    <2>4. \E d \in Seq(Byte) : t \o d = C
        <3>1. \A k \in 0 .. Len(cs) : D[k] \in Seq(Byte)
            BY <1>1 DEF IsPlan
        <3>2. \A k \in 1 .. Len(cs) : k - 1 \in 0 .. Len(cs)
            BY <1>1 DEF IsPlan
        <3> QED
            BY <1>3, <1>5, <2>1, <3>1, <3>2 DEF Want
    <2> QED
        BY <2>3, <2>4
<1>8. ASSUME InData(cs, W, D, st, u, t)
      PROVE  u # <<>> /\ Len(st.buf) < st.len /\ \E d \in Seq(Byte) : t \o d = C
    <2>1. PICK k \in 1 .. Len(cs) : /\ t \o D[k - 1] = D[0] /\ st.len = Len(cs[k]) /\ Len(st.buf) < st.len
                                    /\ st.buf \o u = (cs[k] \o CRLF) \o W[k]
        BY <1>8 DEF InData
    <2>2. PlanAt(cs, W, D, k)
        BY <1>1, PlanParts
    <2>3. PICK c \in Seq(Byte), w \in Seq(Byte), e \in Seq(Byte) : c = cs[k] /\ w = W[k] /\ e = CRLF
        BY <2>2, LineEndBytes DEF PlanAt
    <2>4. D[k - 1] \in Seq(Byte) /\ Len(c) \in Nat
        BY <1>1, <2>2, <2>3 DEF PlanAt, IsPlan
    <2>6. u # <<>>
        <3> SUFFICES ASSUME u = <<>> PROVE FALSE
            OBVIOUS
        <3>1. st.buf \o u = st.buf
            BY <1>4, ConcatEmptySeq
        <3>2. PICK f : f = c \o e
            OBVIOUS
        <3>3. f \in Seq(Byte) /\ Len(f) = Len(c) + Len(e) /\ Len(e) \in Nat
            BY <3>2, ConcatLen, ConcatBytes
        <3>4. Len(f \o w) = Len(f) + Len(w) /\ Len(w) \in Nat
            BY <3>3, ConcatLen
        <3>5. st.buf = f \o w
            BY <2>1, <2>3, <3>1, <3>2
        <3> QED
            BY <1>4, <2>1, <2>3, <2>4, <3>3, <3>4, <3>5
    <2> QED
        BY <1>3, <2>1, <2>4, <2>6
<1>9. CASE st.reading
    <2>1. InLine(cs, W, D, st, u, t) \/ AtEnd(D, st, u, t)
        BY <1>1, <1>2, <1>9 DEF Dec
    <2> QED
        BY <1>2, <1>3, <1>5, <1>6, <1>7, <1>9, <2>1
<1>10. CASE ~st.reading
    <2>1. InData(cs, W, D, st, u, t)
        BY <1>1, <1>2, <1>10 DEF Dec
    <2> QED
        BY <1>2, <1>3, <1>8, <2>1
<1> QED
    BY <1>9, <1>10

(* What memmem finds is the first end of a header from where it looks.     *)
LEMMA FoundFirst ==
    ASSUME NEW s \in Seq(Byte), NEW from \in Nat, from # 0, NEW e, e = memmem(s, from, CRLF \o CRLF), e # 0
    PROVE  e \in from .. Len(s) - 3 /\ EndAt(s, e) /\ \A i \in from .. Len(s) - 3 : i < e => ~EndAt(s, i)
<1> DEFINE at == {i \in from .. Len(s) - 3 : EndAt(s, i)}
<1>1. memmem(s, from, Pat) = IF at = {} THEN 0 ELSE CHOOSE i \in at : \A j \in at : i <= j
    <2>1. PICK k : k = Len(Pat)
        OBVIOUS
    <2>2. k = 4
        BY <2>1, PatIsFour
    <2>3. memmem(s, from, Pat) =
             LET u == {i \in from .. Len(s) + 1 - k : SubSeq(s, i, i + k - 1) = Pat}
             IN IF u = {} THEN 0 ELSE CHOOSE i \in u : \A j \in u : i <= j
        BY <2>1 DEF memmem
    <2>4. {i \in from .. Len(s) + 1 - k : SubSeq(s, i, i + k - 1) = Pat} = at
        <3>1. Len(s) + 1 - k = Len(s) - 3 /\ Len(s) \in Nat
            BY <2>2
        <3>2. \A i \in from .. Len(s) - 3 : i + k - 1 = i + 3
            BY <2>2, <3>1
        <3> QED
            BY <3>1, <3>2 DEF EndAt
    <2> QED
        BY <2>3, <2>4
<1>2. at \in SUBSET Nat
    OBVIOUS
<1> HIDE DEF at
<1>3. at # {}
    BY <1>1 DEF Pat
<1>4. \E x \in at : \A y \in at : x <= y
    BY <1>2, <1>3, LeastOfNaturals
<1>5. e \in at /\ \A j \in at : e <= j
    BY <1>1, <1>3, <1>4 DEF Pat
<1>6. e \in from .. Len(s) - 3 /\ EndAt(s, e) /\ e \in Nat
    BY <1>2, <1>5 DEF at
<1>7. ASSUME NEW i \in from .. Len(s) - 3, i < e PROVE ~EndAt(s, i)
    <2> SUFFICES ASSUME EndAt(s, i) PROVE FALSE
        OBVIOUS
    <2>1. i \in at
        BY DEF at
    <2>2. e <= i
        BY <1>5, <2>1
    <2> QED
        BY <1>6, <1>7, <2>2
<1> QED
    BY <1>6, <1>7

(* The first end in what was read of a response is the end of its header.  *)
LEMMA HeaderEndAt ==
    ASSUME NEW h, IsHeader(h), NEW w \in Seq(Byte), NEW c \in Seq(Byte), NEW r \in Seq(Byte),
           NEW e \in Nat, e \in 1 .. Len(c) - 3, EndAt(c, e),
           \A i \in 1 .. Len(c) - 3 : i < e => ~EndAt(c, i), c \o r = h \o w
    PROVE  h \in Seq(Byte) /\ e + 3 = Len(h)
<1>1. h \in Seq(Byte) /\ Len(h) >= 4 /\ \A i \in 1 .. Len(h) - 3 : EndAt(h, i) <=> i = Len(h) - 3
    BY DEF IsHeader
<1>2. PICK n \in Nat : n = Len(h) - 3
    <2>1. Len(h) - 3 \in Nat
        BY <1>1
    <2> QED
        BY <2>1
<1>3. Len(h) = n + 3 /\ n >= 1 /\ e >= 1 /\ Len(c) \in Nat
    BY <1>1, <1>2
<1>4. \A i \in 1 .. Len(c) - 3 : EndAt(c \o r, i) <=> EndAt(c, i)
    BY EndInPrefix
<1>5. \A i \in 1 .. Len(h) - 3 : EndAt(h \o w, i) <=> EndAt(h, i)
    BY <1>1, EndInPrefix
<1>6. CASE e < n
    <2>1. e \in 1 .. Len(h) - 3 /\ e # Len(h) - 3
        BY <1>2, <1>3, <1>6
    <2>2. EndAt(h, e)
        BY <1>4, <1>5, <2>1
    <2> QED
        BY <1>1, <2>1, <2>2
<1>7. CASE n < e
    <2>1. n \in 1 .. Len(c) - 3 /\ n < e /\ n \in 1 .. Len(h) - 3
        BY <1>2, <1>3, <1>7
    <2>2. EndAt(h, n)
        BY <1>1, <1>2, <2>1
    <2>3. EndAt(c, n)
        BY <1>4, <1>5, <2>1, <2>2
    <2> QED
        BY <2>1, <2>3
<1> QED
    BY <1>1, <1>3, <1>6, <1>7

(* The body begins after the end at e of what was read: part of it came    *)
(* with the header, the rest r is still to come.                           *)
BodyAfter(c, e, r, w) == From(c, e + 4) \in Seq(Byte) /\ From(c, e + 4) \o r = w

(* What comes after the end of the header is the body.                     *)
LEMMA HeaderSplits ==
    ASSUME NEW h \in Seq(Byte), NEW w \in Seq(Byte), NEW c \in Seq(Byte), NEW r \in Seq(Byte),
           NEW e \in Nat, e \in 1 .. Len(c) - 3, e + 3 = Len(h), c \o r = h \o w
    PROVE  BodyAfter(c, e, r, w)
<1>1. PICK k \in 0 .. Len(c) : k = Len(h)
    <2>1. Len(h) \in 0 .. Len(c)
        OBVIOUS
    <2> QED
        BY <2>1
<1>2. PICK a, b : a = SubSeq(c, 1, k) /\ b = SubSeq(c, k + 1, Len(c))
    OBVIOUS
<1>3. a \in Seq(Byte) /\ b \in Seq(Byte) /\ Len(a) = Len(h) /\ c = a \o b
    <2>1. k \in 0 .. Len(c) /\ c \in Seq(Byte)
        OBVIOUS
    <2>2. /\ SubSeq(c, 1, k) \in Seq(Byte) /\ Len(SubSeq(c, 1, k)) = k
          /\ SubSeq(c, k + 1, Len(c)) \in Seq(Byte)
          /\ c = SubSeq(c, 1, k) \o SubSeq(c, k + 1, Len(c))
        BY <2>1, SplitAt, Zenon
    <2> QED
        BY <1>1, <1>2, <2>2, Zenon
<1>4. a \o (b \o r) = h \o w /\ b \o r \in Seq(Byte)
    <2>1. Assoc(a, b, r) /\ b \o r \in Seq(Byte)
        BY <1>3, ConcatAssoc, ConcatBytes
    <2> QED
        BY <1>3, <2>1 DEF Assoc
<1>5. b \o r = w
    <2>1. PICK x : x = b \o r
        OBVIOUS
    <2>2. a \o x = h \o w /\ x \in Seq(Byte)
        BY <1>4, <2>1
    <2>3. x = w
        BY <1>3, <2>2, SplitEqual
    <2> QED
        BY <2>1, <2>3
<1>6. b = From(c, e + 4)
    <2>1. e + 4 = k + 1
        BY <1>1
    <2> QED
        BY <1>2, <2>1 DEF From
<1>7. From(c, e + 4) \in Seq(Byte)
    BY <1>3, <1>6
<1>8. From(c, e + 4) \o r = w
    BY <1>5, <1>6
<1> QED
    BY <1>7, <1>8 DEF BodyAfter

(* The first end that is found is where the body begins.                   *)
LEMMA BodyFound ==
    ASSUME NEW h, IsHeader(h), NEW w \in Seq(Byte), NEW c \in Seq(Byte), NEW r \in Seq(Byte),
           NEW e \in Nat, e \in 1 .. Len(c) - 3, EndAt(c, e),
           \A i \in 1 .. Len(c) - 3 : i < e => ~EndAt(c, i), c \o r = h \o w
    PROVE  BodyAfter(c, e, r, w)
<1>1. h \in Seq(Byte) /\ e + 3 = Len(h)
    BY HeaderEndAt
<1>2. PICK k \in Seq(Byte) : k = h
    BY <1>1
<1>3. c \o r = k \o w /\ e + 3 = Len(k)
    BY <1>1, <1>2
<1> QED
    BY <1>3, HeaderSplits

(* There is no end in a header that was cut off.                           *)
LEMMA FrontHasNoEnd ==
    ASSUME NEW h, IsHeader(h), NEW c \in Seq(Byte), NEW r \in Seq(Byte),
           NEW e \in 1 .. Len(c) - 3, EndAt(c, e), c \o r = Front(h)
    PROVE  FALSE
<1>1. h \in Seq(Byte) /\ Len(h) >= 4 /\ \A i \in 1 .. Len(h) - 3 : EndAt(h, i) <=> i = Len(h) - 3
    BY DEF IsHeader
<1>2. PICK n \in 0 .. Len(h) : n = Len(h) - 1
    <2>1. Len(h) - 1 \in 0 .. Len(h)
        BY <1>1
    <2> QED
        BY <2>1
<1>3. PICK f, l : f = SubSeq(h, 1, n) /\ l = SubSeq(h, n + 1, Len(h))
    OBVIOUS
<1>4. f \in Seq(Byte) /\ l \in Seq(Byte) /\ Len(f) = n /\ h = f \o l
    BY <1>1, <1>2, <1>3, SplitAt
<1>5. c \o r = f
    BY <1>2, <1>3 DEF Front
<1>6. Len(c) + Len(r) = n /\ Len(c) \in Nat /\ Len(r) \in Nat
    BY <1>4, <1>5, ConcatLen
<1>7. EndAt(f, e)
    BY <1>5, EndInPrefix
<1>8. e \in 1 .. Len(f) - 3 /\ e \in 1 .. Len(h) - 3 /\ e # Len(h) - 3
    BY <1>1, <1>2, <1>4, <1>6
<1>9. EndAt(h, e)
    BY <1>4, <1>7, <1>8, EndInPrefix
<1> QED
    BY <1>1, <1>8, <1>9

(* What the header's last piece left or a read has so far.                 *)
Pending(x, o) == IF x = NoBuffer THEN o ELSE x

(* A stream whose transfer encoding is te and whose body is cs, with       *)
(* decoder st, buffer x, string o, what was delivered g and what is still  *)
(* to come u: nothing is lost, but for what comes with the header in an    *)
(* encoding that is not known.                                             *)
StreamOk(te, cs, st, x, o, g, u) ==
    /\ u \in Seq(Byte) /\ g \in Seq(Byte) /\ o \in Seq(Byte)
    /\ x = NoBuffer \/ x \in Seq(Byte)
    /\ te = "none" => st = NoChunk /\ (g \o Pending(x, o)) \o u = FlattenSeq(cs)
    /\ te = "chunked" => o = <<>> /\ x \in {<<>>, NoBuffer} /\ Decoding(cs, st, u, g)
    /\ te = "other" => /\ st = NoChunk /\ x = NoBuffer
                       /\ Len(g) + Len(o) + Len(u) <= Len(FlattenSeq(cs))

(* No buffer at all is no sequence of bytes.                               *)
LEMMA NoBufferIsNone == NoBuffer \notin Seq(Byte)
<1>1. PICK y : y = "none"
    OBVIOUS
<1>2. y \notin Byte
    BY <1>1 DEF Byte
<1>3. PICK s : s = <<y>>
    OBVIOUS
<1>4. Len(s) = 1 /\ s[1] = y
    BY <1>3
<1>5. s \notin Seq(Byte)
    BY <1>2, <1>4
<1> QED
    BY <1>1, <1>3, <1>5 DEF NoBuffer

(* The empty sequence is one of bytes and adds nothing.                    *)
LEMMA EmptyBytes == <<>> \in Seq(Byte) /\ \A s \in Seq(Byte) : <<>> \o s = s /\ s \o <<>> = s
BY ConcatEmptySeq

(* The stream as the header's end leaves it.                               *)
LEMMA StreamStarts ==
    ASSUME NEW te \in {"none", "chunked", "other"}, NEW b \in Bodies, NEW a \in Seq(Byte), NEW r \in Seq(Byte),
           a \o r = Wire(te, b), NEW st, NEW x,
           st = IF te = "chunked" THEN chunked_encoding_round(a, NoChunk) ELSE NoChunk,
           x = CASE te = "none" -> a [] te = "chunked" -> <<>> [] OTHER -> NoBuffer
    PROVE  StreamOk(te, b.chunks, st, x, <<>>, <<>>, r)
<1>1. CASE te = "none"
    <2>1. st = NoChunk /\ x = a
        BY <1>1
    <2>2. Pending(x, <<>>) = a
        BY <2>1, NoBufferIsNone DEF Pending
    <2>3. a \o r = FlattenSeq(b.chunks)
        BY <1>1 DEF Wire
    <2>4. (<<>> \o Pending(x, <<>>)) \o r = FlattenSeq(b.chunks)
        BY <2>2, <2>3, EmptyBytes, Zenon
    <2> QED
        BY <1>1, <2>1, <2>4, EmptyBytes DEF StreamOk
<1>2. CASE te = "chunked"
    <2>1. st = chunked_encoding_round(a, NoChunk) /\ x = <<>>
        BY <1>2
    <2>2. Decoding(b.chunks, NoChunk, a \o r, <<>>)
        BY <1>2, DecodingStarts
    <2>3. Decoding(b.chunks, st, r, <<>>)
        <3>1. PICK g, z : g \in Seq(Byte) /\ g = <<>> /\ z = NoChunk
            BY EmptyBytes
        <3>2. Decoding(b.chunks, z, a \o r, g)
            BY <2>2, <3>1
        <3>3. Decoding(b.chunks, chunked_encoding_round(a, z), r, g)
            BY <3>1, <3>2, DecodingPiece
        <3> QED
            BY <2>1, <3>1, <3>3
    <2> QED
        BY <1>2, <2>1, <2>3, EmptyBytes DEF StreamOk
<1>3. CASE te = "other"
    <2>1. st = NoChunk /\ x = NoBuffer
        BY <1>3
    <2>2. Len(r) <= Len(FlattenSeq(b.chunks)) /\ Len(r) \in Nat
        <3>1. a \o r = FlattenSeq(b.chunks)
            BY <1>3 DEF Wire
        <3>2. Len(a \o r) = Len(a) + Len(r) /\ Len(a) \in Nat /\ Len(r) \in Nat
            BY ConcatLen
        <3> QED
            BY <3>1, <3>2
    <2>3. Len(<<>>) = 0 /\ Len(<<>>) + Len(<<>>) + Len(r) = Len(r)
        BY <2>2
    <2>4. Len(<<>>) + Len(<<>>) + Len(r) <= Len(FlattenSeq(b.chunks))
        BY <2>2, <2>3
    <2> QED
        BY <1>3, <2>1, <2>4, EmptyBytes DEF StreamOk
<1> QED
    BY <1>1, <1>2, <1>3

(* A read takes over what the header's last piece left.                    *)
LEMMA StreamBegins ==
    ASSUME NEW te \in {"none", "chunked", "other"}, NEW cs, NEW st, NEW x, NEW g, NEW u, StreamOk(te, cs, st, x, <<>>, g, u)
    PROVE  StreamOk(te, cs, st, NoBuffer, Pending(x, <<>>), g, u)
<1>1. PICK p : p = Pending(x, <<>>)
    OBVIOUS
<1>2. p \in Seq(Byte) /\ Pending(NoBuffer, p) = p
    BY <1>1, EmptyBytes DEF StreamOk, Pending
<1>3. CASE te = "none"
    BY <1>1, <1>2, <1>3 DEF StreamOk
<1>4. CASE te = "chunked"
    <2>1. p = <<>>
        BY <1>1, <1>4 DEF StreamOk, Pending
    <2> QED
        BY <1>1, <1>2, <1>4, <2>1 DEF StreamOk
<1>5. CASE te = "other"
    <2>1. p = <<>>
        BY <1>1, <1>5 DEF StreamOk, Pending
    <2> QED
        BY <1>1, <1>2, <1>5, <2>1 DEF StreamOk
<1> QED
    BY <1>3, <1>4, <1>5

(* A piece of the body.                                                    *)
LEMMA StreamPiece ==
    ASSUME NEW te \in {"none", "chunked", "other"}, NEW cs, NEW st, NEW o, NEW g, NEW a \in Seq(Byte), NEW r \in Seq(Byte),
           StreamOk(te, cs, st, NoBuffer, o, g, a \o r), NEW sp, NEW op,
           IF te = "chunked" THEN sp = chunked_encoding_round(a, st) /\ op = o ELSE sp = st /\ op = o \o a
    PROVE  StreamOk(te, cs, sp, NoBuffer, op, g, r)
<1>1. g \in Seq(Byte) /\ o \in Seq(Byte) /\ o \o a \in Seq(Byte)
    BY ConcatBytes DEF StreamOk
<1>2. CASE te = "none"
    <2>1. st = NoChunk /\ (g \o o) \o (a \o r) = FlattenSeq(cs)
        BY <1>2 DEF StreamOk, Pending
    <2>2. Regrouped(g, o, a, r) /\ Assoc(g, o \o a, r)
        BY <1>1, Regroup, ConcatAssoc
    <2>3. (g \o (o \o a)) \o r = FlattenSeq(cs)
        BY <2>1, <2>2 DEF Regrouped, Assoc
    <2>4. sp = NoChunk /\ op = o \o a /\ Pending(NoBuffer, op) = op
        BY <1>2, <2>1 DEF Pending
    <2> QED
        BY <1>1, <1>2, <2>3, <2>4 DEF StreamOk
<1>3. CASE te = "chunked"
    <2>1. o = <<>> /\ Decoding(cs, st, a \o r, g)
        BY <1>3 DEF StreamOk
    <2>2. sp = chunked_encoding_round(a, st) /\ op = o
        BY <1>3
    <2>3. Decoding(cs, sp, r, g)
        BY <1>1, <2>1, <2>2, DecodingPiece
    <2> QED
        BY <1>1, <1>3, <2>1, <2>2, <2>3 DEF StreamOk
<1>4. CASE te = "other"
    <2>1. st = NoChunk /\ Len(g) + Len(o) + Len(a \o r) <= Len(FlattenSeq(cs))
        BY <1>4 DEF StreamOk
    <2>2. sp = NoChunk /\ op = o \o a
        BY <1>4, <2>1
    <2>3. Len(a \o r) = Len(a) + Len(r) /\ Len(op) = Len(o) + Len(a)
        BY <1>1, <2>2, ConcatLen
    <2>4. Len(g) \in Nat /\ Len(o) \in Nat /\ Len(a) \in Nat /\ Len(r) \in Nat
        BY <1>1
    <2>5. Len(g) + Len(op) + Len(r) = Len(g) + Len(o) + Len(a \o r)
        BY <2>3, <2>4
    <2>6. Len(g) + Len(op) + Len(r) <= Len(FlattenSeq(cs))
        BY <2>1, <2>5
    <2> QED
        BY <1>1, <1>4, <2>2, <2>6 DEF StreamOk
<1> QED
    BY <1>2, <1>3, <1>4

(* Only the content of a decoder is taken when a read returns.             *)
LEMMA ContentTaken ==
    ASSUME NEW st \in ChunkState, NEW sp, sp = [st EXCEPT !.content = <<>>]
    PROVE  /\ sp \in ChunkState /\ sp.reading = st.reading /\ sp.len = st.len /\ sp.buf = st.buf
           /\ sp.content = <<>>
BY EmptyBytes DEF ChunkState

(* A read returns at the end of what the peer sends.                       *)
LEMMA StreamEnds ==
    ASSUME NEW te \in {"none", "chunked", "other"}, NEW cs, NEW st, NEW o, NEW g, NEW u,
           StreamOk(te, cs, st, NoBuffer, o, g, u), NEW sp, sp = [st EXCEPT !.content = <<>>],
           NEW ans, ans = IF te = "chunked" THEN o \o st.content ELSE o
    PROVE  StreamOk(te, cs, sp, NoBuffer, <<>>, g \o ans, u) /\ ans \in Seq(Byte)
<1>1. g \in Seq(Byte) /\ o \in Seq(Byte) /\ u \in Seq(Byte)
    BY DEF StreamOk
<1>2. st = NoChunk => sp = NoChunk
    BY DEF NoChunk
<1>3. CASE te = "none"
    <2>1. st = NoChunk /\ (g \o o) \o u = FlattenSeq(cs) /\ ans = o
        BY <1>3 DEF StreamOk, Pending
    <2>2. g \o o \in Seq(Byte) /\ (g \o o) \o <<>> = g \o o
        BY <1>1, ConcatBytes, EmptyBytes
    <2>3. ((g \o o) \o Pending(NoBuffer, <<>>)) \o u = FlattenSeq(cs)
        BY <2>1, <2>2 DEF Pending
    <2> QED
        BY <1>1, <1>2, <1>3, <2>1, <2>2, <2>3, EmptyBytes DEF StreamOk
<1>4. CASE te = "chunked"
    <2>1. o = <<>> /\ Decoding(cs, st, u, g)
        BY <1>4 DEF StreamOk
    <2>2. PICK W, D : IsPlan(cs, W, D) /\ Dec(cs, W, D, st, u, g \o st.content)
        BY <2>1 DEF Decoding
    <2>3. st \in ChunkState /\ st.content \in Seq(Byte)
        BY <2>2 DEF Dec, ChunkState
    <2>4. ans = st.content /\ g \o ans \in Seq(Byte)
        BY <1>1, <1>4, <2>1, <2>3, EmptyBytes, ConcatBytes
    <2>5. /\ sp \in ChunkState /\ sp.reading = st.reading /\ sp.len = st.len /\ sp.buf = st.buf
          /\ sp.content = <<>>
        BY <2>3, ContentTaken
    <2>6. (g \o ans) \o sp.content = g \o st.content
        BY <2>4, <2>5, EmptyBytes
    <2>7. Dec(cs, W, D, sp, u, g \o st.content)
        BY <2>2, <2>5 DEF Dec, InLine, InData, AtEnd
    <2>8. Decoding(cs, sp, u, g \o ans)
        BY <2>2, <2>6, <2>7 DEF Decoding
    <2> QED
        BY <1>1, <1>4, <2>3, <2>4, <2>8, EmptyBytes DEF StreamOk
<1>5. CASE te = "other"
    <2>1. st = NoChunk /\ Len(g) + Len(o) + Len(u) <= Len(FlattenSeq(cs)) /\ ans = o
        BY <1>5 DEF StreamOk
    <2>2. g \o o \in Seq(Byte) /\ Len(g \o o) = Len(g) + Len(o) /\ Len(g) \in Nat /\ Len(o) \in Nat
        BY <1>1, ConcatBytes, ConcatLen
    <2>3. Len(g \o o) + Len(<<>>) + Len(u) <= Len(FlattenSeq(cs))
        <3>1. Len(<<>>) = 0 /\ Len(u) \in Nat
            BY <1>1
        <3>2. Len(g \o o) + Len(<<>>) + Len(u) = Len(g) + Len(o) + Len(u)
            BY <2>2, <3>1
        <3> QED
            BY <2>1, <3>2
    <2> QED
        BY <1>1, <1>2, <1>5, <2>1, <2>2, <2>3, EmptyBytes DEF StreamOk
<1> QED
    BY <1>3, <1>4, <1>5

(* A sequence is a prefix of what it begins.                               *)
LEMMA BeginsPrefix ==
    ASSUME NEW a \in Seq(Byte), NEW d \in Seq(Byte) PROVE IsPrefix(a, a \o d)
<1>1. PICK c : c = a \o d
    OBVIOUS
<1>2. c \in Seq(Byte) /\ Len(a) <= Len(c)
    BY <1>1, ConcatBytes, ConcatLen
<1>3. \A i \in 1 .. Len(a) : a[i] = c[i]
    BY <1>1, ConcatProperties
<1>4. IsPrefix(a, c)
    BY <1>2, <1>3, PrefixOf
<1> QED
    BY <1>1, <1>4

(* What a stream has delivered and what it has so far are at the front of  *)
(* the content, and they are all of it once nothing more comes.            *)
LEMMA StreamGives ==
    ASSUME NEW te \in {"none", "chunked"}, NEW cs, NEW st, NEW x, NEW o, NEW g, NEW u,
           StreamOk(te, cs, st, x, o, g, u)
    PROVE  /\ IsPrefix(g \o Pending(x, o) \o st.content, FlattenSeq(cs))
           /\ o = <<>> /\ x = NoBuffer /\ u = <<>> => g \o st.content = FlattenSeq(cs)
<1>1. g \in Seq(Byte) /\ u \in Seq(Byte)
    BY DEF StreamOk
<1>2. PICK p : p = Pending(x, o)
    OBVIOUS
<1>3. p \in Seq(Byte)
    BY <1>2 DEF StreamOk, Pending
<1>4. g \o p \in Seq(Byte)
    BY <1>1, <1>3, ConcatBytes
<1>5. CASE te = "none"
    <2>1. st.content = <<>> /\ (g \o p) \o u = FlattenSeq(cs)
        BY <1>2, <1>5 DEF StreamOk, NoChunk
    <2>2. (g \o p) \o st.content = g \o p /\ g \o st.content = g
        BY <1>1, <1>4, <2>1, EmptyBytes
    <2>3. IsPrefix((g \o p) \o st.content, FlattenSeq(cs))
        BY <1>1, <1>4, <2>1, <2>2, BeginsPrefix
    <2>4. o = <<>> /\ x = NoBuffer /\ u = <<>> => g = FlattenSeq(cs)
        <3> SUFFICES ASSUME o = <<>>, x = NoBuffer, u = <<>> PROVE g = FlattenSeq(cs)
            OBVIOUS
        <3>1. p = <<>>
            BY <1>2 DEF Pending
        <3>2. g \o p = g /\ (g \o p) \o u = g \o p
            BY <1>1, <1>4, <3>1, EmptyBytes
        <3> QED
            BY <2>1, <3>2
    <2> QED
        BY <1>2, <2>2, <2>3, <2>4
<1>6. CASE te = "chunked"
    <2>1. p = <<>> /\ Decoding(cs, st, u, g)
        BY <1>2, <1>6 DEF StreamOk, Pending
    <2>2. /\ st \in ChunkState
          /\ \E d \in Seq(Byte) : (g \o st.content) \o d = FlattenSeq(cs)
          /\ u = <<>> => g \o st.content = FlattenSeq(cs)
        BY <1>1, <2>1, DecodingFront
    <2>3. st.content \in Seq(Byte)
        BY <2>2 DEF ChunkState
    <2>4. g \o st.content \in Seq(Byte) /\ g \o p = g
        BY <1>1, <2>1, <2>3, ConcatBytes, EmptyBytes
    <2>5. IsPrefix(g \o st.content, FlattenSeq(cs))
        BY <2>2, <2>4, BeginsPrefix
    <2> QED
        BY <1>2, <2>2, <2>4, <2>5
<1> QED
    BY <1>5, <1>6

Encodings == {"none", "chunked", "other"}

(* Before the header's end is found nothing is decoded or delivered; what  *)
(* was read and what is to come are a header and a body, or a header that  *)
(* was cut off.                                                            *)
HeaderPart ==
    /\ cpc \in {"unused", "header"} =>
         chunk = NoChunk /\ out = <<>> /\ got = <<>> /\ extra = NoBuffer
    /\ cpc = "header" =>
         /\ resp.te \in Encodings /\ resp.body \in Bodies
         /\ \E h \in Headers : \/ hbuf \o rest = h \o Wire(resp.te, resp.body)
                               \/ hbuf \o rest = Front(h)

(* From then on the stream is in order: a call that waits has emptied the  *)
(* buffer, and between calls no string is half filled.                     *)
StreamPart ==
    cpc \in {"idle", "reading"} =>
        /\ resp.te \in Encodings /\ resp.body \in Bodies
        /\ StreamOk(resp.te, resp.body.chunks, chunk, extra, out, got, rest)
        /\ cpc = "reading" => extra = NoBuffer
        /\ cpc = "idle" => out = <<>>

(* The invariant that delivery rests on.                                   *)
DeliverInv == HeaderPart /\ StreamPart

(* The peer answers.                                                       *)
LEMMA DeliverRequest ==
    ASSUME DeliverInv, HeadInv, NEW h \in Headers, NEW te \in Encodings, NEW b \in Bodies, NEW end, NEW ok,
           Request(h, te, b, end, ok)
    PROVE  DeliverInv'
<1>1. /\ hbuf' = <<>> /\ cpc' = "header" /\ resp'.te = te /\ resp'.body = b
      /\ chunk' = NoChunk /\ out' = <<>> /\ got' = <<>> /\ extra' = NoBuffer
    BY DEF Request, DeliverInv, HeaderPart, HeadInv
<1>2. h \in Seq(Byte) /\ Len(h) >= 4
    BY ClientAssumption
<1>3. rest' = h \o Wire(te, b) \/ rest' = Front(h)
    BY DEF Request
<1>4. h \o Wire(te, b) \in Seq(Byte)
    BY <1>2, WireTyped, ConcatBytes
<1>5. Front(h) \in Seq(Byte)
    <2>1. 1 \in 1 .. Len(h) + 1 /\ Len(h) - 1 \in 0 .. Len(h)
        BY <1>2
    <2> QED
        BY <1>2, <2>1 DEF Front
<1>6. rest' \in Seq(Byte)
    BY <1>3, <1>4, <1>5
<1>7. hbuf' \o rest' = rest'
    BY <1>1, <1>6, EmptyBytes
<1> QED
    BY <1>1, <1>3, <1>7 DEF DeliverInv, HeaderPart, StreamPart

(* The search for the end of the header looks at every place that the new  *)
(* piece can have completed, so what it finds is the first end.            *)
LEMMA FirstEndFound ==
    ASSUME NEW a \in Seq(Byte), NEW b \in Seq(Byte), NEW n \in Nat, Len(b) = n,
           \A i \in 1 .. Len(a) - 3 : ~EndAt(a, i),
           NEW e, e = EndIn(a \o b, n, SearchBack(Len(a))), e # 0
    PROVE  /\ e \in Nat /\ e \in 1 .. Len(a \o b) - 3 /\ EndAt(a \o b, e)
           /\ \A i \in 1 .. Len(a \o b) - 3 : i < e => ~EndAt(a \o b, i)
<1>1. PICK c : c = a \o b
    OBVIOUS
<1>2. c \in Seq(Byte) /\ Len(c) = Len(a) + n /\ Len(a) \in Nat
    BY <1>1, ConcatBytes, ConcatLen
<1>3. PICK from : from = Len(c) - n - SearchBack(Len(a)) + 1
    OBVIOUS
<1>4. /\ from \in Nat /\ from # 0
      /\ \A i \in Nat : i # 0 /\ i < from => i <= Len(a) - 3
    <2>1. PICK l, k : l = Len(a) /\ k = SearchBack(Len(a))
        OBVIOUS
    <2>2. l \in Nat /\ k \in Nat /\ ((k = 4 /\ l >= 4) \/ k = l)
        BY <1>2, <2>1 DEF SearchBack
    <2>3. Len(c) = l + n
        BY <1>2, <2>1
    <2>4. from = l - k + 1
        BY <1>3, <2>1, <2>2, <2>3
    <2>5. from \in Nat /\ from # 0 /\ \A i \in Nat : i # 0 /\ i < from => i <= l - 3
        BY <2>2, <2>4
    <2> QED
        BY <2>1, <2>5
<1>5. e = memmem(c, from, CRLF \o CRLF)
    BY <1>1, <1>3 DEF EndIn
<1>6. e \in from .. Len(c) - 3 /\ EndAt(c, e) /\ \A i \in from .. Len(c) - 3 : i < e => ~EndAt(c, i)
    BY <1>2, <1>4, <1>5, FoundFirst
<1>7. \A i \in 1 .. Len(a) - 3 : ~EndAt(c, i)
    BY <1>1, EndInPrefix
<1>8. ASSUME NEW i \in 1 .. Len(c) - 3, i < e PROVE ~EndAt(c, i)
    <2>1. CASE i < from
        <3>1. i \in 1 .. Len(a) - 3
            BY <1>2, <1>4, <2>1
        <3> QED
            BY <1>7, <3>1
    <2>2. CASE ~(i < from)
        <3>1. i \in from .. Len(c) - 3
            BY <1>2, <1>4, <2>2
        <3> QED
            BY <1>6, <1>8, <3>1
    <2> QED
        BY <2>1, <2>2
<1>9. e \in Nat /\ e \in 1 .. Len(c) - 3
    BY <1>2, <1>4, <1>6
<1> QED
    BY <1>1, <1>6, <1>8, <1>9

(* A piece of the header: what comes after its end goes where the rest of  *)
(* the body goes.                                                          *)
LEMMA DeliverHeaderPiece == ASSUME DeliverInv, HeadInv, NEW n, HeaderPiece(n) PROVE DeliverInv'
<1>1. PICK a, b, r : a = hbuf /\ b = Piece(n) /\ r = rest'
    OBVIOUS
<1>2. /\ cpc = "header" /\ n \in 1 .. Len(rest) /\ r = From(rest, n + 1) /\ hbuf' = a \o b
      /\ resp' = resp /\ out' = out /\ got' = got
    BY <1>1 DEF HeaderPiece, TakeRest
<1>3. a \in Seq(Byte) /\ rest \in Seq(Byte) /\ \A i \in 1 .. Len(a) - 3 : ~EndAt(a, i)
    BY <1>1, <1>2 DEF HeadInv
<1>4. /\ chunk = NoChunk /\ out = <<>> /\ got = <<>> /\ extra = NoBuffer
      /\ resp.te \in Encodings /\ resp.body \in Bodies
    BY <1>2 DEF DeliverInv, HeaderPart
<1>5. n \in Nat /\ n \in 0 .. Len(rest)
    BY <1>2, <1>3
<1>6. b \in Seq(Byte) /\ r \in Seq(Byte) /\ Len(b) = n /\ rest = b \o r
    BY <1>1, <1>2, <1>3, <1>5, SplitAt DEF Piece, From
<1>7. PICK c : c = a \o b
    OBVIOUS
<1>8. c \in Seq(Byte) /\ c = hbuf' /\ c \o r = hbuf \o rest
    <2>1. c \in Seq(Byte) /\ Assoc(a, b, r)
        BY <1>3, <1>6, <1>7, ConcatBytes, ConcatAssoc
    <2> QED
        BY <1>1, <1>2, <1>6, <1>7, <2>1 DEF Assoc
<1>9. PICK h \in Headers : c \o r = h \o Wire(resp.te, resp.body) \/ c \o r = Front(h)
    BY <1>2, <1>8 DEF DeliverInv, HeaderPart
<1>10. PICK e, v : e = EndIn(c, n, SearchBack(Len(a))) /\ v = From(c, e + 4)
    OBVIOUS
<1>11. CASE e = 0
    <2>1. cpc' = "header" /\ chunk' = chunk /\ extra' = extra
        BY <1>1, <1>2, <1>8, <1>10, <1>11 DEF HeaderPiece
    <2>2. hbuf' \o rest' = h \o Wire(resp'.te, resp'.body) \/ hbuf' \o rest' = Front(h)
        BY <1>1, <1>2, <1>8, <1>9
    <2> QED
        BY <1>2, <1>4, <2>1, <2>2 DEF DeliverInv, HeaderPart, StreamPart
<1>12. CASE e # 0 /\ ~resp.ok
    <2>1. cpc' = "abort"
        BY <1>1, <1>2, <1>8, <1>10, <1>12 DEF HeaderPiece
    <2> QED
        BY <2>1 DEF DeliverInv, HeaderPart, StreamPart
<1>13. CASE e # 0 /\ resp.ok
    <2>1. /\ cpc' = "idle"
          /\ chunk' = IF resp.te = "chunked" THEN chunked_encoding_round(v, NoChunk) ELSE NoChunk
          /\ extra' = CASE resp.te = "none" -> v [] resp.te = "chunked" -> <<>> [] OTHER -> NoBuffer
        BY <1>1, <1>2, <1>4, <1>8, <1>10, <1>13 DEF HeaderPiece
    <2>2. /\ e \in Nat /\ e \in 1 .. Len(c) - 3 /\ EndAt(c, e)
          /\ \A i \in 1 .. Len(c) - 3 : i < e => ~EndAt(c, i)
        BY <1>3, <1>5, <1>6, <1>7, <1>10, <1>13, FirstEndFound
    <2>3. PICK w : w = Wire(resp.te, resp.body)
        OBVIOUS
    <2>4. w \in Seq(Byte)
        BY <1>4, <2>3, WireTyped
    <2>5. c \o r = h \o w
        BY <1>6, <1>8, <1>9, <2>2, <2>3, FrontHasNoEnd, HeaderBlocks
    <2>6. BodyAfter(c, e, r, w)
        BY <1>6, <1>8, <2>2, <2>4, <2>5, BodyFound, HeaderBlocks
    <2>7. v \in Seq(Byte) /\ v \o r = w
        BY <1>10, <2>6 DEF BodyAfter
    <2>8. StreamOk(resp.te, resp.body.chunks, chunk', extra', <<>>, <<>>, r)
        BY <1>4, <1>6, <2>1, <2>3, <2>7, StreamStarts DEF Encodings
    <2> QED
        BY <1>1, <1>2, <1>4, <2>1, <2>8 DEF DeliverInv, HeaderPart, StreamPart
<1> QED
    BY <1>11, <1>12, <1>13

(* stream:read and stream:file begin with what the header's last piece     *)
(* left.                                                                   *)
LEMMA DeliverBegin ==
    ASSUME DeliverInv, cpc = "idle", Begin, UNCHANGED <<resp, rest, chunk, got>>
    PROVE  DeliverInv'
<1>1. /\ resp.te \in Encodings /\ resp.body \in Bodies
      /\ StreamOk(resp.te, resp.body.chunks, chunk, extra, <<>>, got, rest)
    BY DEF DeliverInv, StreamPart
<1>2. /\ cpc' = "reading" /\ extra' = NoBuffer /\ out' = Pending(extra, <<>>)
      /\ resp' = resp /\ rest' = rest /\ chunk' = chunk /\ got' = got
    BY DEF Begin, Pending
<1>3. StreamOk(resp.te, resp.body.chunks, chunk, NoBuffer, Pending(extra, <<>>), got, rest)
    BY <1>1, StreamBegins DEF Encodings
<1> QED
    BY <1>1, <1>2, <1>3 DEF DeliverInv, HeaderPart, StreamPart

(* A piece of the body goes through the decoder or to the string.          *)
LEMMA DeliverBodyPiece == ASSUME DeliverInv, NEW n, BodyPiece(n) PROVE DeliverInv'
<1>1. /\ resp.te \in Encodings /\ resp.body \in Bodies /\ extra = NoBuffer
      /\ StreamOk(resp.te, resp.body.chunks, chunk, NoBuffer, out, got, rest)
    BY DEF BodyPiece, DeliverInv, StreamPart
<1>2. PICK b, r : b = Piece(n) /\ r = rest'
    OBVIOUS
<1>3. /\ cpc = "reading" /\ cpc' = cpc /\ n \in 1 .. Len(rest) /\ r = From(rest, n + 1)
      /\ resp' = resp /\ extra' = extra /\ got' = got
    BY <1>2 DEF BodyPiece, TakeRest
<1>4. IF resp.te = "chunked" THEN chunk' = chunked_encoding_round(b, chunk) /\ out' = out
      ELSE chunk' = chunk /\ out' = out \o b
    BY <1>2 DEF BodyPiece
<1>5. rest \in Seq(Byte)
    BY <1>1 DEF StreamOk
<1>6. n \in 0 .. Len(rest)
    BY <1>3, <1>5
<1>7. b \in Seq(Byte) /\ r \in Seq(Byte) /\ rest = b \o r
    BY <1>2, <1>3, <1>5, <1>6, SplitAt DEF Piece, From
<1>8. StreamOk(resp.te, resp.body.chunks, chunk, NoBuffer, out, got, b \o r)
    BY <1>1, <1>7
<1>9. StreamOk(resp.te, resp.body.chunks, chunk', NoBuffer, out', got, r)
    BY <1>1, <1>4, <1>7, <1>8, StreamPiece DEF Encodings
<1> QED
    BY <1>1, <1>2, <1>3, <1>9 DEF DeliverInv, HeaderPart, StreamPart

(* A read returns what it has.                                             *)
LEMMA DeliverBodyEnd == ASSUME DeliverInv, BodyEnd PROVE DeliverInv'
<1>1. /\ resp.te \in Encodings /\ resp.body \in Bodies /\ extra = NoBuffer
      /\ StreamOk(resp.te, resp.body.chunks, chunk, NoBuffer, out, got, rest)
    BY DEF BodyEnd, DeliverInv, StreamPart
<1>2. PICK ans : ans = Answer
    OBVIOUS
<1>3. /\ got' = got \o ans /\ chunk' = [chunk EXCEPT !.content = <<>>] /\ out' = <<>>
      /\ cpc' \in {"idle", "reading"} /\ resp' = resp /\ rest' = rest /\ extra' = extra
    BY <1>2 DEF BodyEnd
<1>4. ans = IF resp.te = "chunked" THEN out \o chunk.content ELSE out
    BY <1>2 DEF Answer
<1>5. StreamOk(resp.te, resp.body.chunks, chunk', NoBuffer, <<>>, got \o ans, rest)
    BY <1>1, <1>3, <1>4, StreamEnds DEF Encodings
<1> QED
    BY <1>1, <1>3, <1>5 DEF DeliverInv, HeaderPart, StreamPart

(* A connection that breaks changes nothing of what was delivered.         *)
LEMMA DeliverBodyBreaks == ASSUME DeliverInv, BodyBreaks PROVE DeliverInv'
<1>1. /\ resp.te \in Encodings /\ resp.body \in Bodies /\ cpc = "reading" /\ extra = NoBuffer
      /\ StreamOk(resp.te, resp.body.chunks, chunk, extra, out, got, rest)
    BY DEF BodyBreaks, DeliverInv, StreamPart
<1>2. UNCHANGED <<rest, chunk, extra, out, got>>
    BY DEF BodyBreaks
<1>3. CASE resp.te = "chunked"
    <2>1. PICK end \in Ends : resp' = [resp EXCEPT !.end = end]
        BY <1>3 DEF BodyBreaks
    <2>2. resp'.te = resp.te /\ resp'.body = resp.body /\ cpc' = cpc
        BY <1>3, <2>1 DEF BodyBreaks
    <2> QED
        BY <1>1, <1>2, <2>2 DEF DeliverInv, HeaderPart, StreamPart
<1>4. CASE resp.te # "chunked"
    <2>1. cpc' = "wild"
        BY <1>4 DEF BodyBreaks
    <2> QED
        BY <2>1 DEF DeliverInv, HeaderPart, StreamPart
<1> QED
    BY <1>3, <1>4

(* Every step of the client keeps the invariant.                           *)
LEMMA DeliverNext == DeliverInv /\ HeadInv /\ [ClientNext]_clientVars => DeliverInv'
<1> SUFFICES ASSUME DeliverInv, HeadInv, [ClientNext]_clientVars PROVE DeliverInv'
    OBVIOUS
<1>1. ASSUME NEW h \in Headers, NEW te \in Encodings, NEW b \in Bodies, NEW end, NEW ok,
             Request(h, te, b, end, ok)
      PROVE  DeliverInv'
    BY <1>1, DeliverRequest
<1>2. ASSUME NEW n, HeaderPiece(n) PROVE DeliverInv'
    BY <1>2, DeliverHeaderPiece
<1>3. CASE HeaderFails
    BY <1>3 DEF HeaderFails, DeliverInv, HeaderPart, StreamPart
<1>4. CASE ReadCall
    BY <1>4, DeliverBegin DEF ReadCall
<1>5. ASSUME NEW max, FileCall(max) PROVE DeliverInv'
    BY <1>5, DeliverBegin DEF FileCall
<1>6. CASE StreamClose \/ StreamGc \/ ReadFreed
    <2>1. /\ UNCHANGED <<resp, rest, chunk, extra, out, got>>
          /\ cpc = "idle" /\ (cpc' = cpc \/ cpc' \in {"wild", "gone"})
        BY <1>6 DEF StreamClose, StreamGc, ReadFreed, FreeStream
    <2> QED
        BY <2>1 DEF DeliverInv, HeaderPart, StreamPart
<1>7. CASE BodyEnd
    BY <1>7, DeliverBodyEnd
<1>8. CASE BodyBreaks
    BY <1>8, DeliverBodyBreaks
<1>9. ASSUME NEW n, BodyPiece(n) PROVE DeliverInv'
    BY <1>9, DeliverBodyPiece
<1>10. CASE UNCHANGED clientVars
    BY <1>10 DEF clientVars, DeliverInv, HeaderPart, StreamPart
<1> QED
    BY <1>1, <1>2, <1>3, <1>4, <1>5, <1>6, <1>7, <1>8, <1>9, <1>10
    DEF ClientNext, Network, Encodings

(* The stream is in order: what it delivers is the content.                *)
LEMMA DeliverGives == DeliverInv => ContentDelivered
<1> SUFFICES ASSUME DeliverInv, cpc \in {"idle", "reading"}, resp.te # "other"
             PROVE  ContentDelivered
    BY DEF ContentDelivered, DecodedIsPrefix, ContentComplete
<1>1. /\ resp.te \in {"none", "chunked"}
      /\ StreamOk(resp.te, resp.body.chunks, chunk, extra, out, got, rest)
      /\ cpc = "idle" => out = <<>>
    BY DEF DeliverInv, StreamPart, Encodings
<1>2. /\ IsPrefix(got \o Pending(extra, out) \o chunk.content, Content)
      /\ out = <<>> /\ extra = NoBuffer /\ rest = <<>> => got \o chunk.content = Content
    BY <1>1, StreamGives DEF Content
<1>3. DecodedIsPrefix
    BY <1>2 DEF DecodedIsPrefix, Pending
<1>4. ContentComplete
    BY <1>1, <1>2 DEF ContentComplete
<1> QED
    BY <1>3, <1>4 DEF ContentDelivered

(* However the network splits a response, whatever its bytes and whether   *)
(* they come with the header or later, what the program has been given is  *)
(* a prefix of the content, and all of it once the peer has closed.        *)
THEOREM ContentIsDelivered == Spec => []ContentDelivered
<1>1. Init => HeadInv /\ DeliverInv
    BY DEF Init, ClientInit, HeadInv, DeliverInv, HeaderPart, StreamPart
<1>2. HeadInv /\ DeliverInv /\ [Next]_allVars => HeadInv' /\ DeliverInv'
    BY StepsOfParts, HeadInvNext, DeliverNext
<1> QED
    BY <1>1, <1>2, DeliverGives, PTL DEF Spec, allVars

(* The parser of a plain body, with what was collected s.                  *)
Collects(st, s) == {"status", "body"} \subseteq DOMAIN st /\ st.status = "normal" /\ st.body = s

(* The first call sets it up and collects.                                 *)
LEMMA PlainStarts ==
    ASSUME NEW r, r.type = "plain", NEW buf \in Seq(Byte)
    PROVE  Collects(rolling_file_parse(r, NoParse, buf), buf)
<1>1. PICK p : p = StartParse(r)
    OBVIOUS
<1>2. {"status", "body"} \subseteq DOMAIN p /\ p.status = "normal" /\ p.body = <<>>
    BY <1>1 DEF StartParse, HasParameter, NoParse
<1>3. NoParse.status = "ignore"
    BY DEF NoParse
<1>4. rolling_file_parse(r, NoParse, buf) = [p EXCEPT !.body = @ \o buf]
    BY <1>1, <1>2, <1>3 DEF rolling_file_parse
<1>5. <<>> \o buf = buf
    BY EmptyBytes
<1> QED
    BY <1>2, <1>4, <1>5 DEF Collects

(* Later calls collect what they are given.                                *)
LEMMA PlainGoesOn ==
    ASSUME NEW r, r.type = "plain", NEW p, NEW s, Collects(p, s), NEW buf
    PROVE  Collects(rolling_file_parse(r, p, buf), s \o buf)
<1>1. {"status", "body"} \subseteq DOMAIN p /\ p.status = "normal" /\ p.body = s
    BY DEF Collects
<1>2. rolling_file_parse(r, p, buf) = [p EXCEPT !.body = @ \o buf]
    BY <1>1 DEF rolling_file_parse
<1> QED
    BY <1>1, <1>2 DEF Collects

(* The end that recv_header finds is the first: what it does not search    *)
(* are places it has searched before and the first four.                   *)
LEMMA FirstRequestEnd ==
    ASSUME NEW a \in Seq(Byte), NEW b \in Seq(Byte), NEW v \in Seq(Byte),
           \A i \in 1 .. Len(a) - 3 : ~EndAt(a, i),
           \A i \in 1 .. 4 : i <= Len((a \o b) \o v) - 3 => ~EndAt((a \o b) \o v, i),
           NEW e, e = memmem(a \o b, Len(a) - LookBack(Len(a)) + 1, CRLF \o CRLF), e # 0
    PROVE  /\ e \in Nat /\ e \in 1 .. Len(a \o b) - 3 /\ EndAt(a \o b, e)
           /\ \A i \in 1 .. Len(a \o b) - 3 : i < e => ~EndAt(a \o b, i)
<1>1. PICK c : c = a \o b
    OBVIOUS
<1>2. c \in Seq(Byte) /\ Len(c) = Len(a) + Len(b) /\ Len(a) \in Nat /\ Len(b) \in Nat
    BY <1>1, ConcatBytes, ConcatLen
<1>3. PICK from : from = Len(a) - LookBack(Len(a)) + 1
    OBVIOUS
<1>4. from \in Nat /\ from # 0 /\ \A i \in Nat : i # 0 /\ i < from => i <= Len(a) - 3 \/ i <= 4
    <2>1. PICK l, k : l = Len(a) /\ k = LookBack(Len(a))
        OBVIOUS
    <2>2. l \in Nat /\ k \in Nat /\ ((k = 4 /\ l > 4) \/ (k = 0 /\ l <= 4))
        BY <1>2, <2>1 DEF LookBack
    <2>3. from = l - k + 1
        BY <1>3, <2>1
    <2>4. from \in Nat /\ from # 0 /\ \A i \in Nat : i # 0 /\ i < from => i <= l - 3 \/ i <= 4
        <3>1. CASE k = 4 /\ l > 4
            BY <2>2, <2>3, <3>1
        <3>2. CASE k = 0 /\ l <= 4
            BY <2>2, <2>3, <3>2
        <3> QED
            BY <2>2, <3>1, <3>2
    <2> QED
        BY <2>1, <2>4, Zenon
<1>5. e \in from .. Len(c) - 3 /\ EndAt(c, e) /\ \A i \in from .. Len(c) - 3 : i < e => ~EndAt(c, i)
    <2>1. e = memmem(c, from, CRLF \o CRLF)
        BY <1>1, <1>3
    <2> QED
        BY <1>2, <1>4, <2>1, FoundFirst
<1>6. \A i \in 1 .. Len(a) - 3 : ~EndAt(c, i)
    BY <1>1, EndInPrefix
<1>7. ASSUME NEW i \in 1 .. Len(c) - 3, i <= 4 PROVE ~EndAt(c, i)
    <2>1. EndAt(c \o v, i) <=> EndAt(c, i)
        BY <1>2, EndInPrefix
    <2>2. Len(c \o v) = Len(c) + Len(v) /\ Len(v) \in Nat
        BY <1>2, ConcatLen
    <2>3. i \in 1 .. 4 /\ i <= Len(c \o v) - 3
        BY <1>2, <1>7, <2>2
    <2> QED
        BY <1>1, <2>1, <2>3
<1>8. ASSUME NEW i \in 1 .. Len(c) - 3, i < e PROVE ~EndAt(c, i)
    <2>1. CASE i < from /\ i <= 4
        BY <1>7, <2>1
    <2>2. CASE i < from /\ ~(i <= 4)
        <3>1. i \in 1 .. Len(a) - 3
            BY <1>2, <1>4, <2>2
        <3> QED
            BY <1>6, <3>1
    <2>3. CASE ~(i < from)
        <3>1. i \in from .. Len(c) - 3
            BY <1>2, <1>4, <2>3
        <3> QED
            BY <1>5, <1>8, <3>1
    <2> QED
        BY <2>1, <2>2, <2>3
<1>9. e \in Nat /\ e \in 1 .. Len(c) - 3
    BY <1>2, <1>4, <1>5
<1> QED
    BY <1>1, <1>5, <1>8, <1>9

(* Before the header's end is found the parser has not started, and what   *)
(* was received and what is to come are a header and a body, or a header   *)
(* that was cut off.  From then on a plain body is what was collected and  *)
(* what is to come.                                                        *)
CollectInv ==
    /\ rpc \in {"unused", "header"} => fp = NoParse
    /\ rpc = "header" =>
         /\ reqst \in Requests
         /\ \E h \in RequestHeaders : rbuf \o inp = h \o reqst.body \/ rbuf \o inp = Front(h)
    /\ rpc = "route" => reqst \in Requests /\ inp \in Seq(Byte)
    /\ rpc = "route" /\ reqst.type = "plain" =>
         \E s \in Seq(Byte) : Collects(fp, s) /\ s \o inp = reqst.body

(* A read of the header either does not end it, or it ends it, and what    *)
(* came after the end, u, is the body's first part.                        *)
HeadGoesOn ==
    /\ rpc' \in {"header", "large"} /\ UNCHANGED <<fp, sliced>>
    /\ \E h \in RequestHeaders : rbuf' \o inp' = h \o reqst'.body \/ rbuf' \o inp' = Front(h)
HeadEnds(n, u) ==
    /\ rpc' = "route" /\ u \in Seq(Byte) /\ u \o inp' = reqst.body
    /\ fp' = IF reqst.type = "none" THEN NoParse ELSE rolling_file_parse(reqst, NoParse, u)
    /\ sliced' = (reqst.type = "form" /\ EndsInside(n))

(* These are the two cases.                                                *)
LEMMA HeaderRead ==
    ASSUME CollectInv, ReqInv, NEW n, RecvHeader(n)
    PROVE  /\ fp = NoParse /\ reqst \in Requests /\ reqst' = reqst /\ inp' \in Seq(Byte)
           /\ HeadGoesOn \/ \E u : HeadEnds(n, u)
<1>1. PICK a, r, b, v : a = rbuf /\ r = inp /\ b = SubSeq(inp, 1, n) /\ v = inp'
    OBVIOUS
<1>2. /\ rpc = "header" /\ n \in 1 .. Len(r) /\ v = SubSeq(r, n + 1, Len(r)) /\ rbuf' = a \o b
      /\ reqst' = reqst
    BY <1>1 DEF RecvHeader, From
<1>3. /\ a \in Seq(Byte) /\ r \in Seq(Byte)
      /\ \A i \in 1 .. Len(a) - 3 : ~EndAt(a, i)
      /\ \A i \in 1 .. 4 : i <= Len(a \o r) - 3 => ~EndAt(a \o r, i)
    BY <1>1, <1>2 DEF ReqInv
<1>4. fp = NoParse /\ reqst \in Requests
    BY <1>2 DEF CollectInv
<1>5. n \in 0 .. Len(r)
    BY <1>2, <1>3
<1>6. b \in Seq(Byte) /\ v \in Seq(Byte) /\ r = b \o v
    BY <1>1, <1>2, <1>3, <1>5, SplitAt, SMTT(20)
<1>7. PICK c : c = a \o b
    OBVIOUS
<1>8. c \in Seq(Byte) /\ c = rbuf' /\ c \o v = a \o r
    <2>1. c \in Seq(Byte) /\ Assoc(a, b, v)
        BY <1>3, <1>6, <1>7, ConcatBytes, ConcatAssoc
    <2> QED
        BY <1>2, <1>6, <1>7, <2>1 DEF Assoc
<1>9. PICK h \in RequestHeaders : c \o v = h \o reqst.body \/ c \o v = Front(h)
    BY <1>1, <1>2, <1>8 DEF CollectInv
<1>10. PICK e, u : e = memmem(c, Len(a) - LookBack(Len(a)) + 1, CRLF \o CRLF) /\ u = From(c, e + 4)
    OBVIOUS
<1>11. CASE e = 0
    <2>1. rpc' \in {"header", "large"} /\ UNCHANGED <<fp, sliced>>
        BY <1>1, <1>2, <1>8, <1>10, <1>11 DEF RecvHeader
    <2>2. rbuf' \o inp' = h \o reqst'.body \/ rbuf' \o inp' = Front(h)
        BY <1>1, <1>2, <1>8, <1>9
    <2> QED
        BY <1>1, <1>2, <1>4, <1>6, <2>1, <2>2 DEF HeadGoesOn
<1>12. CASE e # 0
    <2>1. /\ rpc' = "route"
          /\ fp' = IF reqst.type = "none" THEN fp ELSE rolling_file_parse(reqst, fp, u)
          /\ sliced' = (reqst.type = "form" /\ EndsInside(n))
        BY <1>1, <1>2, <1>8, <1>10, <1>12 DEF RecvHeader
    <2>2. /\ e \in Nat /\ e \in 1 .. Len(c) - 3 /\ EndAt(c, e)
          /\ \A i \in 1 .. Len(c) - 3 : i < e => ~EndAt(c, i)
        <3>1. \A i \in 1 .. 4 : i <= Len((a \o b) \o v) - 3 => ~EndAt((a \o b) \o v, i)
            BY <1>3, <1>7, <1>8
        <3>2. e = memmem(a \o b, Len(a) - LookBack(Len(a)) + 1, CRLF \o CRLF)
            BY <1>7, <1>10
        <3>3. /\ e \in Nat /\ e \in 1 .. Len(a \o b) - 3 /\ EndAt(a \o b, e)
              /\ \A i \in 1 .. Len(a \o b) - 3 : i < e => ~EndAt(a \o b, i)
            BY <1>3, <1>6, <1>12, <3>1, <3>2, FirstRequestEnd
        <3> QED
            BY <1>7, <3>3
    <2>3. PICK w : w = reqst.body
        OBVIOUS
    <2>4. w \in Seq(Byte)
        BY <1>4, <2>3, RequestsTyped
    <2>5. c \o v = h \o w
        BY <1>6, <1>8, <1>9, <2>2, <2>3, FrontHasNoEnd, HeaderBlocks
    <2>6. BodyAfter(c, e, v, w)
        BY <1>6, <1>8, <2>2, <2>4, <2>5, BodyFound, HeaderBlocks
    <2>7. u \in Seq(Byte) /\ u \o v = w
        BY <1>10, <2>6 DEF BodyAfter
    <2>8. HeadEnds(n, u)
        BY <1>1, <1>4, <2>1, <2>3, <2>7 DEF HeadEnds
    <2> QED
        BY <1>1, <1>2, <1>4, <1>6, <2>8
<1> QED
    BY <1>11, <1>12

(* It keeps the invariant.                                                 *)
LEMMA CollectRecv == ASSUME CollectInv, ReqInv, NEW n, RecvHeader(n) PROVE CollectInv'
<1>1. fp = NoParse /\ reqst \in Requests /\ reqst' = reqst /\ inp' \in Seq(Byte)
    BY HeaderRead
<1>2. CASE HeadGoesOn
    BY <1>1, <1>2 DEF HeadGoesOn, CollectInv
<1>3. ASSUME NEW u, HeadEnds(n, u) PROVE CollectInv'
    <2>1. rpc' = "route" /\ u \in Seq(Byte) /\ u \o inp' = reqst.body
        BY <1>3 DEF HeadEnds
    <2>2. ASSUME reqst.type = "plain"
          PROVE  \E s \in Seq(Byte) : Collects(fp', s) /\ s \o inp' = reqst.body
        <3>1. Collects(rolling_file_parse(reqst, NoParse, u), u)
            BY <2>1, <2>2, PlainStarts
        <3>2. Collects(fp', u)
            BY <1>3, <2>2, <3>1 DEF HeadEnds
        <3> QED
            BY <2>1, <3>2
    <2> QED
        BY <1>1, <2>1, <2>2 DEF CollectInv
<1> QED
    BY <1>2, <1>3, HeaderRead

(* A read of req:roll.                                                     *)
LEMMA CollectRoll == ASSUME CollectInv, NEW n, RollPiece(n) PROVE CollectInv'
<1>1. PICK r, c, v : r = inp /\ c = SubSeq(inp, 1, n) /\ v = inp'
    OBVIOUS
<1>2. /\ rpc = "route" /\ rpc' = rpc /\ n \in 1 .. Len(r) /\ v = SubSeq(r, n + 1, Len(r))
      /\ fp' = rolling_file_parse(reqst, fp, c) /\ reqst' = reqst
    BY <1>1 DEF RollPiece, From
<1>3. reqst \in Requests /\ r \in Seq(Byte)
    BY <1>1, <1>2 DEF CollectInv
<1>4. n \in 0 .. Len(r)
    BY <1>2, <1>3
<1>5. c \in Seq(Byte) /\ v \in Seq(Byte) /\ r = c \o v
    BY <1>1, <1>2, <1>3, <1>4, SplitAt
<1>6. ASSUME reqst.type = "plain"
      PROVE  \E s \in Seq(Byte) : Collects(fp', s) /\ s \o inp' = reqst.body
    <2>1. PICK s \in Seq(Byte) : Collects(fp, s) /\ s \o r = reqst.body
        BY <1>1, <1>2, <1>6 DEF CollectInv
    <2>2. Collects(fp', s \o c)
        BY <1>2, <1>6, <2>1, PlainGoesOn
    <2>3. s \o c \in Seq(Byte) /\ Assoc(s, c, v)
        BY <1>5, ConcatBytes, ConcatAssoc
    <2>4. (s \o c) \o v = reqst.body
        BY <1>5, <2>1, <2>3 DEF Assoc
    <2> QED
        BY <1>1, <2>2, <2>3, <2>4
<1> QED
    BY <1>1, <1>2, <1>3, <1>5, <1>6 DEF CollectInv

(* Every step of the server keeps the invariant.                           *)
LEMMA CollectNext == CollectInv /\ ReqInv /\ [RequestNext]_requestVars => CollectInv'
<1> SUFFICES ASSUME CollectInv, ReqInv, [RequestNext]_requestVars PROVE CollectInv'
    OBVIOUS
<1>1. ASSUME NEW h \in RequestHeaders, NEW r \in Requests, Accept(h, r)
      PROVE  CollectInv'
    <2>1. /\ rbuf' = <<>> /\ rpc' = "header" /\ reqst' = r /\ fp' = NoParse
          /\ inp' = h \o r.body \/ inp' = Front(h)
        BY <1>1 DEF Accept, CollectInv, ReqInv
    <2>2. inp' \in Seq(Byte)
        <3>1. ReqInv'
            BY <1>1, ReqInvAccept
        <3> QED
            BY <2>1, <3>1 DEF ReqInv
    <2>3. rbuf' \o inp' = inp'
        BY <2>1, <2>2, EmptyBytes
    <2> QED
        BY <2>1, <2>3 DEF CollectInv
<1>2. ASSUME NEW n, RecvHeader(n) PROVE CollectInv'
    BY <1>2, CollectRecv
<1>3. CASE RecvEnds
    BY <1>3 DEF RecvEnds, CollectInv
<1>4. ASSUME NEW n, RollPiece(n) PROVE CollectInv'
    BY <1>4, CollectRoll
<1>5. CASE UNCHANGED requestVars
    BY <1>5 DEF requestVars, CollectInv
<1> QED
    BY <1>1, <1>2, <1>3, <1>4, <1>5 DEF RequestNext

(* A plain body is collected byte for byte, in every split of header and   *)
(* body into reads.                                                        *)
THEOREM PlainBodiesCollected == Spec => []BodyIsCollected
<1>1. Init => ReqInv /\ CollectInv
    BY DEF Init, RequestInit, ReqInv, CollectInv
<1>2. ReqInv /\ CollectInv /\ [Next]_allVars => ReqInv' /\ CollectInv'
    BY StepsOfParts, ReqInvNext, CollectNext
<1>3. CollectInv => BodyIsCollected
    <2> SUFFICES ASSUME CollectInv, rpc = "route", reqst.type = "plain"
                 PROVE  fp.body \o inp = reqst.body
        BY DEF BodyIsCollected
    <2>1. PICK s \in Seq(Byte) : Collects(fp, s) /\ s \o inp = reqst.body
        BY DEF CollectInv
    <2> QED
        BY <2>1 DEF Collects
<1> QED
    BY <1>1, <1>2, <1>3, PTL DEF Spec, allVars

(* What holds of the first element of a sequence of steps and is kept by   *)
(* each step holds of all.                                                 *)
LEMMA StepsStay ==
    ASSUME NEW N \in Nat, NEW S, NEW g, g[0] \in S,
           \A m \in 1 .. N : g[m - 1] \in S => g[m] \in S
    PROVE  \A n \in 0 .. N : g[n] \in S
<1> DEFINE Bad == {n \in 0 .. N : g[n] \notin S}
<1> SUFFICES ASSUME Bad # {} PROVE FALSE
    OBVIOUS
<1>1. PICK m \in Bad : \A y \in Bad : m <= y
    <2>1. Bad \in SUBSET Nat
        OBVIOUS
    <2> HIDE DEF Bad
    <2> QED
        BY <2>1, LeastOfNaturals
<1>2. m \in 0 .. N /\ g[m] \notin S
    OBVIOUS
<1>3. m # 0
    BY <1>2
<1>4. m \in 1 .. N /\ m - 1 \in 0 .. N /\ ~(m <= m - 1)
    BY <1>2, <1>3
<1>5. m - 1 \notin Bad
    <2> HIDE DEF Bad
    <2> QED
        BY <1>1, <1>4
<1>6. g[m - 1] \in S
    BY <1>4, <1>5
<1> QED
    BY <1>2, <1>4, <1>6

(* Steps in a set can be made one after the other.                         *)
IsSteps(f, x, F, n) == DOMAIN f = 0 .. n /\ f[0] = x /\ \A m \in 1 .. n : f[m] = F[m][f[m - 1]]

(* There is a function of the values they go through.                      *)
LEMMA StepsExist ==
    ASSUME NEW N \in Nat, NEW S, NEW x \in S, NEW F \in [1 .. N -> [S -> S]]
    PROVE  \E f \in [0 .. N -> S] : IsSteps(f, x, F, N)
<1> DEFINE Bad == {n \in 0 .. N : ~ \E f : IsSteps(f, x, F, n)}
<1>1. Bad = {}
    <2> SUFFICES ASSUME Bad # {} PROVE FALSE
        OBVIOUS
    <2>1. PICK m \in Bad : \A y \in Bad : m <= y
        <3>1. Bad \in SUBSET Nat
            OBVIOUS
        <3> HIDE DEF Bad
        <3> QED
            BY <3>1, LeastOfNaturals
    <2>2. m \in 0 .. N /\ m \in Nat /\ ~ \E f : IsSteps(f, x, F, m)
        OBVIOUS
    <2>3. CASE m = 0
        <3> DEFINE f == [n \in 0 .. 0 |-> x]
        <3>1. DOMAIN f = 0 .. 0 /\ f[0] = x /\ 1 .. 0 = {}
            OBVIOUS
        <3> HIDE DEF f
        <3>2. IsSteps(f, x, F, 0)
            BY <3>1 DEF IsSteps
        <3> QED
            BY <2>2, <2>3, <3>2
    <2>4. CASE m # 0
        <3>1. m - 1 \in 0 .. N /\ m - 1 \notin Bad
            <4> HIDE DEF Bad
            <4> QED
                BY <2>1, <2>2, <2>4
        <3>2. PICK g : IsSteps(g, x, F, m - 1)
            BY <3>1
        <3> DEFINE f == [n \in 0 .. m |-> IF n = m THEN F[m][g[m - 1]] ELSE g[n]]
        <3>3. DOMAIN f = 0 .. m
            OBVIOUS
        <3>4. \A n \in 0 .. m : f[n] = IF n = m THEN F[m][g[m - 1]] ELSE g[n]
            OBVIOUS
        <3> HIDE DEF f, Bad
        <3>5. f[0] = g[0] /\ f[m] = F[m][f[m - 1]]
            BY <2>2, <2>4, <3>4
        <3>6. ASSUME NEW n \in 1 .. m PROVE f[n] = F[n][f[n - 1]]
            <4>1. CASE n = m
                BY <3>5, <4>1
            <4>2. CASE n # m
                <5>1. n \in 1 .. m - 1 /\ n \in 0 .. m /\ n - 1 \in 0 .. m /\ n - 1 # m
                    BY <2>2, <4>2
                <5>2. f[n] = g[n] /\ f[n - 1] = g[n - 1]
                    BY <3>4, <4>2, <5>1
                <5>3. g[n] = F[n][g[n - 1]]
                    BY <3>2, <5>1 DEF IsSteps
                <5> QED
                    BY <5>2, <5>3
            <4> QED
                BY <4>1, <4>2
        <3>7. IsSteps(f, x, F, m)
            BY <3>2, <3>3, <3>5, <3>6 DEF IsSteps
        <3> QED
            BY <2>2, <3>7
    <2> QED
        BY <2>3, <2>4
<1>2. PICK g : IsSteps(g, x, F, N)
    <2>1. N \in 0 .. N /\ N \notin Bad
        <3> HIDE DEF Bad
        <3> QED
            BY <1>1
    <2> QED
        BY <2>1
<1> HIDE DEF Bad
<1>3. g[0] \in S /\ \A m \in 1 .. N : g[m - 1] \in S => g[m] \in S
    BY <1>2 DEF IsSteps
<1>4. \A n \in 0 .. N : g[n] \in S
    BY <1>3, StepsStay
<1> DEFINE f == [n \in 0 .. N |-> g[n]]
<1>5. f \in [0 .. N -> S] /\ \A n \in 0 .. N : f[n] = g[n]
    BY <1>4
<1>6. DOMAIN f = 0 .. N
    OBVIOUS
<1> HIDE DEF f
<1>7. \A m \in 1 .. N : m \in 0 .. N /\ m - 1 \in 0 .. N
    OBVIOUS
<1>8. IsSteps(f, x, F, N)
    BY <1>2, <1>5, <1>6, <1>7 DEF IsSteps
<1> QED
    BY <1>5, <1>8

(* The number that bytes give is a natural number.                         *)
LEMMA BigEndianTyped == ASSUME NEW b \in Seq(Nat) PROVE BigEndian(b) \in Nat
<1>1. PICK N \in Nat : N = Len(b)
    BY LenProperties
<1>2. \A i \in 1 .. N : b[i] \in Nat
    BY <1>1, LenProperties
<1> DEFINE Body(f) == [i \in 0 .. N |-> IF i = 0 THEN 0 ELSE 256 * f[i - 1] + b[i]]
           F == [m \in 1 .. N |-> [v \in Nat |-> 256 * v + b[m]]]
<1>3. F \in [1 .. N -> [Nat -> Nat]]
    <2>1. \A v, y \in Nat : 256 * v + y \in Nat
        OBVIOUS
    <2> QED
        BY <1>2, <2>1
<1>4. PICK f \in [0 .. N -> Nat] : IsSteps(f, 0, F, N)
    <2> HIDE DEF F
    <2> QED
        BY <1>3, StepsExist
<1>5. f[0] = 0 /\ \A m \in 1 .. N : f[m] = 256 * f[m - 1] + b[m]
    <2>1. \A m \in 1 .. N : f[m - 1] \in Nat
        <3>1. \A m \in 1 .. N : m - 1 \in 0 .. N
            OBVIOUS
        <3> QED
            BY <1>4, <3>1
    <2> QED
        BY <1>4, <2>1 DEF IsSteps
<1>6. f = Body(f)
    <2>1. \A i \in 0 .. N : f[i] = IF i = 0 THEN 0 ELSE 256 * f[i - 1] + b[i]
        BY <1>5
    <2> QED
        BY <2>1
<1> DEFINE V == CHOOSE g : g = Body(g)
<1>7. BigEndian(b) = V[N]
    BY <1>1 DEF BigEndian
<1>8. V = Body(V)
    <2> HIDE DEF Body
    <2> QED
        BY <1>6
<1> HIDE DEF V
<1>9. V[0] = 0 /\ \A m \in 1 .. N : V[m] = 256 * V[m - 1] + b[m]
    BY <1>8
<1> HIDE DEF Body, F
<1>10. \A m \in 1 .. N : V[m - 1] \in Nat => V[m] \in Nat
    <2> SUFFICES ASSUME NEW m \in 1 .. N, V[m - 1] \in Nat PROVE V[m] \in Nat
        OBVIOUS
    <2>1. PICK v \in Nat, y \in Nat : v = V[m - 1] /\ y = b[m]
        BY <1>2
    <2>2. V[m] = 256 * v + y
        BY <1>9, <2>1
    <2> QED
        BY <2>2
<1>11. \A n \in 0 .. N : V[n] \in Nat
    <2>1. V[0] \in Nat
        BY <1>9
    <2> QED
        BY <1>10, <2>1, StepsStay
<1> QED
    BY <1>7, <1>11

(* The types of the websocket's variables: what a loop of read has in its  *)
(* buffer is no more than it asked for, whatever the peer sends and        *)
(* whether bytes were lost or the end was taken for data.                  *)
WsTyped ==
    /\ wpc \in {"unused", "shake", "idle", "head", "ext", "payload", "wild", "failed"}
    /\ object \in {"open", "closed", "twice"}
    /\ wire \in Seq(Nat) /\ tmp \in Seq(Nat) /\ Len(tmp) <= 8
    /\ frame = [op |-> frame.op, len |-> frame.len, text |-> frame.text]
    /\ frame.len \in Nat /\ frame.text \in Seq(Nat) /\ Len(frame.text) <= frame.len
    /\ wpc = "head" => Len(tmp) <= 2
    /\ wpc = "ext" => Len(tmp) <= ExtBytes(frame.len) /\ frame.text = <<>>

(* Bytes of the wire that are added to a buffer.                           *)
LEMMA TakeBytes ==
    ASSUME NEW a \in Seq(Nat), NEW w \in Seq(Nat), NEW n \in 1 .. Len(w)
    PROVE  /\ SubSeq(w, n + 1, Len(w)) \in Seq(Nat)
           /\ a \o SubSeq(w, 1, n) \in Seq(Nat)
           /\ Len(a \o SubSeq(w, 1, n)) = Len(a) + n
<1>1. PICK x, y : x = SubSeq(w, 1, n) /\ y = SubSeq(w, n + 1, Len(w))
    OBVIOUS
<1>2. n \in Nat /\ n \in 0 .. Len(w) /\ 1 \in 1 .. Len(w) + 1 /\ n + 1 \in 1 .. Len(w) + 1
    BY LenProperties
<1>3. x \in Seq(Nat) /\ y \in Seq(Nat) /\ Len(x) = n
    BY <1>1, <1>2
<1>4. a \o x \in Seq(Nat) /\ Len(a \o x) = Len(a) + Len(x)
    BY <1>3, ConcatProperties
<1> QED
    BY <1>1, <1>3, <1>4

(* A buffer that is filled up with zeros.                                  *)
LEMMA FillZeros ==
    ASSUME NEW b \in Seq(Nat), NEW k \in Nat
    PROVE  b \o Zeros(k) \in Seq(Nat) /\ Len(b \o Zeros(k)) = Len(b) + k
<1>1. PICK z : z = Zeros(k)
    OBVIOUS
<1>2. z \in Seq(Nat) /\ Len(z) = k
    BY <1>1 DEF Zeros
<1> QED
    BY <1>1, <1>2, ConcatProperties

(* The number of length bytes, and the length they give.                   *)
LEMMA LengthTyped ==
    ASSUME NEW l \in Nat
    PROVE  /\ l % 128 \in Nat /\ ExtBytes(l) \in {0, 2, 8} /\ ExtBytes(l % 128) = ExtBytes(l)
           /\ \A b \in Seq(Nat) : Length(l, b) \in Nat
<1>1. l % 128 \in Nat /\ (l % 128) % 128 = l % 128
    OBVIOUS
<1>2. PICK e : e = ExtBytes(l)
    OBVIOUS
<1>3. e \in {0, 2, 8} /\ ExtBytes(l % 128) = e
    BY <1>1, <1>2 DEF ExtBytes
<1>4. \A b \in Seq(Nat) : Length(l, b) \in Nat
    BY <1>1, BigEndianTyped DEF Length
<1> QED
    BY <1>1, <1>2, <1>3, <1>4

(* The end of read's first loop.                                           *)
LEMMA TypedAfterHead ==
    ASSUME WsTyped, wire' \in Seq(Nat), object' = object,
           NEW b \in Seq(Nat), Len(b) = 2, AfterHead(b)
    PROVE  WsTyped'
<1>0. b[1] \in Nat /\ b[2] \in Nat
    <2>1. 1 \in 1 .. 2 /\ 2 \in 1 .. 2
        OBVIOUS
    <2>2. b \in [1 .. 2 -> Nat]
        BY LenProperties
    <2> QED
        BY <2>1, <2>2
<1>1. PICK x, l : x = b[1] /\ l = b[2] /\ x \in Nat /\ l \in Nat
    BY <1>0
<1>2. PICK o, m : o = x % 16 /\ m = l % 128
    OBVIOUS
<1>3. m \in Nat /\ frame' = [op |-> o, len |-> m, text |-> <<>>] /\ tmp' = <<>>
      /\ wpc' \in {"ext", "payload"}
    BY <1>1, <1>2, LengthTyped DEF AfterHead
<1>4. PICK e : e = ExtBytes(m)
    OBVIOUS
<1>5. e \in {0, 2, 8}
    BY <1>3, <1>4, LengthTyped
<1>6. <<>> \in Seq(Nat) /\ Len(<<>>) = 0
    OBVIOUS
<1>7. frame'.len = m /\ frame'.text = <<>> /\ frame'.op = o
    BY <1>3
<1>8. wpc' = "ext" => Len(tmp') <= ExtBytes(frame'.len)
    BY <1>3, <1>4, <1>5, <1>6, <1>7
<1> QED
    BY <1>3, <1>6, <1>7, <1>8 DEF WsTyped

(* The end of its second.                                                  *)
LEMMA TypedAfterExt ==
    ASSUME WsTyped, wire' \in Seq(Nat), object' = object, wpc = "ext",
           NEW b \in Seq(Nat), AfterExt(b)
    PROVE  WsTyped'
<1>1. PICK o, l, m : o = frame.op /\ l = frame.len /\ m = Length(frame.len, b)
    OBVIOUS
<1>2. frame = [op |-> o, len |-> l, text |-> <<>>] /\ m \in Nat
    BY <1>1, LengthTyped DEF WsTyped
<1>3. frame' = [frame EXCEPT !.len = m] /\ tmp' = <<>> /\ wpc' = "payload"
    BY <1>1 DEF AfterExt
<1>4. frame' = [op |-> o, len |-> m, text |-> <<>>]
    BY <1>2, <1>3
<1>5. <<>> \in Seq(Nat) /\ Len(<<>>) = 0
    OBVIOUS
<1>6. frame'.len = m /\ frame'.text = <<>> /\ frame'.op = o /\ Len(<<>>) <= m
    BY <1>2, <1>4, <1>5
<1> QED
    BY <1>2, <1>3, <1>4, <1>5, <1>6 DEF WsTyped

(* A piece, in each of the three loops.                                    *)
LEMMA TypedPiece == ASSUME WsTyped, NEW n, WsPiece(n) PROVE WsTyped'
<1>1. PICK a, w, f, v : a = tmp /\ w = wire /\ f = frame /\ v = Wanted
    OBVIOUS
<1>2. /\ a \in Seq(Nat) /\ w \in Seq(Nat) /\ Len(a) \in Nat /\ Len(w) \in Nat
      /\ f = [op |-> f.op, len |-> f.len, text |-> f.text]
      /\ f.len \in Nat /\ f.text \in Seq(Nat) /\ Len(f.text) \in Nat /\ Len(f.text) <= f.len
    BY <1>1 DEF WsTyped
<1>3. PICK x, b, size : x = SubSeq(w, 1, n) /\ b = a \o x /\ size = Len(a) + v
    OBVIOUS
<1>4. /\ wpc \in {"head", "ext", "payload"} /\ n \in 1 .. v /\ n <= Len(w) /\ object' = object
      /\ wire' = SubSeq(w, n + 1, Len(w))
    BY <1>1 DEF WsPiece
<1>5. CASE wpc = "payload"
    <2>1. frame' = [f EXCEPT !.text = f.text \o x] /\ tmp' = a /\ wpc' = wpc
        BY <1>1, <1>3, <1>5 DEF WsPiece
    <2>2. v = f.len - Len(f.text)
        BY <1>1, <1>5 DEF Wanted
    <2>3. n \in 1 .. Len(w) /\ Len(f.text) + n <= f.len
        BY <1>2, <1>4, <2>2
    <2>4. PICK t : t = f.text \o x
        OBVIOUS
    <2>5. wire' \in Seq(Nat) /\ t \in Seq(Nat) /\ Len(t) <= f.len
        BY <1>2, <1>3, <1>4, <2>3, <2>4, TakeBytes
    <2>6. frame' = [op |-> f.op, len |-> f.len, text |-> t]
        BY <1>2, <2>1, <2>4
    <2>7. frame'.len = f.len /\ frame'.text = t /\ frame'.op = f.op
        BY <2>6
    <2> QED
        BY <1>1, <1>2, <1>4, <1>5, <2>1, <2>5, <2>6, <2>7 DEF WsTyped
<1>6. CASE wpc \in {"head", "ext"}
    <2>1. PICK k : k = IF wpc = "head" THEN 2 ELSE ExtBytes(f.len)
        OBVIOUS
    <2>2. k \in {0, 2, 8} /\ Len(a) <= k
        BY <1>1, <1>2, <1>6, <2>1, LengthTyped DEF WsTyped
    <2>3. v = k - Len(a)
        BY <1>1, <1>6, <2>1 DEF Wanted
    <2>4. size = k /\ n \in 1 .. Len(w) /\ Len(a) + n <= k
        BY <1>2, <1>3, <1>4, <2>2, <2>3
    <2>5. wire' \in Seq(Nat) /\ b \in Seq(Nat) /\ Len(b) = Len(a) + n
        BY <1>2, <1>3, <1>4, <2>4, TakeBytes
    <2>6. LoopDone(b, size) <=> Len(b) = k
        BY <1>2, <2>2, <2>4, <2>5 DEF LoopDone
    <2>7. CASE Len(b) # k
        <3>1. tmp' = b /\ frame' = f /\ wpc' = wpc
            BY <1>1, <1>3, <1>6, <2>6, <2>7 DEF WsPiece
        <3>2. Len(b) <= k /\ k <= 8
            BY <2>2, <2>4, <2>5
        <3>3. (wpc = "head" => k = 2) /\ (wpc = "ext" => k = ExtBytes(f.len))
            BY <2>1
        <3>4. Len(b) <= 8
            BY <2>2, <2>4, <2>5
        <3> QED
            BY <1>1, <1>2, <1>4, <2>5, <3>1, <3>2, <3>3, <3>4 DEF WsTyped
    <2>8. CASE Len(b) = k
        <3>1. PICK c : c = b \o Zeros(0)
            OBVIOUS
        <3>2. c \in Seq(Nat) /\ Len(c) = k
            BY <2>5, <2>8, <3>1, <2>2, FillZeros
        <3>3. size - Len(b) = 0
            BY <2>2, <2>4, <2>8
        <3>4. CASE wpc = "head"
            <4>1. AfterHead(c)
                BY <1>1, <1>3, <2>6, <2>8, <3>1, <3>3, <3>4 DEF WsPiece
            <4> QED
                BY <1>4, <2>1, <2>5, <3>2, <3>4, <4>1, TypedAfterHead
        <3>5. CASE wpc = "ext"
            <4>1. AfterExt(c)
                BY <1>1, <1>3, <2>6, <2>8, <3>1, <3>3, <3>5 DEF WsPiece
            <4> QED
                BY <1>4, <2>5, <3>2, <3>5, <4>1, TypedAfterExt
        <3> QED
            BY <1>6, <3>4, <3>5
    <2> QED
        BY <2>7, <2>8
<1> QED
    BY <1>4, <1>5, <1>6

(* The connection's end: the loop goes on with zeros.                      *)
LEMMA TypedEnd == ASSUME WsTyped, WsEnd PROVE WsTyped'
<1>1. PICK a, b, v : a = tmp /\ v = Wanted /\ b = a \o Zeros(v)
    OBVIOUS
<1>2. /\ a \in Seq(Nat) /\ Len(a) \in Nat /\ frame.len \in Nat /\ wire' = wire /\ object' = object
      /\ wire \in Seq(Nat) /\ wpc \in {"head", "ext", "payload"} /\ v > 0
    BY <1>1 DEF WsTyped, WsEnd
<1>3. CASE wpc = "payload"
    BY <1>3 DEF WsTyped, WsEnd, Return
<1>4. CASE wpc = "head"
    <2>1. v = 2 - Len(a) /\ Len(a) <= 2
        BY <1>1, <1>4 DEF Wanted, WsTyped
    <2>2. v \in Nat /\ Len(a) + v = 2
        BY <1>2, <2>1
    <2>3. b \in Seq(Nat) /\ Len(b) = 2
        BY <1>1, <1>2, <2>2, FillZeros
    <2>4. AfterHead(b)
        BY <1>1, <1>4 DEF WsEnd
    <2> QED
        BY <1>2, <2>3, <2>4, TypedAfterHead
<1>5. CASE wpc = "ext"
    <2>1. v = ExtBytes(frame.len) - Len(a) /\ ExtBytes(frame.len) \in {0, 2, 8}
        BY <1>1, <1>2, <1>5, LengthTyped DEF Wanted
    <2>2. v \in Nat
        BY <1>2, <2>1
    <2>3. b \in Seq(Nat)
        BY <1>1, <1>2, <2>2, FillZeros
    <2>4. AfterExt(b)
        BY <1>1, <1>5 DEF WsEnd
    <2> QED
        BY <1>2, <1>5, <2>3, <2>4, TypedAfterExt
<1> QED
    BY <1>2, <1>3, <1>4, <1>5

(* Every step of the websocket keeps the types.                            *)
LEMMA WsTypedNext == WsInv /\ WsTyped /\ [WsNext]_wsVars => WsTyped'
<1> SUFFICES ASSUME WsInv, WsTyped, [WsNext]_wsVars PROVE WsTyped'
    OBVIOUS
<1>1. ASSUME NEW s \in Seq(Frames), NEW end, Connect(s, end) PROVE WsTyped'
    <2>1. wire' \in Seq(Nat) /\ wpc' = "shake"
        <3>1. WsInv' /\ wpc' = "shake"
            BY <1>1, WsInvConnect DEF Connect
        <3> QED
            BY <3>1 DEF WsInv, Handshake
    <2> QED
        BY <1>1, <2>1 DEF Connect, WsTyped
<1>2. ASSUME NEW n, Shake(n) PROVE WsTyped'
    <2>1. n \in 1 .. Len(wire) /\ wire' = SubSeq(wire, n + 1, Len(wire)) /\ wire \in Seq(Nat)
        BY <1>2 DEF Shake, WsTyped
    <2>2. wire' \in Seq(Nat)
        BY <2>1, TakeBytes
    <2>3. /\ wpc' \in {"shake", "idle"} /\ tmp' = tmp /\ frame' = frame /\ object' = object
        BY <1>2 DEF Shake
    <2> QED
        BY <2>2, <2>3 DEF WsTyped
<1>3. ASSUME NEW n, WsPiece(n) PROVE WsTyped'
    BY <1>3, TypedPiece
<1>4. CASE ShakeFails
    BY <1>4 DEF ShakeFails, WsTyped
<1>5. CASE WsReadCall
    <2>1. <<>> \in Seq(Nat) /\ Len(<<>>) = 0
        OBVIOUS
    <2> QED
        BY <1>5, <2>1 DEF WsReadCall, WsTyped, NoFrame
<1>6. CASE WsReturn
    BY <1>6 DEF WsReturn, Return, WsTyped
<1>7. CASE WsEnd
    BY <1>7, TypedEnd
<1>8. CASE WsBreaks
    BY <1>8 DEF WsBreaks, WsTyped
<1>9. CASE WsClose
    BY <1>9 DEF WsClose, WsTyped
<1>10. CASE WsUseClosed
    BY <1>10 DEF WsUseClosed, WsTyped
<1>11. ASSUME NEW n, WsWrite(n) PROVE WsTyped'
    BY <1>11 DEF WsWrite, WsTyped
<1>12. CASE UNCHANGED wsVars
    BY <1>12 DEF wsVars, WsTyped
<1>13. UNION {[1 .. n -> Frames] : n \in 1 .. MaxFrames} \subseteq Seq(Frames)
    BY WebSocketAssumption
<1> QED
    BY <1>1, <1>2, <1>3, <1>4, <1>5, <1>6, <1>7, <1>8, <1>9, <1>10, <1>11, <1>12, <1>13
    DEF WsNext

(* A decoder's state; in a chunk's data its buffer is short of the length. *)
DecoderTyped(st) ==
    st.len \in Nat /\ st.reading \in BOOLEAN /\ (~st.reading => Len(st.buf) < st.len)

(* A stream in order has delivered no more than the content.               *)
LEMMA StreamBounds ==
    ASSUME NEW te \in Encodings, NEW b \in Bodies, NEW cs, cs = b.chunks, NEW st, NEW x, NEW o, NEW g, NEW u,
           StreamOk(te, cs, st, x, o, g, u)
    PROVE  /\ DecoderTyped(st)
           /\ g \in Seq(Byte) /\ FlattenSeq(cs) \in Seq(Byte) /\ Len(g) <= Len(FlattenSeq(cs))
<1>1. g \in Seq(Byte) /\ u \in Seq(Byte) /\ o \in Seq(Byte)
    BY DEF StreamOk
<1>2. PICK c : c = FlattenSeq(cs)
    OBVIOUS
<1>3. c \in Seq(Byte)
    <2>1. cs \in Seq(Seq(Byte))
        BY BodyParts DEF IsBody
    <2> QED
        BY <1>2, <2>1, FlattenTyped
<1>5. st = NoChunk => DecoderTyped(st)
    BY DEF NoChunk, DecoderTyped
<1>6. CASE te = "none"
    <2>1. PICK p : p = Pending(x, o)
        OBVIOUS
    <2>2. p \in Seq(Byte) /\ (g \o p) \o u = c /\ st = NoChunk
        BY <1>2, <1>6, <2>1 DEF StreamOk, Pending
    <2>3. g \o p \in Seq(Byte) /\ Len(g \o p) = Len(g) + Len(p)
        BY <1>1, <2>2, ConcatBytes, ConcatLen
    <2>4. Len(c) = Len(g \o p) + Len(u)
        BY <1>1, <2>2, <2>3, ConcatLen
    <2>5. Len(g) \in Nat /\ Len(p) \in Nat /\ Len(u) \in Nat
        BY <1>1, <2>2
    <2>6. Len(g) <= Len(c)
        BY <2>3, <2>4, <2>5
    <2> QED
        BY <1>1, <1>2, <1>3, <1>5, <2>2, <2>6
<1>7. CASE te = "chunked"
    <2>1. Decoding(cs, st, u, g)
        BY <1>7 DEF StreamOk
    <2>2. PICK d \in Seq(Byte) : (g \o st.content) \o d = c
        BY <1>1, <1>2, <2>1, DecodingFront
    <2>3. st \in ChunkState /\ (~st.reading => Len(st.buf) < st.len)
        BY <1>1, <2>1, DecodingFront
    <2>4. PICK e \in Seq(Byte) : e = st.content
        BY <2>3 DEF ChunkState
    <2>5. g \o e \in Seq(Byte) /\ Len(g \o e) = Len(g) + Len(e) /\ Len(c) = Len(g \o e) + Len(d)
        BY <1>1, <2>2, <2>4, ConcatBytes, ConcatLen
    <2>6. Len(g) \in Nat /\ Len(e) \in Nat /\ Len(d) \in Nat
        BY <1>1, <2>2, <2>4
    <2>7. Len(g) <= Len(c)
        BY <2>5, <2>6
    <2>8. DecoderTyped(st)
        BY <2>3 DEF ChunkState, DecoderTyped
    <2> QED
        BY <1>1, <1>2, <1>3, <2>7, <2>8
<1>8. CASE te = "other"
    <2>1. st = NoChunk /\ Len(g) + Len(o) + Len(u) <= Len(c)
        BY <1>2, <1>8 DEF StreamOk
    <2>2. Len(g) \in Nat /\ Len(o) \in Nat /\ Len(u) \in Nat /\ Len(c) \in Nat
        BY <1>1, <1>3
    <2>3. Len(g) <= Len(c)
        BY <2>1, <2>2
    <2> QED
        BY <1>1, <1>2, <1>3, <1>5, <2>1, <2>3
<1> QED
    BY <1>6, <1>7, <1>8 DEF Encodings

(* The types of the client's variables: a file has been given no more than *)
(* what was delivered.                                                     *)
ClientTyped ==
    /\ cpc \in {"unused", "header", "idle", "reading", "error", "abort", "wild", "gone"}
    /\ freed \in BOOLEAN /\ closed \in BOOLEAN
    /\ DecoderTyped(chunk)
    /\ {"max", "total", "on"} \subseteq DOMAIN file
    /\ file.total \in Nat /\ Content \in Seq(Byte) /\ file.total <= Len(Content)
    /\ cpc \in {"unused", "header"} => file.total = 0
    /\ cpc \in {"idle", "reading"} => file.total <= Len(got)

(* While a stream is in use it has delivered no more than the content.     *)
LEMMA DeliveredBounds ==
    ASSUME DeliverInv, cpc \in {"idle", "reading"}
    PROVE  DecoderTyped(chunk) /\ got \in Seq(Byte) /\ Content \in Seq(Byte) /\ Len(got) <= Len(Content)
BY StreamBounds DEF DeliverInv, StreamPart, Content

(* The same after a step.                                                  *)
LEMMA DeliveredBoundsNext ==
    ASSUME DeliverInv', cpc' \in {"idle", "reading"}
    PROVE  /\ DecoderTyped(chunk') /\ got' \in Seq(Byte) /\ FlattenSeq(resp'.body.chunks) \in Seq(Byte)
           /\ Len(got') <= Len(FlattenSeq(resp'.body.chunks))
BY StreamBounds DEF DeliverInv, StreamPart

(* The step that begins.                                                   *)
LEMMA TypedRequest ==
    ASSUME ClientTyped, NEW h, NEW te, NEW b \in Bodies, NEW end, NEW ok, Request(h, te, b, end, ok)
    PROVE  ClientTyped'
<1>1. /\ cpc = "unused" /\ cpc' = "header" /\ resp'.body = b /\ file' = file /\ chunk' = chunk
      /\ freed' = freed /\ closed' = closed
    BY DEF Request
<1>2. b.chunks \in Seq(Seq(Byte))
    BY BodyParts DEF IsBody
<1>3. PICK c : c = FlattenSeq(b.chunks)
    OBVIOUS
<1>4. c \in Seq(Byte) /\ Len(c) \in Nat
    BY <1>2, <1>3, FlattenTyped
<1>5. Content' = c
    BY <1>1, <1>3 DEF Content
<1>6. file.total = 0 /\ 0 <= Len(c)
    BY <1>1, <1>4 DEF ClientTyped
<1> QED
    BY <1>1, <1>4, <1>5, <1>6 DEF ClientTyped

(* A read returns: what the file is given was delivered.                   *)
LEMMA TypedBodyEnd == ASSUME DeliverInv, DeliverInv', ClientTyped, BodyEnd PROVE ClientTyped'
<1>1. PICK ans, f, total : ans = Answer /\ f = file /\ total = file.total + Len(Answer)
    OBVIOUS
<1>2. /\ cpc = "reading" /\ resp' = resp /\ freed' = freed /\ closed' = closed
      /\ cpc' \in {"idle", "reading"} /\ got' = got \o ans
      /\ file' = NoFile \/ file' = [f EXCEPT !.total = total]
    BY <1>1 DEF BodyEnd
<1>3. ans \in Seq(Byte)
    <2>1. /\ resp.te \in {"none", "chunked", "other"}
          /\ StreamOk(resp.te, resp.body.chunks, chunk, NoBuffer, out, got, rest)
        BY <1>2 DEF DeliverInv, StreamPart, Encodings
    <2> QED
        BY <1>1, <2>1, StreamEnds DEF Answer
<1>4. got \in Seq(Byte) /\ Content' = Content /\ Content \in Seq(Byte)
    BY <1>2, DeliveredBounds DEF Content
<1>5. Len(got') = Len(got) + Len(ans) /\ Len(got) \in Nat /\ Len(ans) \in Nat
    BY <1>2, <1>3, <1>4, ConcatLen
<1>6. DecoderTyped(chunk') /\ Len(got') <= Len(Content')
    BY <1>2, DeliveredBoundsNext DEF Content
<1>7. PICK t, l : t = file.total /\ l = Len(Content)
    OBVIOUS
<1>8. t \in Nat /\ t <= Len(got) /\ {"max", "total", "on"} \subseteq DOMAIN f /\ l \in Nat
    BY <1>1, <1>2, <1>4, <1>7 DEF ClientTyped
<1>9. total \in Nat /\ total = t + Len(ans) /\ total <= Len(got')
    BY <1>1, <1>5, <1>7, <1>8
<1>10. total <= l
    BY <1>4, <1>5, <1>6, <1>7, <1>8, <1>9
<1>11. /\ {"max", "total", "on"} \subseteq DOMAIN file' /\ file'.total \in {0, total}
    <2>1. CASE file' = NoFile
        BY <2>1 DEF NoFile
    <2>2. CASE file' = [f EXCEPT !.total = total]
        BY <1>8, <2>2
    <2> QED
        BY <1>2, <2>1, <2>2
<1>12. file'.total \in Nat /\ file'.total <= Len(got') /\ file'.total <= l
    BY <1>5, <1>8, <1>9, <1>10, <1>11
<1> QED
    BY <1>2, <1>4, <1>6, <1>7, <1>11, <1>12 DEF ClientTyped

(* Every step of the client keeps the types.                               *)
LEMMA ClientTypedNext ==
    DeliverInv /\ DeliverInv' /\ ClientTyped /\ [ClientNext]_clientVars => ClientTyped'
<1> SUFFICES ASSUME DeliverInv, DeliverInv', ClientTyped, [ClientNext]_clientVars PROVE ClientTyped'
    OBVIOUS
<1>1. ASSUME NEW h \in Headers, NEW te \in {"none", "chunked", "other"}, NEW b \in Bodies,
             NEW end \in Ends, NEW ok \in BOOLEAN, Request(h, te, b, end, ok)
      PROVE  ClientTyped'
    BY <1>1, TypedRequest
<1>2. ASSUME NEW n, HeaderPiece(n) PROVE ClientTyped'
    <2>1. /\ cpc = "header" /\ cpc' \in {"header", "idle", "abort"} /\ resp' = resp /\ file' = file
          /\ freed' = freed /\ closed' = closed /\ got' = got /\ (cpc' = "idle" \/ chunk' = chunk)
        BY <1>2 DEF HeaderPiece
    <2>2. file.total = 0 /\ Content' = Content
        BY <2>1 DEF ClientTyped, Content
    <2>3. got = <<>> /\ 0 <= Len(<<>>)
        BY <2>1 DEF DeliverInv, HeaderPart
    <2>4. DecoderTyped(chunk')
        BY <2>1, DeliveredBoundsNext DEF ClientTyped
    <2> QED
        BY <2>1, <2>2, <2>3, <2>4 DEF ClientTyped
<1>3. CASE HeaderFails
    BY <1>3 DEF HeaderFails, ClientTyped, Content
<1>4. CASE ReadCall
    BY <1>4 DEF ReadCall, Begin, ClientTyped, Content
<1>5. ASSUME NEW max, FileCall(max) PROVE ClientTyped'
    <2>1. /\ cpc = "idle" /\ cpc' = "reading" /\ UNCHANGED <<resp, chunk, got, freed, closed>>
          /\ {"max", "total", "on"} \subseteq DOMAIN file' /\ file'.total = 0
        BY <1>5 DEF FileCall, Begin
    <2>2. got \in Seq(Byte) /\ Content \in Seq(Byte) /\ Content' = Content
        BY <2>1, DeliveredBounds DEF Content
    <2>3. 0 <= Len(got) /\ 0 <= Len(Content)
        BY <2>2
    <2> QED
        BY <2>1, <2>2, <2>3 DEF ClientTyped
<1>6. CASE StreamClose \/ StreamGc \/ ReadFreed
    <2>1. /\ UNCHANGED <<resp, chunk, got, file>> /\ cpc = "idle"
          /\ cpc' \in {"idle", "wild", "gone"} /\ freed' \in BOOLEAN /\ closed' \in BOOLEAN
        BY <1>6 DEF StreamClose, StreamGc, ReadFreed, FreeStream, ClientTyped
    <2>2. Content' = Content
        BY <2>1 DEF Content
    <2> QED
        BY <2>1, <2>2 DEF ClientTyped
<1>7. CASE BodyEnd
    BY <1>7, TypedBodyEnd
<1>8. CASE BodyBreaks
    <2>1. cpc = "reading" /\ cpc' \in {"reading", "wild"} /\ UNCHANGED <<chunk, got, file, freed, closed>>
        BY <1>8 DEF BodyBreaks
    <2>2. resp'.body = resp.body
        <3>1. resp' = resp \/ \E end \in Ends : resp' = [resp EXCEPT !.end = end]
            BY <1>8 DEF BodyBreaks
        <3>2. ASSUME NEW r, NEW end, NEW q, q = [r EXCEPT !.end = end] PROVE q.body = r.body
            BY <3>2
        <3>3. PICK r, q : r = resp /\ q = resp'
            OBVIOUS
        <3>4. q = r \/ \E end : q = [r EXCEPT !.end = end]
            BY <3>1, <3>3
        <3> QED
            BY <3>2, <3>3, <3>4
    <2>3. Content' = Content
        BY <2>2 DEF Content
    <2> QED
        BY <2>1, <2>3 DEF ClientTyped
<1>9. ASSUME NEW n, BodyPiece(n) PROVE ClientTyped'
    <2>1. cpc = "reading" /\ cpc' = cpc /\ UNCHANGED <<resp, got, file, freed, closed>>
        BY <1>9 DEF BodyPiece
    <2>2. DecoderTyped(chunk') /\ Content' = Content
        BY <2>1, DeliveredBoundsNext DEF Content
    <2> QED
        BY <2>1, <2>2 DEF ClientTyped
<1>10. CASE UNCHANGED clientVars
    BY <1>10 DEF clientVars, ClientTyped, Content
<1> QED
    BY <1>1, <1>2, <1>3, <1>4, <1>5, <1>6, <1>7, <1>8, <1>9, <1>10 DEF ClientNext, Network

(* The files of a parse form a sequence.                                   *)
IsFiles(s) == \E n \in Nat : DOMAIN s = 1 .. n

(* The parser's state: it has a file whenever it reads into one, so that   *)
(* the current file's pointer is never null.                               *)
ParseTyped(st) ==
    /\ {"status", "files"} \subseteq DOMAIN st
    /\ st.status \in {"ignore", "normal", "barrier", "fheader", "fbody", "wild", "abort"}
    /\ IsFiles(st.files)
    /\ st.status \in {"fheader", "fbody"} => DOMAIN st.files # {}

(* A file is added.                                                        *)
LEMMA FileAdded == ASSUME NEW s, IsFiles(s), NEW x PROVE IsFiles(Append(s, x)) /\ DOMAIN Append(s, x) # {}
<1>1. PICK n \in Nat : DOMAIN s = 1 .. n
    BY DEF IsFiles
<1>2. Len(s) = n
    BY <1>1
<1>3. PICK a : a = Append(s, x)
    OBVIOUS
<1>4. DOMAIN a = 1 .. n + 1
    BY <1>2, <1>3
<1>5. n + 1 \in Nat /\ n + 1 \in 1 .. n + 1
    OBVIOUS
<1> QED
    BY <1>3, <1>4, <1>5 DEF IsFiles

(* What a round does to the parser's state.                                *)
LEMMA WildTyped == ASSUME NEW st, ParseTyped(st) PROVE ParseTyped(WildParse(st))
<1>1. PICK q : q = WildParse(st)
    OBVIOUS
<1>2. {"status", "files"} \subseteq DOMAIN q /\ q.status = "wild" /\ q.files = st.files
    BY <1>1 DEF WildParse, ParseTyped
<1> QED
    BY <1>1, <1>2 DEF ParseTyped

(* The rest of a boundary line.                                            *)
LEMMA BarrierTyped == ASSUME NEW st, NEW buf, ParseTyped(st) PROVE ParseTyped(Barrier(st, buf).st)
<1>1. PICK q, a : a = Append(st.files, NewFile) /\ q = [st EXCEPT !.status = "fheader", !.files = a]
    OBVIOUS
<1>2. IsFiles(a) /\ DOMAIN a # {}
    BY <1>1, FileAdded DEF ParseTyped
<1>3. {"status", "files"} \subseteq DOMAIN q /\ q.status = "fheader" /\ q.files = a
    BY <1>1 DEF ParseTyped
<1>4. ParseTyped(q)
    BY <1>2, <1>3 DEF ParseTyped
<1>5. Barrier(st, buf).st \in {st, WildParse(st), q}
    BY <1>1 DEF Barrier, Parsed
<1> QED
    BY <1>4, <1>5, WildTyped

(* A byte of a file's header.                                              *)
LEMMA FileHeaderTyped ==
    ASSUME NEW st, NEW c, ParseTyped(st), st.status = "fheader"
    PROVE  ParseTyped(FileHeader(st, c))
<1>1. PICK q : q = FileHeader(st, c)
    OBVIOUS
<1>2. /\ {"status", "files"} \subseteq DOMAIN st /\ st.status = "fheader"
      /\ IsFiles(st.files) /\ DOMAIN st.files # {}
    BY DEF ParseTyped
<1>3. CASE c = ":"
    <2>1. q = [st EXCEPT !.old = st.current, !.keyed = TRUE, !.current = <<>>]
        BY <1>1, <1>3 DEF FileHeader
    <2>2. {"status", "files"} \subseteq DOMAIN q /\ q.status = "fheader" /\ q.files = st.files
        BY <1>2, <2>1
    <2> QED
        BY <1>1, <1>2, <2>2 DEF ParseTyped
<1>4. CASE c = "LF" /\ st.current = <<>>
    <2>1. q = [st EXCEPT !.status = "fbody", !.keyed = FALSE, !.old = <<>>]
        BY <1>1, <1>4 DEF FileHeader
    <2>2. {"status", "files"} \subseteq DOMAIN q /\ q.status = "fbody" /\ q.files = st.files
        BY <1>2, <2>1
    <2> QED
        BY <1>1, <1>2, <2>2 DEF ParseTyped
<1>5. CASE c = "LF" /\ st.current # <<>> /\ ~st.keyed
    <2>1. q = WildParse(st)
        BY <1>1, <1>5 DEF FileHeader
    <2> QED
        BY <1>1, <2>1, WildTyped
<1>6. CASE c = "LF" /\ st.current # <<>> /\ st.keyed
    <2>1. q = [st EXCEPT !.files[LastFile(st)].head =
                             Append(@, [key |-> st.old, value |-> st.current]),
                         !.keyed = FALSE, !.old = <<>>, !.current = <<>>]
        BY <1>1, <1>6 DEF FileHeader
    <2>2. {"status", "files"} \subseteq DOMAIN q /\ q.status = "fheader" /\ DOMAIN q.files = DOMAIN st.files
        BY <1>2, <2>1
    <2> QED
        BY <1>1, <1>2, <2>2 DEF ParseTyped, IsFiles
<1>7. CASE c = "CR" \/ (c = " " /\ st.current = <<>>)
    <2>1. q = st
        BY <1>1, <1>7 DEF FileHeader
    <2> QED
        BY <1>1, <2>1
<1>8. CASE c \notin {":", "LF", "CR"} /\ ~(c = " " /\ st.current = <<>>)
    <2>1. q = [st EXCEPT !.current = Append(@, c)]
        BY <1>1, <1>8 DEF FileHeader
    <2>2. {"status", "files"} \subseteq DOMAIN q /\ q.status = "fheader" /\ q.files = st.files
        BY <1>2, <2>1
    <2> QED
        BY <1>1, <1>2, <2>2 DEF ParseTyped
<1> QED
    BY <1>3, <1>4, <1>5, <1>6, <1>7, <1>8

(* A part of a file's content.                                             *)
LEMMA FileBodyTyped ==
    ASSUME NEW st, NEW buf, ParseTyped(st), st.status = "fbody"
    PROVE  ParseTyped(FileBody(st, buf).st)
<1>1. /\ {"status", "files"} \subseteq DOMAIN st /\ st.status = "fbody"
      /\ IsFiles(st.files) /\ DOMAIN st.files # {}
    BY DEF ParseTyped
<1>2. ASSUME NEW w PROVE ParseTyped([st EXCEPT !.current = w])
    <2>1. PICK q : q = [st EXCEPT !.current = w]
        OBVIOUS
    <2>2. {"status", "files"} \subseteq DOMAIN q /\ q.status = "fbody" /\ q.files = st.files
        BY <1>1, <2>1
    <2> QED
        BY <1>1, <2>1, <2>2 DEF ParseTyped
<1>3. ParseTyped([st EXCEPT !.status = "abort"])
    <2>1. PICK q : q = [st EXCEPT !.status = "abort"]
        OBVIOUS
    <2>2. {"status", "files"} \subseteq DOMAIN q /\ q.status = "abort" /\ q.files = st.files
        BY <1>1, <2>1
    <2> QED
        BY <1>1, <2>1, <2>2 DEF ParseTyped
<1>4. ASSUME NEW k
      PROVE  ParseTyped([st EXCEPT !.files[LastFile(st)].content = k, !.current = <<>>, !.status = "barrier"])
    <2>1. PICK q : q = [st EXCEPT !.files[LastFile(st)].content = k, !.current = <<>>, !.status = "barrier"]
        OBVIOUS
    <2>2. {"status", "files"} \subseteq DOMAIN q /\ q.status = "barrier" /\ DOMAIN q.files = DOMAIN st.files
        BY <1>1, <2>1
    <2> QED
        BY <1>1, <2>1, <2>2 DEF ParseTyped, IsFiles
<1>5. \/ FileBody(st, buf).st = WildParse(st)
      \/ FileBody(st, buf).st = [st EXCEPT !.status = "abort"]
      \/ \E w : FileBody(st, buf).st = [st EXCEPT !.current = w]
      \/ \E k : FileBody(st, buf).st = [st EXCEPT !.files[LastFile(st)].content = k,
                                                  !.current = <<>>, !.status = "barrier"]
    BY DEF FileBody, Parsed
<1> QED
    BY <1>2, <1>3, <1>4, <1>5, WildTyped

(* A round.                                                                *)
LEMMA ParseRoundTyped == ASSUME NEW p, ParseTyped(p.st) PROVE ParseTyped(ParseRound(p).st)
<1>1. CASE p.left = <<>> \/ p.st.status \notin {"barrier", "fheader", "fbody"}
    <2>1. ParseRound(p) = p
        BY <1>1 DEF ParseRound
    <2> QED
        BY <2>1
<1>2. CASE p.left # <<>> /\ p.st.status = "barrier"
    <2>1. ParseRound(p) = Barrier(p.st, p.left)
        BY <1>2 DEF ParseRound
    <2> QED
        BY <2>1, BarrierTyped
<1>3. CASE p.left # <<>> /\ p.st.status = "fheader"
    <2>1. ParseRound(p).st = FileHeader(p.st, Head(p.left))
        BY <1>3 DEF ParseRound, Parsed
    <2> QED
        BY <1>3, <2>1, FileHeaderTyped
<1>4. CASE p.left # <<>> /\ p.st.status = "fbody"
    <2>1. ParseRound(p) = FileBody(p.st, p.left)
        BY <1>4 DEF ParseRound
    <2> QED
        BY <1>4, <2>1, FileBodyTyped
<1> QED
    BY <1>1, <1>2, <1>3, <1>4

(* The states of the parser's loop: a function that starts with st0 and    *)
(* goes on by ParseRound.                                                  *)
IsParse(f, input, st0, n) ==
    /\ DOMAIN f = 0 .. n
    /\ f[0] = Parsed(st0, input)
    /\ \A m \in 1 .. n : f[m] = ParseRound(f[m - 1])

(* There is such a function, and the parser's result is its last state.    *)
LEMMA ParseExists ==
    ASSUME NEW input \in Seq(Byte), NEW st0
    PROVE  \E f : /\ IsParse(f, input, st0, Len(input))
                  /\ ParseForm(st0, input) = f[Len(input)].st
<1> DEFINE N == Len(input)
           Body(f) == [n \in 0 .. N |-> IF n = 0 THEN Parsed(st0, input)
                                        ELSE ParseRound(f[n - 1])]
           Bad == {n \in 0 .. N : ~ \E f : IsParse(f, input, st0, n)}
<1>1. N \in Nat
    OBVIOUS
<1>2. Bad = {}
    <2> SUFFICES ASSUME Bad # {} PROVE FALSE
        OBVIOUS
    <2>1. PICK m \in Bad : \A y \in Bad : m <= y
        <3>1. Bad \in SUBSET Nat
            <4> HIDE DEF N
            <4> QED
                BY <1>1
        <3> HIDE DEF Bad
        <3> QED
            BY <3>1, LeastOfNaturals
    <2> HIDE DEF N
    <2>2. m \in 0 .. N /\ m \in Nat /\ ~ \E f : IsParse(f, input, st0, m)
        BY <1>1
    <2>3. CASE m = 0
        <3> DEFINE f == [n \in 0 .. 0 |-> Parsed(st0, input)]
        <3>1. DOMAIN f = 0 .. 0 /\ f[0] = Parsed(st0, input) /\ 1 .. 0 = {}
            OBVIOUS
        <3> HIDE DEF f
        <3>2. IsParse(f, input, st0, 0)
            BY <3>1 DEF IsParse
        <3> QED
            BY <2>2, <2>3, <3>2
    <2>4. CASE m # 0
        <3>1. m - 1 \in 0 .. N /\ m - 1 \notin Bad
            <4> HIDE DEF Bad
            <4> QED
                BY <1>1, <2>1, <2>2, <2>4
        <3>2. PICK g : IsParse(g, input, st0, m - 1)
            BY <3>1
        <3> DEFINE f == [n \in 0 .. m |-> IF n = m THEN ParseRound(g[m - 1]) ELSE g[n]]
        <3>3. DOMAIN f = 0 .. m
            OBVIOUS
        <3>4. \A n \in 0 .. m : f[n] = IF n = m THEN ParseRound(g[m - 1]) ELSE g[n]
            OBVIOUS
        <3> HIDE DEF f, Bad
        <3>5. f[0] = g[0] /\ f[m] = ParseRound(f[m - 1])
            BY <2>2, <2>4, <3>4
        <3>6. ASSUME NEW n \in 1 .. m PROVE f[n] = ParseRound(f[n - 1])
            <4>1. CASE n = m
                BY <3>5, <4>1
            <4>2. CASE n # m
                <5>1. n \in 1 .. m - 1 /\ n \in 0 .. m /\ n - 1 \in 0 .. m /\ n - 1 # m
                    BY <2>2, <4>2
                <5>2. f[n] = g[n] /\ f[n - 1] = g[n - 1]
                    BY <3>4, <4>2, <5>1
                <5>3. g[n] = ParseRound(g[n - 1])
                    BY <3>2, <5>1 DEF IsParse
                <5> QED
                    BY <5>2, <5>3
            <4> QED
                BY <4>1, <4>2
        <3>7. IsParse(f, input, st0, m)
            BY <3>2, <3>3, <3>5, <3>6 DEF IsParse
        <3> QED
            BY <2>2, <3>7
    <2> QED
        BY <2>3, <2>4
<1>3. PICK g : IsParse(g, input, st0, N)
    <2>1. N \in 0 .. N /\ N \notin Bad
        <3> HIDE DEF N, Bad
        <3> QED
            BY <1>1, <1>2
    <2> QED
        BY <2>1
<1> HIDE DEF N
<1>4. \E f : f = Body(f)
    <2> DEFINE h == [n \in 0 .. N |-> g[n]]
    <2>1. h = Body(h)
        <3> SUFFICES ASSUME NEW n \in 0 .. N
                     PROVE  g[n] = IF n = 0 THEN Parsed(st0, input) ELSE ParseRound(h[n - 1])
            OBVIOUS
        <3>1. CASE n = 0
            BY <1>3, <3>1 DEF IsParse
        <3>2. CASE n # 0
            <4>1. n \in 1 .. N /\ n - 1 \in 0 .. N
                BY <1>1, <3>2
            <4>2. h[n - 1] = g[n - 1]
                BY <4>1
            <4> HIDE DEF h
            <4> QED
                BY <1>3, <3>2, <4>1, <4>2 DEF IsParse
        <3> QED
            BY <3>1, <3>2
    <2> HIDE DEF h, Body
    <2> QED
        BY <2>1
<1> DEFINE Round == CHOOSE f : f = Body(f)
<1>5. ParseForm(st0, input) = Round[N].st
    BY DEF ParseForm, N
<1>6. Round = Body(Round)
    <2> HIDE DEF Body
    <2> QED
        BY <1>4
<1> HIDE DEF Round
<1>7. IsParse(Round, input, st0, N)
    <2>1. DOMAIN Round = 0 .. N
        BY <1>6
    <2>2. \A n \in 0 .. N : Round[n] = IF n = 0 THEN Parsed(st0, input)
                                       ELSE ParseRound(Round[n - 1])
        BY <1>6
    <2>3. 0 \in 0 .. N /\ \A n \in 1 .. N : n \in 0 .. N /\ n # 0
        BY <1>1
    <2> HIDE DEF Body
    <2>4. Round[0] = Parsed(st0, input) /\ \A n \in 1 .. N : Round[n] = ParseRound(Round[n - 1])
        BY <2>2, <2>3
    <2> QED
        BY <2>1, <2>4 DEF IsParse
<1> QED
    BY <1>5, <1>7 DEF N

(* A parse, whatever the bytes and wherever it ends.                       *)
LEMMA ParseFormTyped ==
    ASSUME NEW input \in Seq(Byte), NEW st0, ParseTyped(st0)
    PROVE  ParseTyped(ParseForm(st0, input))
<1>1. PICK N \in Nat : N = Len(input)
    BY LenProperties
<1>2. PICK f : IsParse(f, input, st0, N) /\ ParseForm(st0, input) = f[N].st
    BY <1>1, ParseExists
<1> DEFINE S == {x \in {f[n] : n \in 0 .. N} : ParseTyped(x.st)}
<1>3. f[0] \in S
    <2>1. f[0] = Parsed(st0, input) /\ Parsed(st0, input).st = st0 /\ 0 \in 0 .. N
        BY <1>2 DEF IsParse, Parsed
    <2> QED
        BY <2>1
<1>4. \A m \in 1 .. N : f[m - 1] \in S => f[m] \in S
    <2> SUFFICES ASSUME NEW m \in 1 .. N, f[m - 1] \in S PROVE f[m] \in S
        OBVIOUS
    <2>1. f[m] = ParseRound(f[m - 1]) /\ ParseTyped(f[m - 1].st) /\ m \in 0 .. N
        BY <1>2 DEF IsParse
    <2>2. ParseTyped(f[m].st)
        BY <2>1, ParseRoundTyped
    <2> QED
        BY <2>1, <2>2
<1>5. f[N] \in S
    <2> HIDE DEF S
    <2>1. \A n \in 0 .. N : f[n] \in S
        BY <1>3, <1>4, StepsStay
    <2> QED
        BY <2>1
<1> QED
    BY <1>2, <1>5

(* A call of the parser, the first included.                               *)
LEMMA RollingTyped ==
    ASSUME NEW r, NEW st0, ParseTyped(st0), NEW buf \in Seq(Byte)
    PROVE  ParseTyped(rolling_file_parse(r, st0, buf))
<1>1. PICK st : st = IF st0.status = "ignore" THEN StartParse(r) ELSE st0
    OBVIOUS
<1>2. ParseTyped(st)
    <2>1. PICK q : q = StartParse(r)
        OBVIOUS
    <2>2. {"status", "files"} \subseteq DOMAIN q /\ q.status \in {"barrier", "normal"} /\ q.files = <<>>
        BY <2>1 DEF StartParse, NoParse
    <2>3. IsFiles(<<>>)
        <3>1. DOMAIN <<>> = 1 .. 0 /\ 0 \in Nat
            OBVIOUS
        <3> QED
            BY <3>1 DEF IsFiles
    <2>4. ParseTyped(q)
        BY <2>2, <2>3 DEF ParseTyped
    <2> QED
        BY <1>1, <2>1, <2>4
<1>3. CASE r.type = "none"
    <2>1. rolling_file_parse(r, st0, buf) = WildParse(st)
        BY <1>1, <1>3 DEF rolling_file_parse
    <2> QED
        BY <1>2, <2>1, WildTyped
<1>4. CASE r.type # "none" /\ st.status = "normal"
    <2>1. PICK q : q = [st EXCEPT !.body = @ \o buf]
        OBVIOUS
    <2>2. rolling_file_parse(r, st0, buf) = q
        BY <1>1, <1>4, <2>1 DEF rolling_file_parse
    <2>3. {"status", "files"} \subseteq DOMAIN q /\ q.status = "normal" /\ q.files = st.files
        BY <1>2, <1>4, <2>1 DEF ParseTyped
    <2> QED
        BY <1>2, <2>2, <2>3 DEF ParseTyped
<1>5. CASE r.type # "none" /\ st.status # "normal"
    <2>1. rolling_file_parse(r, st0, buf) = ParseForm(st, buf)
        BY <1>1, <1>5 DEF rolling_file_parse
    <2> QED
        BY <1>2, <2>1, ParseFormTyped
<1> QED
    BY <1>3, <1>4, <1>5

(* The types of the server's variables.                                    *)
RequestTyped ==
    /\ rpc \in {"unused", "header", "large", "closed", "route"}
    /\ ParseTyped(fp)

(* A read of the header, whose rest goes to the parser.                    *)
LEMMA TypedRecv == ASSUME RequestTyped, ReqInv, NEW n, RecvHeader(n) PROVE RequestTyped'
<1>1. PICK a, r, b, v : a = rbuf /\ r = inp /\ b = SubSeq(inp, 1, n) /\ v = inp'
    OBVIOUS
<1>2. rpc = "header" /\ n \in 1 .. Len(r) /\ v = SubSeq(r, n + 1, Len(r)) /\ rbuf' = a \o b
    BY <1>1 DEF RecvHeader, From
<1>3. /\ a \in Seq(Byte) /\ r \in Seq(Byte)
      /\ \A i \in 1 .. Len(a) - 3 : ~EndAt(a, i)
      /\ \A i \in 1 .. 4 : i <= Len(a \o r) - 3 => ~EndAt(a \o r, i)
    BY <1>1, <1>2 DEF ReqInv
<1>4. n \in 0 .. Len(r)
    BY <1>2, <1>3
<1>5. b \in Seq(Byte) /\ v \in Seq(Byte) /\ r = b \o v
    BY <1>1, <1>2, <1>3, <1>4, SplitAt, SMTT(20)
<1>6. PICK c : c = a \o b
    OBVIOUS
<1>7. c \in Seq(Byte) /\ c = rbuf' /\ c \o v = a \o r
    <2>1. c \in Seq(Byte) /\ Assoc(a, b, v)
        BY <1>3, <1>5, <1>6, ConcatBytes, ConcatAssoc
    <2> QED
        BY <1>2, <1>5, <1>6, <2>1 DEF Assoc
<1>8. PICK e, u : e = memmem(c, Len(a) - LookBack(Len(a)) + 1, CRLF \o CRLF) /\ u = From(c, e + 4)
    OBVIOUS
<1>9. CASE e = 0
    <2>1. rpc' \in {"header", "large"} /\ fp' = fp
        BY <1>1, <1>2, <1>7, <1>8, <1>9 DEF RecvHeader
    <2> QED
        BY <2>1 DEF RequestTyped
<1>10. CASE e # 0
    <2>1. /\ rpc' = "route"
          /\ fp' = IF reqst.type = "none" THEN fp ELSE rolling_file_parse(reqst, fp, u)
        BY <1>1, <1>2, <1>7, <1>8, <1>10 DEF RecvHeader
    <2>2. e \in Nat /\ e \in 1 .. Len(c) - 3
        <3>1. \A i \in 1 .. 4 : i <= Len((a \o b) \o v) - 3 => ~EndAt((a \o b) \o v, i)
            BY <1>3, <1>6, <1>7
        <3>2. e = memmem(a \o b, Len(a) - LookBack(Len(a)) + 1, CRLF \o CRLF)
            BY <1>6, <1>8
        <3>3. e \in Nat /\ e \in 1 .. Len(a \o b) - 3
            BY <1>3, <1>5, <1>10, <3>1, <3>2, FirstRequestEnd
        <3> QED
            BY <1>6, <3>3
    <2>3. u \in Seq(Byte)
        <3>1. e + 3 \in 0 .. Len(c) /\ e + 4 = (e + 3) + 1
            BY <1>7, <2>2
        <3>2. SubSeq(c, (e + 3) + 1, Len(c)) \in Seq(Byte)
            BY <1>7, <3>1, SplitAt
        <3> QED
            BY <1>8, <3>1, <3>2 DEF From
    <2>4. ParseTyped(fp')
        BY <2>1, <2>3, RollingTyped DEF RequestTyped
    <2> QED
        BY <2>1, <2>4 DEF RequestTyped
<1> QED
    BY <1>9, <1>10

(* Every step of the server keeps the types.                               *)
LEMMA RequestTypedNext ==
    CollectInv /\ ReqInv /\ RequestTyped /\ [RequestNext]_requestVars => RequestTyped'
<1> SUFFICES ASSUME CollectInv, ReqInv, RequestTyped, [RequestNext]_requestVars PROVE RequestTyped'
    OBVIOUS
<1>1. ASSUME NEW h \in RequestHeaders, NEW r \in Requests, Accept(h, r) PROVE RequestTyped'
    BY <1>1 DEF Accept, RequestTyped
<1>2. CASE RecvEnds
    BY <1>2 DEF RecvEnds, RequestTyped
<1>3. ASSUME NEW n, RecvHeader(n) PROVE RequestTyped'
    BY <1>3, TypedRecv
<1>4. ASSUME NEW n, RollPiece(n) PROVE RequestTyped'
    <2>1. /\ rpc = "route" /\ rpc' = rpc /\ n \in 1 .. Len(inp)
          /\ fp' = rolling_file_parse(reqst, fp, SubSeq(inp, 1, n)) /\ inp \in Seq(Byte)
        BY <1>4 DEF RollPiece, CollectInv
    <2>2. n \in 0 .. Len(inp)
        BY <2>1
    <2>3. SubSeq(inp, 1, n) \in Seq(Byte)
        BY <2>1, <2>2, SplitAt
    <2> QED
        BY <2>1, <2>3, RollingTyped DEF RequestTyped
<1>5. CASE UNCHANGED requestVars
    BY <1>5 DEF requestVars, RequestTyped
<1> QED
    BY <1>1, <1>2, <1>3, <1>4, <1>5 DEF RequestNext

(* The types hold at first.                                                *)
LEMMA TypedInit == Init => ClientTyped /\ WsTyped /\ RequestTyped
<1> SUFFICES ASSUME Init PROVE ClientTyped /\ WsTyped /\ RequestTyped
    OBVIOUS
<1>1. ClientTyped
    <2>1. resp.body.chunks = <<>> /\ FlattenSeq(<<>>) = <<>>
        BY DEF Init, ClientInit, NoBody, FlattenSeq
    <2>2. Content = <<>> /\ <<>> \in Seq(Byte) /\ Len(<<>>) = 0
        BY <2>1 DEF Content
    <2>3. {"max", "total", "on"} \subseteq DOMAIN file /\ file.total = 0
        BY DEF Init, ClientInit, NoFile
    <2>4. DecoderTyped(chunk)
        BY <2>2 DEF Init, ClientInit, NoChunk, DecoderTyped
    <2>5. cpc = "unused" /\ freed \in BOOLEAN /\ closed \in BOOLEAN
        BY DEF Init, ClientInit
    <2>6. file.total \in Nat /\ file.total <= Len(Content)
        BY <2>2, <2>3
    <2> QED
        BY <2>2, <2>3, <2>4, <2>5, <2>6 DEF ClientTyped
<1>2. WsTyped
    <2>1. <<>> \in Seq(Nat) /\ Len(<<>>) = 0
        OBVIOUS
    <2> QED
        BY <2>1 DEF Init, WsInit, NoFrame, WsTyped
<1>3. RequestTyped
    <2>1. {"status", "files"} \subseteq DOMAIN fp /\ fp.status = "ignore" /\ fp.files = <<>>
        BY DEF Init, RequestInit, NoParse
    <2>2. DOMAIN <<>> = 1 .. 0 /\ 0 \in Nat
        OBVIOUS
    <2> QED
        BY <2>1, <2>2 DEF Init, RequestInit, RequestTyped, ParseTyped, IsFiles
<1> QED
    BY <1>1, <1>2, <1>3

(* The buffers of the three readers stay within what was asked for: a      *)
(* decoder that reads a chunk holds less than the chunk, a frame no more   *)
(* than its length, a file no more than the content, and the parser of a   *)
(* form has a file whenever it reads into one, for every header, body,     *)
(* frame and form and every split.                                         *)
THEOREM ConnectionsTyped == Spec => []TypeOK
<1> DEFINE Inv == /\ WsInv /\ WsTyped
                  /\ HeadInv /\ DeliverInv /\ ClientTyped
                  /\ ReqInv /\ CollectInv /\ RequestTyped
<1>1. Init => Inv
    <2>1. Init => WsInv
        BY WsInvInit DEF Init
    <2>2. Init => HeadInv /\ DeliverInv /\ ReqInv /\ CollectInv
        BY DEF Init, ClientInit, HeadInv, DeliverInv, HeaderPart, StreamPart,
               RequestInit, ReqInv, CollectInv
    <2> QED
        BY <2>1, <2>2, TypedInit
<1>2. Inv /\ [Next]_allVars => Inv'
    <2> SUFFICES ASSUME Inv, [Next]_allVars PROVE Inv'
        OBVIOUS
    <2>1. [ClientNext]_clientVars /\ [WsNext]_wsVars /\ [RequestNext]_requestVars
        BY StepsOfParts
    <2>2. WsInv' /\ WsTyped'
        BY <2>1, WsInvNext, WsTypedNext
    <2>3. HeadInv' /\ DeliverInv'
        BY <2>1, HeadInvNext, DeliverNext
    <2>4. ClientTyped'
        BY <2>1, <2>3, ClientTypedNext
    <2>5. ReqInv' /\ CollectInv' /\ RequestTyped'
        BY <2>1, ReqInvNext, CollectNext, RequestTypedNext
    <2> QED
        BY <2>2, <2>3, <2>4, <2>5
<1>3. Inv => TypeOK
    <2> SUFFICES ASSUME Inv PROVE TypeOK
        OBVIOUS
    <2>1. ClientTypeOK
        BY DEF ClientTyped, DecoderTyped, ClientTypeOK
    <2>2. WsTypeOK
        BY DEF WsTyped, WsTypeOK
    <2>3. RequestTypeOK
        <3>1. DOMAIN <<>> = {}
            OBVIOUS
        <3> QED
            BY <3>1 DEF RequestTyped, ParseTyped, RequestTypeOK
    <2> QED
        BY <2>1, <2>2, <2>3 DEF TypeOK
<1> QED
    BY <1>1, <1>2, <1>3, PTL DEF Spec, allVars

(* What memmem looks for, when it looks for one byte.                      *)
LEMMA ByteSearch ==
    ASSUME NEW s \in Seq(Byte), NEW from \in Nat, from # 0, NEW c \in Byte
    PROVE  memmem(s, from, <<c>>) =
             LET at == {i \in from .. Len(s) : s[i] = c}
             IN IF at = {} THEN 0 ELSE CHOOSE i \in at : \A j \in at : i <= j
<1>1. PICK pat, k, n : pat = <<c>> /\ k = Len(pat) /\ n = Len(s)
    OBVIOUS
<1>2. k = 1 /\ n \in Nat
    BY <1>1
<1> DEFINE u == {i \in from .. n + 1 - k : SubSeq(s, i, i + k - 1) = pat}
           at == {i \in from .. n : s[i] = c}
<1>3. memmem(s, from, pat) = IF u = {} THEN 0 ELSE CHOOSE i \in u : \A j \in u : i <= j
    BY <1>1 DEF memmem
<1>4. u = at
    <2>1. n + 1 - k = n /\ \A i \in from .. n : i + k - 1 = i
        BY <1>2
    <2>2. ASSUME NEW i \in from .. n PROVE SubSeq(s, i, i) = pat <=> s[i] = c
        <3>1. i \in 1 .. Len(s)
            BY <1>1, <1>2
        <3>2. SubSeq(s, i, i) = <<s[i]>>
            BY <3>1, OneByte
        <3>3. <<s[i]>> = <<c>> <=> s[i] = c
            OBVIOUS
        <3> QED
            BY <1>1, <3>2, <3>3
    <2> QED
        BY <2>1, <2>2
<1> QED
    BY <1>1, <1>3, <1>4

(* It finds the first one.                                                 *)
LEMMA FindsByte ==
    ASSUME NEW s \in Seq(Byte), NEW from \in Nat, from # 0, NEW c \in Byte,
           NEW e \in from .. Len(s), s[e] = c, \A i \in from .. e - 1 : s[i] # c
    PROVE  memmem(s, from, <<c>>) = e
<1> DEFINE at == {i \in from .. Len(s) : s[i] = c}
<1>1. e \in at /\ e \in Nat
    OBVIOUS
<1>2. ASSUME NEW j \in at PROVE e <= j
    <2>1. j \in from .. Len(s) /\ s[j] = c
        OBVIOUS
    <2>2. ~(j \in from .. e - 1)
        BY <2>1
    <2> QED
        BY <1>1, <2>1, <2>2
<1>3. memmem(s, from, <<c>>) = IF at = {} THEN 0 ELSE CHOOSE i \in at : \A j \in at : i <= j
    BY ByteSearch, ZenonT(30)
<1>4. \A i \in at : (\A j \in at : i <= j) => i = e
    <2> SUFFICES ASSUME NEW i \in at, \A j \in at : i <= j PROVE i = e
        OBVIOUS
    <2>1. i <= e /\ e <= i /\ i \in Nat
        <3>1. i <= e
            BY <1>1
        <3>2. e <= i
            BY <1>2
        <3> QED
            BY <3>1, <3>2
    <2> QED
        BY <1>1, <2>1
<1> HIDE DEF at
<1> QED
    BY <1>1, <1>2, <1>3, <1>4

(* It finds none where there is none, and only there.                      *)
LEMMA FindsNone ==
    ASSUME NEW s \in Seq(Byte), NEW c \in Byte
    PROVE  memmem(s, 1, <<c>>) = 0 <=> \A i \in 1 .. Len(s) : s[i] # c
<1> DEFINE at == {i \in 1 .. Len(s) : s[i] = c}
<1>0. 1 \in Nat /\ 1 # 0
    OBVIOUS
<1>1. memmem(s, 1, <<c>>) = IF at = {} THEN 0 ELSE CHOOSE i \in at : \A j \in at : i <= j
    BY <1>0, ByteSearch, ZenonT(30)
<1>2. CASE at = {}
    <2>1. \A i \in 1 .. Len(s) : s[i] # c
        BY <1>2
    <2> HIDE DEF at
    <2> QED
        BY <1>1, <1>2, <2>1
<1>3. CASE at # {}
    <2>1. at \in SUBSET Nat /\ 0 \notin at
        OBVIOUS
    <2>2. ~ \A i \in 1 .. Len(s) : s[i] # c
        BY <1>3
    <2> HIDE DEF at
    <2>3. \E x \in at : \A y \in at : x <= y
        BY <1>3, <2>1, LeastOfNaturals
    <2>4. (CHOOSE i \in at : \A j \in at : i <= j) \in at
        BY <2>3
    <2> QED
        BY <1>1, <1>3, <2>1, <2>2, <2>4
<1> QED
    BY <1>2, <1>3

(* The last of a byte.                                                     *)
LEMMA FindsLast ==
    ASSUME NEW s \in Seq(Byte), NEW c, NEW e \in 1 .. Len(s), s[e] = c,
           \A i \in e + 1 .. Len(s) : s[i] # c
    PROVE  LastOf(s, c) = e
<1> DEFINE at == {i \in 1 .. Len(s) : s[i] = c}
<1>1. e \in at /\ e \in Nat /\ DOMAIN s = 1 .. Len(s)
    OBVIOUS
<1>2. ASSUME NEW j \in at PROVE e >= j
    <2>1. j \in 1 .. Len(s) /\ s[j] = c
        OBVIOUS
    <2>2. ~(j \in e + 1 .. Len(s))
        BY <2>1
    <2> QED
        BY <1>1, <2>1, <2>2
<1>3. LastOf(s, c) = IF at = {} THEN 0 ELSE CHOOSE i \in at : \A j \in at : i >= j
    BY <1>1 DEF LastOf
<1>4. \A i \in at : (\A j \in at : i >= j) => i = e
    <2> SUFFICES ASSUME NEW i \in at, \A j \in at : i >= j PROVE i = e
        OBVIOUS
    <2>1. i >= e
        BY <1>1
    <2>2. e >= i /\ i \in Nat
        BY <1>2
    <2> QED
        BY <1>1, <2>1, <2>2
<1> HIDE DEF at
<1> QED
    BY <1>1, <1>2, <1>3, <1>4

(* No byte of s is c.                                                      *)
Without(s, c) == \A i \in 1 .. Len(s) : s[i] # c

(* Parts of sequences without a byte have none either.                     *)
LEMMA WithoutParts ==
    ASSUME NEW a \in Seq(Byte), NEW b \in Seq(Byte), NEW c
    PROVE  Without(a \o b, c) <=> Without(a, c) /\ Without(b, c)
<1>1. PICK s, n, m : s = a \o b /\ n = Len(a) /\ m = Len(b)
    OBVIOUS
<1>2. n \in Nat /\ m \in Nat /\ Len(s) = n + m
    BY <1>1, ConcatLen
<1>3. \A i \in 1 .. n + m : s[i] = IF i <= n THEN a[i] ELSE b[i - n]
    BY <1>1, ConcatProperties
<1>4. ASSUME Without(s, c) PROVE Without(a, c) /\ Without(b, c)
    <2>1. ASSUME NEW i \in 1 .. n PROVE a[i] # c
        <3>1. i \in 1 .. n + m /\ i <= n
            BY <1>2
        <3> QED
            BY <1>2, <1>3, <1>4, <3>1 DEF Without
    <2>2. ASSUME NEW i \in 1 .. m PROVE b[i] # c
        <3>1. n + i \in 1 .. n + m /\ ~(n + i <= n) /\ (n + i) - n = i
            BY <1>2
        <3> QED
            BY <1>2, <1>3, <1>4, <3>1 DEF Without
    <2> QED
        BY <1>1, <2>1, <2>2 DEF Without
<1>5. ASSUME Without(a, c), Without(b, c) PROVE Without(s, c)
    <2> SUFFICES ASSUME NEW i \in 1 .. n + m PROVE s[i] # c
        BY <1>2 DEF Without
    <2>1. CASE i <= n
        <3>1. i \in 1 .. n
            BY <1>2, <2>1
        <3> QED
            BY <1>1, <1>3, <1>5, <2>1, <3>1 DEF Without
    <2>2. CASE ~(i <= n)
        <3>1. i - n \in 1 .. m
            BY <1>2, <2>2
        <3> QED
            BY <1>1, <1>3, <1>5, <2>2, <3>1 DEF Without
    <2> QED
        BY <2>1, <2>2
<1> QED
    BY <1>1, <1>4, <1>5

(* The first c at or after from is at e.                                   *)
FoundAt(s, from, c, e) == memmem(s, from, <<c>>) = e

(* The first c after p is behind x.                                        *)
LEMMA FirstAfter ==
    ASSUME NEW p \in Seq(Byte), NEW x \in Seq(Byte), NEW z \in Seq(Byte), NEW c \in Byte, Without(x, c),
           NEW s, s = p \o (x \o Cons(c, z))
    PROVE  FoundAt(s, Len(p) + 1, c, Len(p) + Len(x) + 1)
<1>0. PICK y, t : y = Cons(c, z) /\ t = x \o y
    OBVIOUS
<1>1. y = <<c>> \o z /\ t = x \o y /\ s = p \o t
    BY <1>0 DEF Cons
<1>2. y \in Seq(Byte) /\ Len(y) = 1 + Len(z) /\ y[1] = c
    <2>1. <<c>> \in Seq(Byte) /\ Len(<<c>>) = 1 /\ <<c>>[1] = c
        OBVIOUS
    <2>2. y \in Seq(Byte) /\ Len(y) = Len(<<c>>) + Len(z)
        BY <1>1, <2>1, ConcatBytes, ConcatLen
    <2>3. y[1] = c
        <3>1. 1 \in 1 .. Len(<<c>>) + Len(z) /\ 1 <= Len(<<c>>)
            BY <2>1
        <3>2. \A i \in 1 .. Len(<<c>>) + Len(z) : y[i] = IF i <= Len(<<c>>) THEN <<c>>[i] ELSE z[i - Len(<<c>>)]
            BY <1>1, <2>1, ConcatProperties
        <3> QED
            BY <2>1, <3>1, <3>2
    <2> QED
        BY <2>1, <2>2, <2>3
<1>3. PICK k, n, m : k = Len(p) /\ n = Len(x) /\ m = Len(y)
    OBVIOUS
<1>4. k \in Nat /\ n \in Nat /\ m \in Nat /\ m >= 1
    BY <1>2, <1>3
<1>5. t \in Seq(Byte) /\ Len(t) = n + m /\ \A i \in 1 .. n + m : t[i] = IF i <= n THEN x[i] ELSE y[i - n]
    BY <1>1, <1>2, <1>3, ConcatProperties
<1>6. /\ s \in Seq(Byte) /\ Len(s) = k + (n + m)
      /\ \A i \in 1 .. k + (n + m) : s[i] = IF i <= k THEN p[i] ELSE t[i - k]
    BY <1>1, <1>3, <1>5, ConcatProperties, SMTT(20)
<1>7. PICK e : e = k + n + 1
    OBVIOUS
<1>8. e \in k + 1 .. Len(s) /\ s[e] = c
    <2>1. e \in 1 .. k + (n + m) /\ ~(e <= k) /\ e - k = n + 1 /\ n + 1 \in 1 .. n + m
          /\ ~(n + 1 <= n) /\ (n + 1) - n = 1
        BY <1>4, <1>7
    <2>2. s[e] = t[n + 1] /\ t[n + 1] = y[1]
        BY <1>5, <1>6, <2>1
    <2> QED
        BY <1>2, <1>4, <1>6, <1>7, <2>1, <2>2
<1>9. ASSUME NEW i \in k + 1 .. e - 1 PROVE s[i] # c
    <2>1. i \in 1 .. k + (n + m) /\ ~(i <= k) /\ i - k \in 1 .. n + m /\ i - k <= n /\ i - k \in 1 .. n
        BY <1>4, <1>7
    <2>2. s[i] = x[i - k]
        BY <1>5, <1>6, <2>1
    <2> QED
        BY <1>3, <2>1, <2>2 DEF Without
<1>10. memmem(s, k + 1, <<c>>) = e
    <2>1. k + 1 \in Nat /\ k + 1 # 0
        BY <1>4
    <2> QED
        BY <1>6, <1>8, <1>9, <2>1, FindsByte, ZenonT(30)
<1> QED
    BY <1>3, <1>7, <1>10 DEF FoundAt

(* A sequence that is put together from x and z.                           *)
IsConcat(s, x, z) ==
    /\ s \in Seq(Byte) /\ Len(s) = Len(x) + Len(z) /\ Len(x) \in Nat /\ Len(z) \in Nat
    /\ \A i \in 1 .. Len(x) : s[i] = x[i]
    /\ \A i \in 1 .. Len(z) : s[Len(x) + i] = z[i]

(* Concatenation puts together.                                            *)
LEMMA ConcatIs == ASSUME NEW x \in Seq(Byte), NEW z \in Seq(Byte) PROVE IsConcat(x \o z, x, z)
<1>1. PICK s, n, m : s = x \o z /\ n = Len(x) /\ m = Len(z)
    OBVIOUS
<1>2. n \in Nat /\ m \in Nat /\ s \in Seq(Byte) /\ Len(s) = n + m
    BY <1>1, ConcatLen, ConcatBytes
<1>3. \A i \in 1 .. n + m : s[i] = IF i <= n THEN x[i] ELSE z[i - n]
    BY <1>1, ConcatProperties
<1>4. ASSUME NEW i \in 1 .. n PROVE s[i] = x[i]
    <2>1. i \in 1 .. n + m /\ i <= n
        BY <1>2
    <2> QED
        BY <1>3, <2>1
<1>5. ASSUME NEW i \in 1 .. m PROVE s[n + i] = z[i]
    <2>1. n + i \in 1 .. n + m /\ ~(n + i <= n) /\ (n + i) - n = i
        BY <1>2
    <2> QED
        BY <1>3, <2>1
<1> QED
    BY <1>1, <1>2, <1>4, <1>5 DEF IsConcat

(* Equal sequences with first parts of the same length have equal parts.   *)
LEMMA SameParts ==
    ASSUME NEW a \in Seq(Byte), NEW b \in Seq(Byte), NEW x \in Seq(Byte), NEW z \in Seq(Byte),
           a \o b = x \o z, Len(a) = Len(x)
    PROVE  a = x /\ b = z
<1>1. PICK s, n, m, k : s = a \o b /\ n = Len(a) /\ m = Len(b) /\ k = Len(z)
    OBVIOUS
<1>2. IsConcat(s, a, b) /\ IsConcat(s, x, z)
    BY <1>1, ConcatIs
<1>3. n \in Nat /\ m \in Nat /\ k \in Nat /\ Len(x) = n /\ Len(s) = n + m /\ Len(s) = n + k
    BY <1>1, <1>2 DEF IsConcat
<1>4. m = k
    BY <1>3
<1>5. \A i \in 1 .. n : a[i] = x[i]
    BY <1>1, <1>2, <1>3 DEF IsConcat
<1>6. \A i \in 1 .. m : b[i] = z[i]
    BY <1>1, <1>2, <1>3, <1>4 DEF IsConcat
<1>7. a = x
    BY <1>1, <1>3, <1>5, SeqEqual
<1>8. b = z
    BY <1>1, <1>4, <1>6, SeqEqual
<1> QED
    BY <1>7, <1>8

(* The same bytes, taken apart at two places, the first not before the     *)
(* second.                                                                 *)
Apart(a, r, x, z) == a \o r = x \o z /\ Len(r) <= Len(z)
Covered(a, r, x, z) == \E y \in Seq(Byte) : a = x \o y /\ z = y \o r

(* A part that ends in z, or later, holds all that is before z.            *)
LEMMA Covers ==
    ASSUME NEW a \in Seq(Byte), NEW r \in Seq(Byte), NEW x \in Seq(Byte), NEW z \in Seq(Byte),
           Apart(a, r, x, z)
    PROVE  Covered(a, r, x, z)
<1>0. a \o r = x \o z /\ Len(r) <= Len(z)
    BY DEF Apart
<1>1. PICK n \in Nat, m \in Nat, k \in Nat, l \in Nat : n = Len(a) /\ m = Len(r) /\ k = Len(x) /\ l = Len(z)
    OBVIOUS
<1>2. n + m = k + l
    BY <1>0, <1>1, ConcatLen
<1>3. k \in 0 .. Len(a)
    BY <1>0, <1>1, <1>2
<1>4. PICK b, y : b = SubSeq(a, 1, k) /\ y = SubSeq(a, k + 1, Len(a))
    OBVIOUS
<1>5. b \in Seq(Byte) /\ Len(b) = k /\ y \in Seq(Byte) /\ a = b \o y
    BY <1>3, <1>4, SplitAt
<1>6. Assoc(b, y, r) /\ y \o r \in Seq(Byte)
    BY <1>5, ConcatAssoc, ConcatBytes
<1>7. b \o (y \o r) = x \o z
    BY <1>0, <1>5, <1>6 DEF Assoc
<1>8. b = x /\ y \o r = z
    BY <1>1, <1>5, <1>6, <1>7, SameParts
<1> QED
    BY <1>5, <1>8 DEF Covered

(* The two parts of a sequence.                                            *)
LEMMA PartsOf ==
    ASSUME NEW x \in Seq(Byte), NEW z \in Seq(Byte)
    PROVE  SubSeq(x \o z, 1, Len(x)) = x /\ From(x \o z, Len(x) + 1) = z
<1>1. PICK s, n : s = x \o z /\ n = Len(x)
    OBVIOUS
<1>2. s \in Seq(Byte) /\ n \in Nat /\ Len(s) = n + Len(z) /\ Len(z) \in Nat
    BY <1>1, ConcatLen, ConcatBytes
<1>3. n \in 0 .. Len(s)
    BY <1>2
<1>4. PICK a, b : a = SubSeq(s, 1, n) /\ b = SubSeq(s, n + 1, Len(s))
    OBVIOUS
<1>5. a \in Seq(Byte) /\ b \in Seq(Byte) /\ Len(a) = n /\ s = a \o b
    BY <1>2, <1>3, <1>4, SplitAt
<1>6. a = x /\ b = z
    BY <1>1, <1>5, SameParts
<1> QED
    BY <1>1, <1>4, <1>6 DEF From

(* A sequence with bytes has a first one.                                  *)
LEMMA FirstByte ==
    ASSUME NEW x \in Seq(Byte), x # <<>>
    PROVE  \E c \in Byte, y \in Seq(Byte) : x = Cons(c, y)
<1>1. Len(x) \in Nat /\ Len(x) # 0
    BY EmptySeq
<1>2. 1 \in 0 .. Len(x) /\ 1 \in 1 .. Len(x) /\ 1 + 1 = 2
    BY <1>1
<1>3. x = SubSeq(x, 1, 1) \o SubSeq(x, 1 + 1, Len(x)) /\ SubSeq(x, 1 + 1, Len(x)) \in Seq(Byte)
    BY <1>2, SplitAt
<1>4. SubSeq(x, 1, 1) = <<x[1]>> /\ x[1] \in Byte
    BY <1>2, OneByte
<1> QED
    BY <1>3, <1>4 DEF Cons

(* A sequence of byte c and then y.                                        *)
IsCons(s, c, y) ==
    /\ s \in Seq(Byte) /\ Head(s) = c /\ Tail(s) = y
    /\ s # <<>> /\ s[1] = c /\ Len(s) = Len(y) + 1 /\ Len(y) \in Nat

(* The first byte of a sequence, and the others.                           *)
LEMMA HeadAndTail == ASSUME NEW c \in Byte, NEW y \in Seq(Byte) PROVE IsCons(Cons(c, y), c, y)
<1>1. PICK e, s : e = <<c>> /\ s = e \o y
    OBVIOUS
<1>2. e \in Seq(Byte) /\ Len(e) = 1 /\ e[1] = c
    BY <1>1, ByteLists
<1>3. IsConcat(s, e, y)
    BY <1>1, <1>2, ConcatIs
<1>4. s \in Seq(Byte) /\ Len(s) = 1 + Len(y) /\ Len(y) \in Nat /\ s[1] = c
    <2>1. 1 \in 1 .. 1
        OBVIOUS
    <2> QED
        BY <1>2, <1>3, <2>1 DEF IsConcat
<1>5. s # <<>>
    BY <1>4, EmptySeq
<1>6. Head(s) = c
    BY <1>4
<1>7. Tail(s) = y
    <2>1. Tail(s) = SubSeq(s, 1 + 1, Len(s))
        <3>1. SubSeq(s, 2, Len(s)) = Tail(s)
            BY <1>4, <1>5, TailIsSubSeq
        <3> QED
            BY <3>1
    <2>2. From(s, 1 + 1) = y
        BY <1>1, <1>2, PartsOf
    <2> QED
        BY <2>1, <2>2 DEF From
<1> QED
    BY <1>1, <1>4, <1>5, <1>6, <1>7 DEF Cons, IsCons

(* It is a sequence of bytes.                                              *)
LEMMA ConsBytes == \A c \in Byte, y \in Seq(Byte) : Cons(c, y) \in Seq(Byte)
BY HeadAndTail DEF IsCons

(* What follows a sequence follows its other bytes.                        *)
LEMMA ConsConcat ==
    ASSUME NEW c \in Byte, NEW x \in Seq(Byte), NEW z \in Seq(Byte)
    PROVE  Cons(c, x) \o z = Cons(c, x \o z) /\ Cons(c, x \o z) \in Seq(Byte)
<1>1. PICK e \in Seq(Byte) : e = <<c>>
    BY ByteLists
<1>2. Assoc(e, x, z) /\ x \o z \in Seq(Byte)
    BY ConcatAssoc, ConcatBytes
<1>3. Cons(c, x \o z) \in Seq(Byte)
    BY <1>2, ConsBytes
<1> QED
    BY <1>1, <1>2, <1>3 DEF Assoc, Cons

(* The bytes that forms are made of.                                       *)
LEMMA FormBytesTyped ==
    /\ <<"-">> \in Seq(Byte) /\ <<":">> \in Seq(Byte) /\ <<" ">> \in Seq(Byte)
    /\ <<"CR">> \in Seq(Byte) /\ <<"LF">> \in Seq(Byte) /\ <<>> \in Seq(Byte)
    /\ Dashes = <<"-">> \o <<"-">> /\ <<":", " ">> = <<":">> \o <<" ">> /\ CRLF = <<"CR">> \o <<"LF">>
<1>1. PICK d \in Byte, c \in Byte, s \in Byte : d = "-" /\ c = ":" /\ s = " "
    BY ByteNames
<1>2. <<d>> \in Seq(Byte) /\ <<c>> \in Seq(Byte) /\ <<s>> \in Seq(Byte)
    BY ByteLists
<1>3. <<d, d>> = <<d>> \o <<d>> /\ <<c, s>> = <<c>> \o <<s>>
    BY TwoInLine
<1>4. <<>> \in Seq(Byte)
    OBVIOUS
<1> QED
    BY <1>1, <1>2, <1>3, <1>4, ByteLists DEF Dashes

(* The end of a line, the beginning of a boundary line and a header line,  *)
(* each with what follows.                                                 *)
LineEnd(z) == Cons("CR", Cons("LF", z))
Bound(z) == Cons("-", Cons("-", Boundary \o z))
Header(h, z) == h.key \o Cons(":", Cons(" ", h.value \o LineEnd(z)))

(* They are what the client sends.                                         *)
LEMMA LineEndIs ==
    ASSUME NEW z \in Seq(Byte)
    PROVE  LineEnd(z) = CRLF \o z /\ LineEnd(z) \in Seq(Byte) /\ Len(LineEnd(z)) = Len(z) + 2
<1>1. PICK a \in Seq(Byte), b \in Seq(Byte) : a = <<"CR">> /\ b = <<"LF">>
    BY FormBytesTyped
<1>2. Assoc(a, b, z) /\ CRLF = a \o b
    BY <1>1, ConcatAssoc, FormBytesTyped
<1>3. CRLF \o z = a \o (b \o z)
    BY <1>2 DEF Assoc
<1>4. CRLF \o z \in Seq(Byte) /\ Len(CRLF \o z) = 2 + Len(z) /\ Len(z) \in Nat
    BY LineEndBytes, ConcatBytes, ConcatLen
<1> QED
    BY <1>1, <1>3, <1>4 DEF LineEnd, Cons

(* The boundary is a sequence of bytes without line ends and dashes.       *)
LEMMA BoundaryTyped ==
    /\ Boundary \in Seq(Byte) /\ Len(Boundary) \in Nat /\ Len(Boundary) # 0
    /\ \A i \in 1 .. Len(Boundary) : Boundary[i] \notin {"CR", "LF", "-"}
<1>1. Boundary \in Seq(Byte \ {"CR", "LF", "-"}) /\ Boundary # <<>>
    BY RequestAssumption
<1>2. PICK n \in Nat : n = Len(Boundary)
    BY <1>1
<1>3. \A i \in 1 .. n : Boundary[i] \in Byte \ {"CR", "LF", "-"}
    BY <1>1, <1>2
<1>4. Boundary = [i \in 1 .. n |-> Boundary[i]]
    BY <1>1, <1>2
<1>5. \A i \in 1 .. n : Boundary[i] \in Byte
    BY <1>3
<1>6. Boundary \in Seq(Byte)
    BY <1>4, <1>5
<1>7. n # 0
    BY <1>1, <1>2, <1>6, EmptySeq
<1> QED
    BY <1>2, <1>3, <1>6, <1>7

(* So it is for a boundary.                                                *)
LEMMA BoundIs ==
    ASSUME NEW z \in Seq(Byte)
    PROVE  /\ Bound(z) = (Dashes \o Boundary) \o z /\ Bound(z) \in Seq(Byte)
           /\ Len(Bound(z)) = Len(z) + 2 + Len(Boundary)
           /\ Dashes \o Boundary \in Seq(Byte) /\ Len(Dashes \o Boundary) = 2 + Len(Boundary)
<1>1. PICK a \in Seq(Byte), b \in Seq(Byte) : a = <<"-">> /\ b = Boundary
    BY FormBytesTyped, BoundaryTyped
<1>2. PICK d, e, x, y : d = a \o a /\ e = d \o b /\ x = b \o z /\ y = a \o x
    OBVIOUS
<1>3. d \in Seq(Byte) /\ e \in Seq(Byte) /\ x \in Seq(Byte) /\ y \in Seq(Byte)
    BY <1>2, ConcatBytes
<1>4. Assoc(d, b, z) /\ Assoc(a, a, x)
    BY <1>3, ConcatAssoc
<1>5. e \o z = a \o y
    BY <1>2, <1>4 DEF Assoc
<1>6. Len(a) = 1 /\ Len(b) \in Nat
    BY <1>1
<1>7. /\ Len(d) = Len(a) + Len(a) /\ Len(e) = Len(d) + Len(b)
      /\ Len(e \o z) = Len(e) + Len(z) /\ Len(z) \in Nat /\ e \o z \in Seq(Byte)
    BY <1>2, <1>3, ConcatLen, ConcatBytes
<1>8. Len(e) = 2 + Len(b) /\ Len(e \o z) = Len(z) + 2 + Len(b)
    BY <1>6, <1>7
<1>9. d = Dashes
    BY <1>1, <1>2, FormBytesTyped
<1> QED
    BY <1>1, <1>2, <1>3, <1>5, <1>7, <1>8, <1>9 DEF Bound, Cons

(* And for a header line.                                                  *)
LEMMA HeaderIs ==
    ASSUME NEW h \in Line, NEW z \in Seq(Byte)
    PROVE  Header(h, z) = HeadLine(h) \o z /\ Header(h, z) \in Seq(Byte) /\ HeadLine(h) \in Seq(Byte)
<1>1. PICK k \in Seq(Byte), v \in Seq(Byte) : k = h.key /\ v = h.value
    BY DEF Line
<1>2. PICK a \in Seq(Byte), b \in Seq(Byte), e \in Seq(Byte) : a = <<":">> /\ b = <<" ">> /\ e = CRLF
    BY FormBytesTyped, LineEndBytes
<1>3. PICK ab, kab, kabv, line : ab = a \o b /\ kab = k \o ab /\ kabv = kab \o v /\ line = kabv \o e
    OBVIOUS
<1>4. PICK x, vx, bvx, avx : x = e \o z /\ vx = v \o x /\ bvx = b \o vx /\ avx = a \o bvx
    OBVIOUS
<1>5. ab \in Seq(Byte) /\ kab \in Seq(Byte) /\ kabv \in Seq(Byte) /\ line \in Seq(Byte)
    BY <1>3, ConcatBytes
<1>6. x \in Seq(Byte) /\ vx \in Seq(Byte) /\ bvx \in Seq(Byte) /\ avx \in Seq(Byte)
    BY <1>4, ConcatBytes
<1>7. line = HeadLine(h)
    BY <1>1, <1>2, <1>3, FormBytesTyped DEF HeadLine
<1>8. Assoc(kabv, e, z) /\ Assoc(kab, v, x) /\ Assoc(k, ab, vx) /\ Assoc(a, b, vx)
    BY <1>5, <1>6, ConcatAssoc
<1>9. line \o z = k \o avx
    BY <1>3, <1>4, <1>8 DEF Assoc
<1>10. Header(h, z) = k \o avx
    BY <1>1, <1>2, <1>4, LineEndIs DEF Header, Cons
<1> QED
    BY <1>5, <1>6, <1>7, <1>9, <1>10, ConcatBytes

(* What is left of a part after each of its header lines, when z follows   *)
(* the header.                                                             *)
IsHeads(w, h, z) ==
    /\ w \in [0 .. Len(h) -> Seq(Byte)]
    /\ w[Len(h)] = LineEnd(z)
    /\ \A j \in 1 .. Len(h) : w[j - 1] = Header(h[j], w[j])

(* Every part has such bytes.                                              *)
LEMMA HeadsExist ==
    ASSUME NEW h \in Seq(Line), NEW z \in Seq(Byte)
    PROVE  \E w : /\ IsHeads(w, h, z)
                  /\ w[0] = FlattenSeq([i \in DOMAIN h |-> HeadLine(h[i])]) \o (CRLF \o z)
<1>1. DOMAIN h = 1 .. Len(h) /\ Len(h) \in Nat /\ \A i \in 1 .. Len(h) : h[i] \in Line
    OBVIOUS
<1>2. PICK ls : ls = [i \in DOMAIN h |-> HeadLine(h[i])]
    OBVIOUS
<1>3. ASSUME NEW i \in 1 .. Len(h) PROVE HeadLine(h[i]) \in Seq(Byte)
    BY <1>1, EmptyBytes, HeaderIs
<1>4. ls \in Seq(Seq(Byte)) /\ Len(ls) = Len(h) /\ \A i \in 1 .. Len(h) : ls[i] = HeadLine(h[i])
    BY <1>1, <1>2, <1>3
<1>5. PICK v : IsLeft(v, ls, Byte)
    BY <1>4, FlattenSuffixes
<1>6. PICK y : y = LineEnd(z)
    OBVIOUS
<1>7. y \in Seq(Byte) /\ y = CRLF \o z
    BY <1>6, LineEndIs
<1>8. v \in [0 .. Len(h) -> Seq(Byte)] /\ v[0] = FlattenSeq(ls) /\ v[Len(h)] = <<>>
    BY <1>4, <1>5 DEF IsLeft
<1> DEFINE w == [j \in 0 .. Len(h) |-> v[j] \o y]
<1>9. w \in [0 .. Len(h) -> Seq(Byte)]
    <2>1. \A j \in 0 .. Len(h) : v[j] \o y \in Seq(Byte)
        BY <1>7, <1>8, ConcatBytes
    <2> QED
        BY <2>1
<1>10. w[Len(h)] = y
    <2>1. w[Len(h)] = v[Len(h)] \o y
        BY <1>1
    <2> QED
        BY <1>7, <1>8, <2>1, EmptyBytes
<1>11. w[0] = FlattenSeq(ls) \o (CRLF \o z)
    <2>1. w[0] = v[0] \o y
        BY <1>1
    <2> QED
        BY <1>7, <1>8, <2>1
<1>12. ASSUME NEW j \in 1 .. Len(h) PROVE w[j - 1] = Header(h[j], w[j])
    <2>1. j \in 0 .. Len(h) /\ j - 1 \in 0 .. Len(h)
        BY <1>1
    <2>2. w[j] = v[j] \o y /\ w[j - 1] = v[j - 1] \o y
        BY <2>1
    <2> HIDE DEF w
    <2>3. v[j - 1] = HeadLine(h[j]) \o v[j]
        BY <1>4, <1>5 DEF IsLeft
    <2>4. PICK l \in Seq(Byte), d \in Seq(Byte) : l = HeadLine(h[j]) /\ d = v[j]
        BY <1>3, <1>8, <2>1
    <2>5. Assoc(l, d, y) /\ d \o y \in Seq(Byte)
        BY <1>7, ConcatAssoc, ConcatBytes
    <2>6. Header(h[j], d \o y) = l \o (d \o y)
        BY <1>1, <2>4, <2>5, HeaderIs
    <2> QED
        BY <2>2, <2>3, <2>4, <2>5, <2>6 DEF Assoc
<1> HIDE DEF w
<1>13. IsHeads(w, h, z)
    BY <1>6, <1>9, <1>10, <1>12 DEF IsHeads
<1> QED
    BY <1>2, <1>11, <1>13

(* A part and what follows it.                                             *)
LEMMA PartIs ==
    ASSUME NEW p \in Part, NEW z \in Seq(Byte)
    PROVE  /\ WirePart(p, Boundary) \in Seq(Byte)
           /\ \E w : /\ IsHeads(w, p.head, p.content \o LineEnd(z))
                     /\ WirePart(p, Boundary) \o z = Bound(LineEnd(w[0]))
<1>1. p.head \in Seq(Line) /\ p.content \in Seq(Byte)
    BY DEF Part
<1>2. PICK c \in Seq(Byte), e \in Seq(Byte), a \in Seq(Byte) : c = p.content /\ e = CRLF /\ a = Dashes \o Boundary
    BY <1>1, LineEndBytes, EmptyBytes, BoundIs
<1>3. PICK y, x : y = e \o z /\ x = c \o y
    OBVIOUS
<1>4. y \in Seq(Byte) /\ x \in Seq(Byte) /\ LineEnd(z) = y
    BY <1>2, <1>3, ConcatBytes, LineEndIs
<1>5. PICK w : /\ IsHeads(w, p.head, x)
               /\ w[0] = FlattenSeq([i \in DOMAIN p.head |-> HeadLine(p.head[i])]) \o (CRLF \o x)
    BY <1>1, <1>4, HeadsExist
<1>6. PICK f : f = FlattenSeq([i \in DOMAIN p.head |-> HeadLine(p.head[i])])
    OBVIOUS
<1>7. f \in Seq(Byte)
    <2>1. \A i \in 1 .. Len(p.head) : p.head[i] \in Line
        BY <1>1
    <2>2. \A i \in 1 .. Len(p.head) : HeadLine(p.head[i]) \in Seq(Byte)
        BY <2>1, EmptyBytes, HeaderIs
    <2>3. DOMAIN p.head = 1 .. Len(p.head) /\ Len(p.head) \in Nat
        BY <1>1
    <2>4. [i \in DOMAIN p.head |-> HeadLine(p.head[i])] \in Seq(Seq(Byte))
        BY <2>2, <2>3
    <2> QED
        BY <1>6, <2>4, FlattenTyped
<1>8. PICK u, ae, aef, aefe, aefec, part :
         u = e \o x /\ ae = a \o e /\ aef = ae \o f /\ aefe = aef \o e /\ aefec = aefe \o c /\ part = aefec \o e
    OBVIOUS
<1>9. /\ u \in Seq(Byte) /\ ae \in Seq(Byte) /\ aef \in Seq(Byte) /\ aefe \in Seq(Byte)
      /\ aefec \in Seq(Byte) /\ part \in Seq(Byte)
    BY <1>4, <1>7, <1>8, ConcatBytes
<1>10. part = WirePart(p, Boundary)
    BY <1>2, <1>6, <1>8 DEF WirePart
<1>11. PICK v : v = f \o u
    OBVIOUS
<1>12. v \in Seq(Byte) /\ w[0] = v
    BY <1>2, <1>5, <1>6, <1>7, <1>8, <1>9, <1>11, ConcatBytes
<1>13. /\ Assoc(aefec, e, z) /\ Assoc(aefe, c, y) /\ Assoc(aef, e, x) /\ Assoc(ae, f, u) /\ Assoc(a, e, v)
    BY <1>4, <1>7, <1>9, <1>12, ConcatAssoc
<1>14. part \o z = aefec \o y
    BY <1>3, <1>8, <1>13 DEF Assoc
<1>15. aefec \o y = aefe \o x
    BY <1>3, <1>8, <1>13 DEF Assoc
<1>16. aefe \o x = aef \o u
    BY <1>8, <1>13 DEF Assoc
<1>17. aef \o u = ae \o v
    BY <1>8, <1>11, <1>13 DEF Assoc
<1>18. ae \o v = a \o (e \o v)
    BY <1>8, <1>13 DEF Assoc
<1>19. LineEnd(v) = e \o v /\ LineEnd(v) \in Seq(Byte)
    BY <1>2, <1>12, LineEndIs
<1>20. Bound(LineEnd(v)) = a \o (e \o v)
    BY <1>2, <1>19, BoundIs
<1>21. part \o z = Bound(LineEnd(w[0]))
    BY <1>12, <1>14, <1>15, <1>16, <1>17, <1>18, <1>20
<1>22. IsHeads(w, p.head, p.content \o LineEnd(z))
    BY <1>2, <1>3, <1>4, <1>5
<1> QED
    BY <1>9, <1>10, <1>21, <1>22

(* The bytes of the parts ps of a form: from part k + 1 on, P[k], and      *)
(* after each header line of part k, G[k].                                 *)
LastLine == Bound(Cons("-", Cons("-", LineEnd(<<>>))))
IsForm(P, G, ps) ==
    /\ ps \in Seq(Part)
    /\ P \in [0 .. Len(ps) -> Seq(Byte)]
    /\ P[Len(ps)] = LastLine
    /\ \A k \in 1 .. Len(ps) : /\ IsHeads(G[k], ps[k].head, ps[k].content \o LineEnd(P[k]))
                               /\ P[k - 1] = Bound(LineEnd(G[k][0]))

(* The last line of a form.                                                *)
LEMMA LastLineIs ==
    /\ LastLine = ((Dashes \o Boundary) \o Dashes) \o CRLF
    /\ LastLine \in Seq(Byte)
<1>1. PICK d \in Seq(Byte), x \in Seq(Byte), e \in Seq(Byte), a \in Seq(Byte) :
         d = <<"-">> /\ x = <<>> /\ e = CRLF /\ a = Dashes \o Boundary
    BY FormBytesTyped, LineEndBytes, BoundIs
<1>2. PICK dd, y, z, ad : dd = d \o d /\ y = d \o e /\ z = d \o y /\ ad = a \o dd
    OBVIOUS
<1>3. dd \in Seq(Byte) /\ y \in Seq(Byte) /\ z \in Seq(Byte) /\ ad \in Seq(Byte) /\ ad \o e \in Seq(Byte)
    BY <1>2, ConcatBytes
<1>4. LineEnd(<<>>) = e
    BY <1>1, LineEndBytes, LineEndIs, EmptyBytes
<1>5. LastLine = a \o z
    BY <1>1, <1>2, <1>3, <1>4, BoundIs DEF LastLine, Cons
<1>6. Assoc(a, dd, e) /\ Assoc(d, d, e)
    BY <1>3, ConcatAssoc
<1>7. ad \o e = a \o z
    BY <1>2, <1>6 DEF Assoc
<1>8. dd = Dashes
    BY <1>1, <1>2, FormBytesTyped
<1> QED
    BY <1>1, <1>2, <1>3, <1>5, <1>7, <1>8

(* Every form has such bytes.                                              *)
LEMMA FormExists ==
    ASSUME NEW ps \in Forms
    PROVE  \E P, G : IsForm(P, G, ps) /\ P[0] = WireForm(ps, Boundary)
<1>1. ps \in Seq(Part)
    BY RequestAssumption
<1>2. DOMAIN ps = 1 .. Len(ps) /\ Len(ps) \in Nat /\ \A k \in 1 .. Len(ps) : ps[k] \in Part
    BY <1>1
<1>3. PICK ls : ls = [k \in DOMAIN ps |-> WirePart(ps[k], Boundary)]
    OBVIOUS
<1>4. ASSUME NEW k \in 1 .. Len(ps) PROVE WirePart(ps[k], Boundary) \in Seq(Byte)
    BY <1>2, EmptyBytes, PartIs
<1>5. ls \in Seq(Seq(Byte)) /\ Len(ls) = Len(ps) /\ \A k \in 1 .. Len(ps) : ls[k] = WirePart(ps[k], Boundary)
    BY <1>2, <1>3, <1>4
<1>6. PICK v : IsLeft(v, ls, Byte)
    BY <1>5, FlattenSuffixes
<1>7. PICK y \in Seq(Byte) : y = LastLine
    BY LastLineIs
<1>8. v \in [0 .. Len(ps) -> Seq(Byte)] /\ v[0] = FlattenSeq(ls) /\ v[Len(ps)] = <<>>
    BY <1>5, <1>6 DEF IsLeft
<1> DEFINE P == [k \in 0 .. Len(ps) |-> v[k] \o y]
           Good(k, w) == /\ IsHeads(w, ps[k].head, ps[k].content \o LineEnd(P[k]))
                         /\ P[k - 1] = Bound(LineEnd(w[0]))
           G == [k \in 1 .. Len(ps) |-> CHOOSE w : Good(k, w)]
<1>9. P \in [0 .. Len(ps) -> Seq(Byte)]
    <2>1. \A j \in 0 .. Len(ps) : v[j] \o y \in Seq(Byte)
        BY <1>8, ConcatBytes
    <2> QED
        BY <2>1
<1>10. P[Len(ps)] = y
    <2>1. P[Len(ps)] = v[Len(ps)] \o y
        BY <1>2
    <2> QED
        BY <1>8, <2>1, EmptyBytes
<1>11. P[0] = WireForm(ps, Boundary)
    <2>1. P[0] = v[0] \o y
        BY <1>2
    <2>2. PICK f \in Seq(Byte), d \in Seq(Byte), b \in Seq(Byte), e \in Seq(Byte) :
            f = v[0] /\ d = Dashes /\ b = Boundary /\ e = CRLF
        <3>1. 0 \in 0 .. Len(ps)
            BY <1>2
        <3>2. Dashes \in Seq(Byte)
            BY FormBytesTyped, ConcatBytes
        <3> QED
            BY <1>8, <3>1, <3>2, BoundaryTyped, LineEndBytes
    <2>3. PICK db, dbd, fd, fdb : db = d \o b /\ dbd = db \o d /\ fd = f \o d /\ fdb = fd \o b
        OBVIOUS
    <2>4. db \in Seq(Byte) /\ dbd \in Seq(Byte) /\ fd \in Seq(Byte) /\ fdb \in Seq(Byte)
        BY <2>3, ConcatBytes
    <2>5. Assoc(f, d, b) /\ Assoc(f, db, d) /\ Assoc(f, dbd, e)
        BY <2>4, ConcatAssoc
    <2>6. y = dbd \o e
        BY <1>7, <2>2, <2>3, LastLineIs
    <2>7. fdb = f \o db
        BY <2>3, <2>5 DEF Assoc
    <2>8. fdb \o d = f \o dbd
        BY <2>3, <2>5, <2>7 DEF Assoc
    <2>9. (fdb \o d) \o e = f \o y
        BY <2>5, <2>6, <2>8 DEF Assoc
    <2>10. WireForm(ps, Boundary) = (fdb \o d) \o e
        BY <1>3, <1>8, <2>2, <2>3 DEF WireForm
    <2> HIDE DEF P
    <2> QED
        BY <2>1, <2>2, <2>9, <2>10
<1>12. ASSUME NEW k \in 1 .. Len(ps) PROVE Good(k, G[k])
    <2>1. k \in 0 .. Len(ps) /\ k - 1 \in 0 .. Len(ps)
        BY <1>2
    <2>2. P[k] = v[k] \o y /\ P[k - 1] = v[k - 1] \o y
        BY <2>1
    <2> HIDE DEF P
    <2>3. v[k - 1] = WirePart(ps[k], Boundary) \o v[k]
        BY <1>5, <1>6 DEF IsLeft
    <2>4. PICK l \in Seq(Byte), d \in Seq(Byte), z \in Seq(Byte) :
            l = WirePart(ps[k], Boundary) /\ d = v[k] /\ z = P[k]
        BY <1>4, <1>8, <1>9, <2>1
    <2>5. Assoc(l, d, y)
        BY ConcatAssoc
    <2>6. P[k - 1] = l \o z
        BY <2>2, <2>3, <2>4, <2>5 DEF Assoc
    <2>7. \E w : Good(k, w)
        BY <1>2, <2>4, <2>6, PartIs, ZenonT(30)
    <2>8. G[k] = CHOOSE w : Good(k, w)
        OBVIOUS
    <2> HIDE DEF G, Good
    <2> QED
        BY <2>7, <2>8
<1> HIDE DEF P, G
<1>13. IsForm(P, G, ps)
    BY <1>1, <1>7, <1>9, <1>10, <1>12 DEF IsForm
<1> QED
    BY <1>11, <1>13

(* The first bytes of equal sequences, and the others.                     *)
LEMMA SameFirst ==
    ASSUME NEW c \in Byte, NEW d \in Byte, NEW v \in Seq(Byte), NEW w \in Seq(Byte),
           Cons(c, v) = Cons(d, w)
    PROVE  c = d /\ v = w
<1>1. PICK s : s = Cons(c, v)
    OBVIOUS
<1>2. IsCons(s, c, v) /\ IsCons(s, d, w)
    BY <1>1, HeadAndTail
<1> QED
    BY <1>2 DEF IsCons

(* Byte c is the first of y, or y is empty and it is the first of z; v is  *)
(* what follows.                                                           *)
StartsIn(c, v, y, z) ==
    \/ y = <<>> /\ Cons(c, v) = z
    \/ \E x \in Seq(Byte) : y = Cons(c, x) /\ v = x \o z

(* So it is for the first byte of y and z.                                 *)
LEMMA FirstIn ==
    ASSUME NEW c \in Byte, NEW v \in Seq(Byte), NEW y \in Seq(Byte), NEW z \in Seq(Byte),
           Cons(c, v) = y \o z
    PROVE  StartsIn(c, v, y, z)
<1>1. CASE y = <<>>
    BY <1>1, EmptyBytes DEF StartsIn
<1>2. CASE y # <<>>
    <2>1. PICK d \in Byte, x \in Seq(Byte) : y = Cons(d, x)
        BY <1>2, FirstByte
    <2>2. PICK w \in Seq(Byte) : w = x \o z
        BY ConcatBytes
    <2>3. Cons(c, v) = Cons(d, w)
        BY <2>1, <2>2, ConsConcat
    <2>4. c = d /\ v = w
        BY <2>3, SameFirst
    <2> QED
        BY <2>1, <2>2, <2>4 DEF StartsIn
<1> QED
    BY <1>1, <1>2

(* The next byte of s, of which a is done, is taken.                       *)
LEMMA TakeNext ==
    ASSUME NEW a \in Seq(Byte), NEW c \in Byte, NEW y \in Seq(Byte)
    PROVE  /\ Append(a, c) \in Seq(Byte) /\ Append(a, c) \o y = a \o Cons(c, y)
           /\ Append(a, c) # <<>>
<1>1. PICK e \in Seq(Byte) : e = <<c>>
    BY ByteLists
<1>2. Append(a, c) = a \o e
    BY <1>1, AppendIsConcat
<1>3. Assoc(a, e, y) /\ a \o e \in Seq(Byte) /\ Len(a \o e) = Len(a) + Len(e) /\ Len(a) \in Nat /\ Len(e) = 1
    BY <1>1, ConcatAssoc, ConcatBytes, ConcatLen
<1>4. a \o e # <<>>
    <2>1. Len(a \o e) # 0
        BY <1>3
    <2> QED
        BY <2>1, EmptySeq
<1> QED
    BY <1>1, <1>2, <1>3, <1>4 DEF Assoc, Cons

(* A byte of a key or value is no colon and no line end, nor a blank at    *)
(* the beginning.                                                          *)
LEMMA ClearByte ==
    ASSUME NEW a \in Seq(Byte), NEW c \in Byte, NEW y \in Seq(Byte), Clear(a \o Cons(c, y))
    PROVE  c \notin {":", "CR", "LF"} /\ (a = <<>> => c # " ")
<1>1. PICK s, x : x = Cons(c, y) /\ s = a \o x
    OBVIOUS
<1>2. x \in Seq(Byte) /\ Len(x) = Len(y) + 1 /\ Len(y) \in Nat /\ x # <<>>
    BY <1>1, HeadAndTail DEF IsCons
<1>3. x[1] = c
    BY <1>1, HeadAndTail DEF IsCons
<1>4. PICK n : n = Len(a)
    OBVIOUS
<1>5. IsConcat(s, a, x)
    BY <1>1, <1>2, ConcatIs
<1>6. 1 \in 1 .. Len(x) /\ n \in Nat /\ Len(s) = n + Len(x) /\ s \in Seq(Byte)
    BY <1>2, <1>4, <1>5 DEF IsConcat
<1>7. s[n + 1] = c /\ n + 1 \in 1 .. Len(s)
    BY <1>2, <1>3, <1>4, <1>5, <1>6 DEF IsConcat
<1>8. Clear(s) /\ DOMAIN s = 1 .. Len(s)
    BY <1>1, <1>6
<1>9. s[n + 1] \notin {":", "CR", "LF"}
    BY <1>7, <1>8 DEF Clear
<1>10. ASSUME a = <<>> PROVE c # " "
    <2>1. n = 0 /\ s # <<>>
        BY <1>4, <1>6, <1>7, <1>10, EmptySeq
    <2>2. s[1] # " "
        BY <1>8, <2>1 DEF Clear
    <2>3. n + 1 = 1
        BY <2>1
    <2> QED
        BY <1>7, <2>2, <2>3
<1> QED
    BY <1>7, <1>9, <1>10

(* The parser of a form.                                                   *)
Parser(st) ==
    /\ {"status", "current", "old", "keyed", "boundary", "files"} \subseteq DOMAIN st
    /\ st.boundary = Boundary /\ st.current \in Seq(Byte)

(* The parser is in header line h, u is to come and z is after the line:   *)
(* in the key; before the blank; in the value; before the line's LF.       *)
InLineOf(st, h, z, u) ==
    \/ \E y \in Seq(Byte) : /\ h.key = st.current \o y
                            /\ u = y \o Cons(":", Cons(" ", h.value \o LineEnd(z)))
    \/ /\ st.keyed = TRUE /\ st.old = h.key
       /\ \/ st.current = <<>> /\ u = Cons(" ", h.value \o LineEnd(z))
          \/ \E y \in Seq(Byte) : h.value = st.current \o y /\ u = y \o LineEnd(z)
          \/ st.current = h.value /\ u = Cons("LF", z)

(* What a byte of header line h makes of st: the parser goes on in the     *)
(* line, or it has the line, and z comes next.                             *)
LineTaken(st, q, h, z, v) ==
    /\ Parser(q) /\ q.status = "fheader"
    /\ \/ q.files = st.files /\ InLineOf(q, h, z, v)
       \/ /\ q.current = <<>> /\ v = z
          /\ q.files = [st.files EXCEPT ![LastFile(st)].head = Append(@, h)]

(* A byte that is added to the key or the value.                           *)
LEMMA ByteAdded ==
    ASSUME NEW st, Parser(st), st.status = "fheader", NEW c \in Byte,
           c \notin {":", "CR", "LF"}, st.current = <<>> => c # " "
    PROVE  LET q == FileHeader(st, c)
           IN /\ Parser(q) /\ q.status = "fheader" /\ q.files = st.files
              /\ q.current = Append(st.current, c) /\ q.keyed = st.keyed /\ q.old = st.old
<1>1. PICK q, a : q = FileHeader(st, c) /\ a = Append(st.current, c)
    OBVIOUS
<1>2. q = [st EXCEPT !.current = a]
    BY <1>1 DEF FileHeader
<1>3. a \in Seq(Byte)
    BY <1>1, EmptyBytes, TakeNext DEF Parser
<1>4. /\ DOMAIN q = DOMAIN st /\ q.status = "fheader" /\ q.files = st.files
      /\ q.current = a /\ q.keyed = st.keyed /\ q.old = st.old /\ q.boundary = st.boundary
    BY <1>2 DEF Parser
<1> QED
    BY <1>1, <1>3, <1>4 DEF Parser

(* A byte of a header line.                                                *)
LEMMA LineByteTaken ==
    ASSUME NEW st, Parser(st), st.status = "fheader", NEW h \in Line, ClearLine(h), NEW z \in Seq(Byte),
           NEW c \in Byte, NEW v \in Seq(Byte), InLineOf(st, h, z, Cons(c, v))
    PROVE  LineTaken(st, FileHeader(st, c), h, z, v)
<1>1. PICK q : q = FileHeader(st, c)
    OBVIOUS
<1>0. PICK cn \in Byte, bl \in Byte, cr \in Byte, lf \in Byte : cn = ":" /\ bl = " " /\ cr = "CR" /\ lf = "LF"
    BY ByteNames
<1>2. PICK k \in Seq(Byte), l \in Seq(Byte), a \in Seq(Byte) : k = h.key /\ l = h.value /\ a = st.current
    BY DEF Line, Parser
<1>3. Clear(k) /\ Clear(l) /\ l # <<>> /\ h = [key |-> k, value |-> l]
    BY <1>2 DEF ClearLine, Line
<1>4. PICK e, x, f, t, d : e = LineEnd(z) /\ x = l \o e /\ f = Cons(bl, x) /\ t = Cons(cn, f) /\ d = Cons(lf, z)
    OBVIOUS
<1>5. e \in Seq(Byte) /\ x \in Seq(Byte) /\ f \in Seq(Byte) /\ t \in Seq(Byte) /\ d \in Seq(Byte)
    <2>1. e \in Seq(Byte) /\ d \in Seq(Byte)
        BY <1>4, LineEndIs, ConsBytes
    <2>2. x \in Seq(Byte)
        BY <1>4, <2>1, ConcatBytes
    <2>3. f \in Seq(Byte)
        BY <1>4, <2>2, ConsBytes
    <2> QED
        BY <1>4, <2>1, <2>2, <2>3, ConsBytes
<1>6. e = Cons(cr, d)
    BY <1>0, <1>4 DEF LineEnd
<1>7. ASSUME NEW y \in Seq(Byte), k = a \o y, Cons(c, v) = y \o t
      PROVE  LineTaken(st, q, h, z, v)
    <2>1. CASE y = <<>> /\ Cons(c, v) = t
        <3>1. c = cn /\ v = f
            BY <1>4, <1>5, <2>1, SameFirst
        <3>2. k = a /\ c = ":"
            BY <1>0, <1>7, <2>1, <3>1, EmptyBytes
        <3>3. q = [st EXCEPT !.old = st.current, !.keyed = TRUE, !.current = <<>>]
            BY <1>1, <3>2 DEF FileHeader
        <3>4. /\ DOMAIN q = DOMAIN st /\ q.status = "fheader" /\ q.files = st.files /\ q.boundary = st.boundary
              /\ q.current = <<>> /\ q.keyed = TRUE /\ q.old = k
            BY <1>2, <3>2, <3>3 DEF Parser
        <3>5. Parser(q)
            BY <3>4, EmptyBytes DEF Parser
        <3>6. InLineOf(q, h, z, v)
            BY <1>0, <1>2, <1>4, <3>1, <3>4 DEF InLineOf
        <3> QED
            BY <3>4, <3>5, <3>6 DEF LineTaken
    <2>2. ASSUME NEW y1 \in Seq(Byte), y = Cons(c, y1), v = y1 \o t
          PROVE  LineTaken(st, q, h, z, v)
        <3>1. c \notin {":", "CR", "LF"} /\ (a = <<>> => c # " ")
            BY <1>3, <1>7, <2>2, ClearByte
        <3>2. Parser(q) /\ q.status = "fheader" /\ q.files = st.files /\ q.current = Append(a, c)
            BY <1>1, <1>2, <3>1, ByteAdded
        <3>3. Append(a, c) \o y1 = a \o Cons(c, y1)
            BY TakeNext, ZenonT(30)
        <3>4. k = q.current \o y1
            BY <1>7, <2>2, <3>2, <3>3, Zenon
        <3>5. InLineOf(q, h, z, v)
            BY <1>0, <1>2, <1>4, <2>2, <3>4 DEF InLineOf
        <3> QED
            BY <3>2, <3>5 DEF LineTaken
    <2>3. Cons(c, v) = y \o t
        BY <1>7
    <2>4. StartsIn(c, v, y, t)
        BY <1>5, <2>3, FirstIn
    <2> QED
        BY <2>1, <2>2, <2>4 DEF StartsIn
<1>8. ASSUME st.keyed = TRUE, st.old = k, a = <<>>, Cons(c, v) = f
      PROVE  LineTaken(st, q, h, z, v)
    <2>0. Cons(c, v) = Cons(bl, x)
        BY <1>4, <1>8
    <2>1. c = bl /\ v = x
        BY <1>5, <2>0, SameFirst
    <2>2. c = " "
        BY <1>0, <2>1
    <2>3. q = st
        BY <1>1, <1>2, <1>8, <2>2 DEF FileHeader
    <2>4. l = a \o l
        BY <1>8, EmptyBytes
    <2>5. InLineOf(q, h, z, v)
        BY <1>2, <1>4, <1>8, <2>1, <2>3, <2>4 DEF InLineOf
    <2> QED
        BY <2>3, <2>5 DEF LineTaken
<1>9. ASSUME st.keyed = TRUE, st.old = k, NEW y \in Seq(Byte), l = a \o y, Cons(c, v) = y \o e
      PROVE  LineTaken(st, q, h, z, v)
    <2>1. CASE y = <<>> /\ Cons(c, v) = e
        <3>1. c = cr /\ v = d
            BY <1>5, <1>6, <2>1, SameFirst
        <3>2. l = a /\ c = "CR"
            BY <1>0, <1>9, <2>1, <3>1, EmptyBytes
        <3>3. q = st
            BY <1>1, <3>2 DEF FileHeader
        <3>4. InLineOf(q, h, z, v)
            BY <1>0, <1>2, <1>4, <1>9, <3>1, <3>2, <3>3 DEF InLineOf
        <3> QED
            BY <3>3, <3>4 DEF LineTaken
    <2>2. ASSUME NEW y1 \in Seq(Byte), y = Cons(c, y1), v = y1 \o e
          PROVE  LineTaken(st, q, h, z, v)
        <3>1. c \notin {":", "CR", "LF"} /\ (a = <<>> => c # " ")
            BY <1>3, <1>9, <2>2, ClearByte
        <3>2. /\ Parser(q) /\ q.status = "fheader" /\ q.files = st.files /\ q.current = Append(a, c)
              /\ q.keyed = st.keyed /\ q.old = st.old
            BY <1>1, <1>2, <3>1, ByteAdded
        <3>3. Append(a, c) \o y1 = a \o Cons(c, y1)
            BY TakeNext, ZenonT(30)
        <3>4. l = q.current \o y1
            BY <1>9, <2>2, <3>2, <3>3, Zenon
        <3>5. InLineOf(q, h, z, v)
            BY <1>2, <1>4, <1>9, <2>2, <3>2, <3>4 DEF InLineOf
        <3> QED
            BY <3>2, <3>5 DEF LineTaken
    <2>3. Cons(c, v) = y \o e
        BY <1>9
    <2>4. StartsIn(c, v, y, e)
        BY <1>5, <2>3, FirstIn
    <2> QED
        BY <2>1, <2>2, <2>4 DEF StartsIn
<1>10. ASSUME st.keyed = TRUE, st.old = k, a = l, Cons(c, v) = d
       PROVE  LineTaken(st, q, h, z, v)
    <2>0. Cons(c, v) = Cons(lf, z)
        BY <1>4, <1>10
    <2>1. c = lf /\ v = z
        BY <2>0, SameFirst
    <2>2. c = "LF"
        BY <1>0, <2>1
    <2>3. q = [st EXCEPT !.files[LastFile(st)].head =
                             Append(@, [key |-> st.old, value |-> st.current]),
                         !.keyed = FALSE, !.old = <<>>, !.current = <<>>]
        BY <1>1, <1>2, <1>3, <1>10, <2>2 DEF FileHeader
    <2>4. h = [key |-> st.old, value |-> st.current]
        BY <1>2, <1>3, <1>10
    <2>5. /\ DOMAIN q = DOMAIN st /\ q.status = "fheader" /\ q.boundary = st.boundary /\ q.current = <<>>
          /\ q.files = [st.files EXCEPT ![LastFile(st)].head = Append(@, h)]
        BY <2>3, <2>4 DEF Parser
    <2>6. Parser(q)
        BY <2>5, EmptyBytes DEF Parser
    <2> QED
        BY <2>1, <2>5, <2>6 DEF LineTaken
<1> QED
    BY <1>0, <1>1, <1>2, <1>4, <1>7, <1>8, <1>9, <1>10 DEF InLineOf

(* A part of a sequence.                                                   *)
LEMMA PartOfBytes ==
    ASSUME NEW s \in Seq(Byte), NEW i \in Nat, i # 0, NEW d \in Nat, i <= d, d <= Len(s)
    PROVE  /\ SubSeq(s, i, d) \in Seq(Byte) /\ Len(SubSeq(s, i, d)) = d - i + 1
           /\ \A j \in 1 .. d - i + 1 : SubSeq(s, i, d)[j] = s[i + j - 1]
<1>1. i \in Int /\ d \in Int /\ \A j \in i .. d : j \in 1 .. Len(s)
    OBVIOUS
<1>2. \A j \in i .. d : s[j] \in Byte
    BY <1>1, ElementOfSeq
<1> QED
    BY <1>1, <1>2, SubSeqProperties

(* memmem finds what is where it starts.                                   *)
LEMMA FindsHere ==
    ASSUME NEW a \in Seq(Byte), NEW e \in Seq(Byte), NEW z \in Seq(Byte), e # <<>>,
           NEW s, s = a \o (e \o z)
    PROVE  memmem(s, Len(a) + 1, e) = Len(a) + 1
<1>1. PICK y, n, m, l : y = e \o z /\ n = Len(a) /\ m = Len(e) /\ l = Len(s)
    OBVIOUS
<1>2. IsConcat(y, e, z) /\ y \in Seq(Byte)
    BY <1>1, ConcatIs, ConcatBytes
<1>3. IsConcat(s, a, y)
    BY <1>1, <1>2, ConcatIs
<1>4. s \in Seq(Byte) /\ n \in Nat /\ m \in Nat /\ m # 0 /\ l = n + Len(y) /\ Len(y) = m + Len(z) /\ Len(z) \in Nat
    BY <1>1, <1>2, <1>3, EmptySeq DEF IsConcat
<1>5. PICK i : i = n + 1
    OBVIOUS
<1>6. SubSeq(s, i, i + m - 1) = e
    <2>1. PICK b : b = SubSeq(s, i, i + m - 1)
        OBVIOUS
    <2>2. PICK d : d = i + m - 1
        OBVIOUS
    <2>3. d \in Nat /\ i \in Nat /\ i # 0 /\ i <= d /\ d <= l /\ d - i + 1 = m
        BY <1>4, <1>5, <2>2
    <2>4. b \in Seq(Byte) /\ Len(b) = m /\ \A j \in 1 .. m : b[j] = s[i + j - 1]
        <3>1. d <= Len(s) /\ s \in Seq(Byte)
            BY <1>1, <1>4, <2>3
        <3>2. /\ SubSeq(s, i, d) \in Seq(Byte) /\ Len(SubSeq(s, i, d)) = d - i + 1
              /\ \A j \in 1 .. d - i + 1 : SubSeq(s, i, d)[j] = s[i + j - 1]
            BY <2>3, <3>1, PartOfBytes
        <3> QED
            BY <2>1, <2>2, <2>3, <3>2
    <2>5. ASSUME NEW j \in 1 .. m PROVE b[j] = e[j]
        <3>1. i + j - 1 = n + j /\ j \in 1 .. Len(y)
            BY <1>4, <1>5
        <3>2. s[n + j] = y[j]
            BY <1>1, <1>3, <3>1 DEF IsConcat
        <3>3. y[j] = e[j]
            BY <1>1, <1>2 DEF IsConcat
        <3> QED
            BY <2>4, <3>1, <3>2, <3>3
    <2> QED
        BY <1>1, <2>1, <2>4, <2>5, SeqEqual
<1> DEFINE at == {j \in i .. l + 1 - m : SubSeq(s, j, j + m - 1) = e}
<1>7. i \in at
    <2>1. i \in i .. l + 1 - m
        BY <1>4, <1>5
    <2> QED
        BY <1>6, <2>1
<1>8. at \in SUBSET Int /\ \A j \in at : i <= j
    BY <1>4, <1>5
<1>9. memmem(s, i, e) = IF at = {} THEN 0 ELSE CHOOSE x \in at : \A j \in at : x <= j
    BY <1>1 DEF memmem
<1> HIDE DEF at
<1>10. \A x \in at : (\A j \in at : x <= j) => x = i
    <2> SUFFICES ASSUME NEW x \in at, \A j \in at : x <= j PROVE x = i
        OBVIOUS
    <2>1. x <= i /\ i <= x /\ x \in Int /\ i \in Int
        BY <1>7, <1>8
    <2> QED
        BY <2>1
<1> QED
    BY <1>1, <1>5, <1>7, <1>8, <1>9, <1>10

(* The boundary is at i in s; it is nowhere in s.                          *)
Shows(s, i) == \A j \in 1 .. Len(Boundary) : s[i + j - 1] = Boundary[j]
Lacks(s) == \A i \in 1 .. Len(s) + 1 - Len(Boundary) : ~Shows(s, i)

(* What memmem compares with the boundary.                                 *)
LEMMA BoundaryShown ==
    ASSUME NEW s \in Seq(Byte), NEW i \in 1 .. Len(s) + 1 - Len(Boundary)
    PROVE  SubSeq(s, i, i + Len(Boundary) - 1) = Boundary <=> Shows(s, i)
<1>1. PICK n \in Nat, l \in Nat, b \in Seq(Byte) : n = Len(b) /\ l = Len(s) /\ b = Boundary
    BY BoundaryTyped
<1>2. n # 0
    BY <1>1, BoundaryTyped
<1>3. PICK d : d = i + n - 1
    OBVIOUS
<1>4. i \in Nat /\ i # 0 /\ d \in Nat /\ i <= d /\ d <= l /\ d - i + 1 = n
    BY <1>1, <1>2, <1>3
<1>5. PICK a : a = SubSeq(s, i, d)
    OBVIOUS
<1>6. a \in Seq(Byte) /\ Len(a) = n /\ \A j \in 1 .. n : a[j] = s[i + j - 1]
    BY <1>1, <1>4, <1>5, PartOfBytes
<1>7. ASSUME a = b PROVE Shows(s, i)
    BY <1>1, <1>6, <1>7 DEF Shows
<1>8. ASSUME Shows(s, i) PROVE a = b
    <2>1. \A j \in 1 .. n : a[j] = b[j]
        BY <1>1, <1>6, <1>8 DEF Shows
    <2> QED
        BY <1>1, <1>6, <2>1, SeqEqual
<1> QED
    BY <1>1, <1>3, <1>5, <1>7, <1>8

(* What memmem finds when it looks for the boundary.                       *)
LEMMA BoundarySearch ==
    ASSUME NEW s \in Seq(Byte)
    PROVE  memmem(s, 1, Boundary) =
             LET at == {i \in 1 .. Len(s) + 1 - Len(Boundary) : Shows(s, i)}
             IN IF at = {} THEN 0 ELSE CHOOSE i \in at : \A j \in at : i <= j
<1>1. PICK b, k, n : b = Boundary /\ k = Len(b) /\ n = Len(s)
    OBVIOUS
<1> DEFINE u == {i \in 1 .. n + 1 - k : SubSeq(s, i, i + k - 1) = b}
           at == {i \in 1 .. n + 1 - k : Shows(s, i)}
<1>2. \A i \in 1 .. n + 1 - k : SubSeq(s, i, i + k - 1) = b <=> Shows(s, i)
    BY <1>1, BoundaryShown
<1>3. u = at
    BY <1>2
<1>4. memmem(s, 1, b) = IF u = {} THEN 0 ELSE CHOOSE i \in u : \A j \in u : i <= j
    BY <1>1 DEF memmem
<1> QED
    BY <1>1, <1>3, <1>4

(* It finds none where there is none, and only there.                      *)
LEMMA LacksIs == ASSUME NEW s \in Seq(Byte) PROVE memmem(s, 1, Boundary) = 0 <=> Lacks(s)
<1> DEFINE at == {i \in 1 .. Len(s) + 1 - Len(Boundary) : Shows(s, i)}
<1>1. memmem(s, 1, Boundary) = IF at = {} THEN 0 ELSE CHOOSE i \in at : \A j \in at : i <= j
    BY BoundarySearch
<1>2. at = {} <=> Lacks(s)
    BY DEF Lacks
<1>3. at \in SUBSET Nat /\ 0 \notin at
    OBVIOUS
<1> HIDE DEF at
<1>4. ASSUME at # {} PROVE (CHOOSE i \in at : \A j \in at : i <= j) # 0
    <2>1. \E x \in at : \A y \in at : x <= y
        BY <1>3, <1>4, LeastOfNaturals
    <2>2. (CHOOSE i \in at : \A j \in at : i <= j) \in at
        BY <2>1
    <2> QED
        BY <1>3, <2>2
<1> QED
    BY <1>1, <1>2, <1>4

(* It finds the first one.                                                 *)
LEMMA FindsBoundary ==
    ASSUME NEW s \in Seq(Byte), NEW e \in 1 .. Len(s) + 1 - Len(Boundary), Shows(s, e),
           \A i \in 1 .. e - 1 : ~Shows(s, i)
    PROVE  memmem(s, 1, Boundary) = e
<1> DEFINE at == {i \in 1 .. Len(s) + 1 - Len(Boundary) : Shows(s, i)}
<1>1. memmem(s, 1, Boundary) = IF at = {} THEN 0 ELSE CHOOSE i \in at : \A j \in at : i <= j
    BY BoundarySearch
<1>2. e \in at /\ e \in Nat
    OBVIOUS
<1>3. ASSUME NEW j \in at PROVE e <= j
    <2>1. j \in Nat /\ j # 0 /\ Shows(s, j)
        OBVIOUS
    <2>2. ~(j \in 1 .. e - 1)
        BY <2>1
    <2> QED
        BY <1>2, <2>1, <2>2
<1>4. ASSUME NEW i \in at, \A j \in at : i <= j PROVE i = e
    <2>1. i <= e /\ e <= i /\ i \in Nat
        BY <1>2, <1>3, <1>4
    <2> QED
        BY <1>2, <2>1
<1> HIDE DEF at
<1> QED
    BY <1>1, <1>2, <1>3, <1>4

(* Parts of what has no boundary have none.                                *)
LEMMA LacksParts ==
    ASSUME NEW a \in Seq(Byte), NEW b \in Seq(Byte), Lacks(a \o b)
    PROVE  Lacks(a) /\ Lacks(b)
<1>1. PICK s, n, m, k : s = a \o b /\ n = Len(a) /\ m = Len(b) /\ k = Len(Boundary)
    OBVIOUS
<1>2. IsConcat(s, a, b)
    BY <1>1, ConcatIs
<1>3. n \in Nat /\ m \in Nat /\ k \in Nat /\ k # 0 /\ Len(s) = n + m
    BY <1>1, <1>2, BoundaryTyped DEF IsConcat
<1>4. \A i \in 1 .. (n + m) + 1 - k : ~Shows(s, i)
    BY <1>1, <1>3 DEF Lacks
<1>5. ASSUME NEW i \in 1 .. n + 1 - k PROVE ~Shows(a, i)
    <2>1. i \in 1 .. (n + m) + 1 - k
        BY <1>3
    <2>2. \A j \in 1 .. k : i + j - 1 \in 1 .. n
        BY <1>3
    <2>3. \A j \in 1 .. k : s[i + j - 1] = a[i + j - 1]
        BY <1>1, <1>2, <2>2 DEF IsConcat
    <2> QED
        BY <1>1, <1>4, <2>1, <2>3 DEF Shows
<1>6. ASSUME NEW i \in 1 .. m + 1 - k PROVE ~Shows(b, i)
    <2>1. n + i \in 1 .. (n + m) + 1 - k
        BY <1>3
    <2>2. \A j \in 1 .. k : i + j - 1 \in 1 .. m /\ (n + i) + j - 1 = n + (i + j - 1)
        BY <1>3
    <2>3. \A j \in 1 .. k : s[(n + i) + j - 1] = b[i + j - 1]
        BY <1>1, <1>2, <2>2 DEF IsConcat
    <2> QED
        BY <1>1, <1>4, <2>1, <2>3 DEF Shows
<1> QED
    BY <1>1, <1>5, <1>6 DEF Lacks

(* How many header lines the boundary line takes with it.                  *)
Skip(k) == IF k = 1 THEN 0 ELSE 1

(* Files 1 to k have what was sent in these parts.                         *)
Filled(files, ps, k) ==
    \A i \in 1 .. k : /\ files[i].content = ps[i].content
                      /\ files[i].head = SubSeq(ps[i].head, Skip(i) + 1, Len(ps[i].head))

(* File k has the header of part k up to line j, and the files before it   *)
(* are done.                                                               *)
Filling(files, ps, k, j) ==
    /\ DOMAIN files = 1 .. k /\ Filled(files, ps, k - 1)
    /\ {"head", "content"} \subseteq DOMAIN files[k]
    /\ files[k].head = SubSeq(ps[k].head, Skip(k) + 1, j)

(* The number of files.                                                    *)
LEMMA LengthOfFiles == ASSUME NEW files, NEW k \in Nat, DOMAIN files = 1 .. k PROVE Len(files) = k
OBVIOUS

(* One more header line.                                                   *)
LEMMA HeadGrows ==
    ASSUME NEW files, NEW ps, NEW k \in Nat, k # 0, ps[k].head \in Seq(Line),
           NEW j \in Nat, j >= Skip(k), j < Len(ps[k].head), Filling(files, ps, k, j),
           NEW g, g = [files EXCEPT ![k].head = Append(@, ps[k].head[j + 1])]
    PROVE  Filling(g, ps, k, j + 1)
<1>1. PICK h \in Seq(Line) : h = ps[k].head
    OBVIOUS
<1>1a. PICK s : s = Skip(k) + 1
    OBVIOUS
<1>2. Len(h) \in Nat /\ s \in Nat /\ s # 0 /\ j + 1 \in s .. Len(h) /\ s \in 1 .. Len(h) /\ (j + 1) - 1 = j
    BY <1>1, <1>1a DEF Skip
<1>3. SubSeq(h, s, j + 1) = Append(SubSeq(h, s, j), h[j + 1])
    <2>1. SubSeq(h, s, j + 1) = SubSeq(h, s, (j + 1) - 1) \o <<h[j + 1]>>
        BY <1>2, SubSeqRecursiveSecond
    <2>2. PICK t, l : t = SubSeq(h, s, j) /\ l = h[j + 1]
        OBVIOUS
    <2>3. l \in Line
        BY <1>2, <2>2
    <2>4. t \in Seq(Line)
        <3>1. \A i \in s .. j : i \in 1 .. Len(h)
            BY <1>2
        <3>2. s \in Int /\ j \in Int /\ \A i \in s .. j : h[i] \in Line
            BY <1>2, <3>1
        <3> QED
            BY <2>2, <3>2, SubSeqProperties
    <2>5. Append(t, l) = t \o <<l>>
        BY <2>3, <2>4, AppendIsConcat
    <2> QED
        BY <1>2, <2>1, <2>2, <2>5
<1>4. PICK f, e, l : f = files[k] /\ e = [f EXCEPT !.head = Append(f.head, l)] /\ l = h[j + 1]
    OBVIOUS
<1>5. /\ DOMAIN files = 1 .. k /\ {"head", "content"} \subseteq DOMAIN f
      /\ f.head = SubSeq(h, s, j)
    BY <1>1, <1>1a, <1>4 DEF Filling
<1>6. g = [files EXCEPT ![k] = e]
    BY <1>1, <1>1a, <1>4, <1>5
<1>7. DOMAIN g = 1 .. k /\ k \in 1 .. k /\ g[k] = e /\ \A i \in 1 .. k - 1 : g[i] = files[i]
    BY <1>5, <1>6
<1>8. {"head", "content"} \subseteq DOMAIN e /\ e.head = SubSeq(h, s, j + 1)
    BY <1>2, <1>3, <1>4, <1>5
<1>9. Filled(g, ps, k - 1)
    BY <1>7 DEF Filling, Filled
<1> QED
    BY <1>1, <1>1a, <1>7, <1>8, <1>9 DEF Filling

(* A file is opened.                                                       *)
LEMMA FileOpened ==
    ASSUME NEW files, NEW ps, NEW k \in Nat, DOMAIN files = 1 .. k, Filled(files, ps, k),
           ps[k + 1].head \in Seq(Line)
    PROVE  Filling(Append(files, NewFile), ps, k + 1, Skip(k + 1))
<1>1. PICK g, f : g = Append(files, f) /\ f = NewFile
    OBVIOUS
<1>2. Len(files) = k
    BY LengthOfFiles
<1>3. DOMAIN g = 1 .. k + 1 /\ g[k + 1] = f /\ \A i \in 1 .. k : g[i] = files[i]
    BY <1>1, <1>2
<1>4. {"head", "content"} \subseteq DOMAIN f /\ f.head = <<>>
    BY <1>1 DEF NewFile
<1>5. PICK s \in Nat : s = Skip(k + 1)
    BY DEF Skip
<1>5a. PICK h : h = ps[k + 1].head
    OBVIOUS
<1>6. SubSeq(h, s + 1, s) = <<>>
    <2>1. s + 1 \in Int /\ s \in Int /\ s < s + 1
        OBVIOUS
    <2> QED
        BY <2>1, SubSeqEmpty
<1>7. Filled(g, ps, (k + 1) - 1)
    <2>1. (k + 1) - 1 = k
        OBVIOUS
    <2> QED
        BY <1>3, <2>1 DEF Filled
<1> QED
    BY <1>1, <1>3, <1>4, <1>5, <1>5a, <1>6, <1>7 DEF Filling

(* A file is closed.                                                       *)
LEMMA FileClosed ==
    ASSUME NEW files, NEW ps, NEW k \in Nat, k # 0, Filling(files, ps, k, Len(ps[k].head)),
           NEW g, g = [files EXCEPT ![k].content = ps[k].content]
    PROVE  DOMAIN g = 1 .. k /\ Filled(g, ps, k)
<1>1. PICK f, e, c : f = files[k] /\ e = [f EXCEPT !.content = c] /\ c = ps[k].content
    OBVIOUS
<1>2. /\ DOMAIN files = 1 .. k /\ {"head", "content"} \subseteq DOMAIN f
      /\ f.head = SubSeq(ps[k].head, Skip(k) + 1, Len(ps[k].head))
    BY <1>1 DEF Filling
<1>3. g = [files EXCEPT ![k] = e]
    BY <1>1, <1>2
<1>4. DOMAIN g = 1 .. k /\ k \in 1 .. k /\ g[k] = e /\ \A i \in 1 .. k - 1 : g[i] = files[i]
    BY <1>2, <1>3
<1>5. e.head = f.head /\ e.content = c
    BY <1>1, <1>2
<1>6. Filled(files, ps, k - 1)
    BY DEF Filling
<1>7. ASSUME NEW i \in 1 .. k
      PROVE  /\ g[i].content = ps[i].content
             /\ g[i].head = SubSeq(ps[i].head, Skip(i) + 1, Len(ps[i].head))
    <2>1. CASE i = k
        BY <1>1, <1>2, <1>4, <1>5, <2>1
    <2>2. CASE i # k
        <3>1. i \in 1 .. k - 1
            BY <2>2
        <3> QED
            BY <1>4, <1>6, <3>1 DEF Filled
    <2> QED
        BY <2>1, <2>2
<1> QED
    BY <1>4, <1>7 DEF Filled

(* The parser in the header of part k, of which it has j lines; u is to    *)
(* come.                                                                   *)
InHeader(st, ps, P, G, k, j, u) ==
    /\ st.status = "fheader" /\ j \in Nat /\ Skip(k) <= j /\ Filling(st.files, ps, k, j)
    /\ \/ j < Len(ps[k].head) /\ InLineOf(st, ps[k].head[j + 1], G[k][j + 1], u)
       \/ /\ j = Len(ps[k].head) /\ st.current = <<>>
          /\ \/ u = LineEnd(ps[k].content \o LineEnd(P[k]))
             \/ u = Cons("LF", ps[k].content \o LineEnd(P[k]))

(* In the content of part k.                                               *)
InContent(st, ps, P, k, u) ==
    /\ st.status = "fbody" /\ Filling(st.files, ps, k, Len(ps[k].head))
    /\ \E y \in Seq(Byte) : ps[k].content = st.current \o y /\ u = y \o LineEnd(P[k])

(* In the boundary line before part k + 1, with the header line that is    *)
(* taken for a part of it.                                                 *)
AtBoundary(st, ps, P, G, k, u) ==
    /\ st.status = "barrier" /\ st.current = <<>> /\ DOMAIN st.files = 1 .. k /\ Filled(st.files, ps, k)
    /\ Len(u) <= Len(P[k])
    /\ \E x \in Seq(Byte) : Without(x, "CR") /\ u = x \o LineEnd(G[k + 1][Skip(k + 1)])

(* After the last boundary.                                                *)
AtLast(st, ps, u) ==
    /\ st.status = "barrier" /\ DOMAIN st.files = 1 .. Len(ps) /\ Filled(st.files, ps, Len(ps))
    /\ u = <<>> \/ u = Cons("LF", <<>>)

(* The parser is somewhere in the form, and u is the rest of the form.     *)
Place(st, ps, P, G, u) ==
    /\ Parser(st) /\ u \in Seq(Byte)
    /\ \/ \E k \in 1 .. Len(ps), j \in Nat : InHeader(st, ps, P, G, k, j, u)
       \/ \E k \in 1 .. Len(ps) : InContent(st, ps, P, k, u)
       \/ \E k \in 0 .. Len(ps) - 1 : AtBoundary(st, ps, P, G, k, u)
       \/ AtLast(st, ps, u)

(* Forms that can be taken apart.                                          *)
Clean(ps) ==
    /\ Len(ps) # 0
    /\ \A k \in 1 .. Len(ps) : /\ Lacks(ps[k].content)
                               /\ \A j \in 1 .. Len(ps[k].head) : ClearLine(ps[k].head[j])
                               /\ k # 1 => Len(ps[k].head) # 0

(* What a form says of part k.                                             *)
FormAt(P, G, ps, k) ==
    /\ k \in Nat /\ k # 0 /\ ps[k].head \in Seq(Line) /\ ps[k].content \in Seq(Byte)
    /\ P[k] \in Seq(Byte) /\ P[k - 1] \in Seq(Byte) /\ LineEnd(P[k]) \in Seq(Byte)
    /\ ps[k].content \o LineEnd(P[k]) \in Seq(Byte)
    /\ IsHeads(G[k], ps[k].head, ps[k].content \o LineEnd(P[k]))
    /\ P[k - 1] = Bound(LineEnd(G[k][0]))

(* It says so of every part.                                               *)
LEMMA FormParts ==
    ASSUME NEW P, NEW G, NEW ps, IsForm(P, G, ps), NEW k \in 1 .. Len(ps)
    PROVE  FormAt(P, G, ps, k)
<1>1. ps \in Seq(Part) /\ Len(ps) \in Nat /\ P \in [0 .. Len(ps) -> Seq(Byte)]
    BY DEF IsForm
<1>2. ps[k] \in Part /\ k \in 0 .. Len(ps) /\ k - 1 \in 0 .. Len(ps) /\ k \in Nat /\ k # 0
    BY <1>1
<1>3. ps[k].head \in Seq(Line) /\ ps[k].content \in Seq(Byte)
    BY <1>2 DEF Part
<1>4. P[k] \in Seq(Byte) /\ P[k - 1] \in Seq(Byte)
    BY <1>1, <1>2
<1>5. LineEnd(P[k]) \in Seq(Byte)
    BY <1>4, LineEndIs
<1>6. ps[k].content \o LineEnd(P[k]) \in Seq(Byte)
    BY <1>3, <1>5, ConcatBytes
<1>7. IsHeads(G[k], ps[k].head, ps[k].content \o LineEnd(P[k])) /\ P[k - 1] = Bound(LineEnd(G[k][0]))
    BY DEF IsForm
<1> QED
    BY <1>2, <1>3, <1>4, <1>5, <1>6, <1>7 DEF FormAt

(* The parser before header line j + 1 of part k, or before the empty line *)
(* after them.                                                             *)
LEMMA HeaderStarts ==
    ASSUME NEW P, NEW G, NEW ps, NEW k, FormAt(P, G, ps, k), NEW j \in Nat,
           Skip(k) <= j, j <= Len(ps[k].head),
           NEW st, st.status = "fheader", st.current = <<>>, Filling(st.files, ps, k, j)
    PROVE  InHeader(st, ps, P, G, k, j, G[k][j])
<1>1. PICK h, z, w : h = ps[k].head /\ z = ps[k].content \o LineEnd(P[k]) /\ w = G[k]
    OBVIOUS
<1>2. h \in Seq(Line) /\ IsHeads(w, h, z) /\ Len(h) \in Nat
    BY <1>1 DEF FormAt
<1>3. CASE j = Len(h)
    <2>1. w[j] = LineEnd(z)
        BY <1>2, <1>3 DEF IsHeads
    <2> QED
        BY <1>1, <1>3, <2>1 DEF InHeader
<1>4. CASE j # Len(h)
    <2>1. j < Len(h) /\ j + 1 \in 1 .. Len(h) /\ (j + 1) - 1 = j
        BY <1>1, <1>2, <1>4
    <2>2. PICK l, x : l = h[j + 1] /\ x = w[j + 1]
        OBVIOUS
    <2>3. w[j] = Header(l, x) /\ l \in Line
        BY <1>2, <2>1, <2>2 DEF IsHeads
    <2>4. l.key \in Seq(Byte)
        BY <2>3 DEF Line
    <2>5. l.key = <<>> \o l.key
        BY <2>4, EmptyBytes
    <2>6. InLineOf(st, l, x, w[j])
        BY <2>3, <2>4, <2>5 DEF InLineOf, Header
    <2> QED
        BY <1>1, <2>1, <2>2, <2>6 DEF InHeader
<1> QED
    BY <1>3, <1>4

(* A byte of a header.                                                     *)
LEMMA HeaderByte ==
    ASSUME NEW P, NEW G, NEW ps, IsForm(P, G, ps), Clean(ps), NEW st, Parser(st),
           NEW k \in 1 .. Len(ps), NEW j \in Nat, NEW c \in Byte, NEW v \in Seq(Byte),
           InHeader(st, ps, P, G, k, j, Cons(c, v))
    PROVE  Place(FileHeader(st, c), ps, P, G, v)
<1>1. PICK q, h, z, w : q = FileHeader(st, c) /\ h = ps[k].head /\ z = ps[k].content \o LineEnd(P[k]) /\ w = G[k]
    OBVIOUS
<1>2. FormAt(P, G, ps, k)
    BY FormParts
<1>3. /\ h \in Seq(Line) /\ Len(h) \in Nat /\ z \in Seq(Byte) /\ IsHeads(w, h, z) /\ k \in Nat /\ k # 0
      /\ ps[k].content \in Seq(Byte)
    BY <1>1, <1>2 DEF FormAt
<1>4. st.status = "fheader" /\ Skip(k) <= j /\ Filling(st.files, ps, k, j)
    BY DEF InHeader
<1>5. PICK cr \in Byte, lf \in Byte : cr = "CR" /\ lf = "LF"
    BY ByteNames
<1>6. CASE j < Len(h) /\ InLineOf(st, h[j + 1], w[j + 1], Cons(c, v))
    <2>1. PICK l, x : l = h[j + 1] /\ x = w[j + 1]
        OBVIOUS
    <2>2. j + 1 \in 1 .. Len(h) /\ j + 1 \in 0 .. Len(h) /\ j + 1 \in Nat /\ Skip(k) <= j + 1 /\ Skip(k) \in Nat
        BY <1>3, <1>4, <1>6 DEF Skip
    <2>3. l \in Line /\ x \in Seq(Byte)
        <3>1. l \in Line
            BY <1>3, <2>1, <2>2
        <3>2. w \in [0 .. Len(h) -> Seq(Byte)]
            BY <1>3 DEF IsHeads
        <3> QED
            BY <2>1, <2>2, <3>1, <3>2
    <2>4. ClearLine(l)
        BY <1>1, <2>1, <2>2 DEF Clean
    <2>5. LineTaken(st, q, l, x, v)
        BY <1>1, <1>4, <1>6, <2>1, <2>3, <2>4, LineByteTaken
    <2>6. CASE q.files = st.files /\ InLineOf(q, l, x, v)
        <3>1. Parser(q) /\ InHeader(q, ps, P, G, k, j, v)
            BY <1>1, <1>4, <1>6, <2>1, <2>5, <2>6 DEF InHeader, LineTaken
        <3> QED
            BY <1>1, <3>1 DEF Place
    <2>7. CASE /\ q.current = <<>> /\ v = x
               /\ q.files = [st.files EXCEPT ![LastFile(st)].head = Append(@, l)]
        <3>1. LastFile(st) = k
            BY <1>3, <1>4, LengthOfFiles DEF Filling, LastFile
        <3>2. PICK f, g : f = st.files /\ g = q.files
            OBVIOUS
        <3>3. g = [f EXCEPT ![k].head = Append(@, ps[k].head[j + 1])]
            BY <1>1, <2>1, <2>7, <3>1, <3>2
        <3>4. Filling(g, ps, k, j + 1)
            <4>1. ps[k].head \in Seq(Line) /\ j >= Skip(k) /\ j < Len(ps[k].head) /\ Filling(f, ps, k, j)
                BY <1>1, <1>3, <1>4, <1>6, <2>2, <3>2
            <4> QED
                BY <1>3, <3>3, <4>1, HeadGrows
        <3>5. Parser(q) /\ q.status = "fheader"
            BY <2>5 DEF LineTaken
        <3>6. InHeader(q, ps, P, G, k, j + 1, v)
            <4>1. j + 1 <= Len(ps[k].head)
                BY <1>1, <2>2
            <4>2. InHeader(q, ps, P, G, k, j + 1, G[k][j + 1])
                BY <1>2, <2>2, <2>7, <3>2, <3>4, <3>5, <4>1, HeaderStarts
            <4> QED
                BY <1>1, <2>1, <2>7, <4>2
        <3> QED
            BY <1>1, <2>2, <3>5, <3>6 DEF Place
    <2> QED
        BY <2>5, <2>6, <2>7 DEF LineTaken
<1>7. CASE j = Len(h) /\ st.current = <<>> /\ Cons(c, v) = LineEnd(z)
    <2>1. Cons(c, v) = Cons(cr, Cons(lf, z))
        BY <1>5, <1>7 DEF LineEnd
    <2>2. Cons(lf, z) \in Seq(Byte)
        BY <1>3, ConsBytes
    <2>3. c = cr /\ v = Cons(lf, z)
        BY <2>1, <2>2, SameFirst
    <2>4. q = st
        BY <1>1, <1>5, <2>3 DEF FileHeader
    <2>5. InHeader(q, ps, P, G, k, j, v)
        BY <1>1, <1>4, <1>5, <1>7, <2>3, <2>4 DEF InHeader
    <2> QED
        BY <1>1, <2>4, <2>5 DEF Place
<1>8. CASE j = Len(h) /\ st.current = <<>> /\ Cons(c, v) = Cons("LF", z)
    <2>1. Cons(c, v) = Cons(lf, z)
        BY <1>5, <1>8
    <2>2. c = lf /\ v = z
        BY <1>3, <2>1, SameFirst
    <2>3. q = [st EXCEPT !.status = "fbody", !.keyed = FALSE, !.old = <<>>]
        BY <1>1, <1>5, <1>8, <2>2 DEF FileHeader
    <2>4. /\ DOMAIN q = DOMAIN st /\ q.status = "fbody" /\ q.files = st.files /\ q.current = <<>>
          /\ q.boundary = st.boundary
        BY <1>8, <2>3 DEF Parser
    <2>5. Parser(q)
        BY <2>4, EmptyBytes DEF Parser
    <2>6. ps[k].content = q.current \o ps[k].content
        BY <1>3, <2>4, EmptyBytes
    <2>7. v = ps[k].content \o LineEnd(P[k])
        BY <1>1, <2>2
    <2>8. InContent(q, ps, P, k, v)
        BY <1>1, <1>3, <1>4, <1>8, <2>4, <2>6, <2>7 DEF InContent
    <2> QED
        BY <1>1, <2>5, <2>8 DEF Place
<1> QED
    BY <1>1, <1>6, <1>7, <1>8 DEF InHeader

(* The first c is behind x.                                                *)
LEMMA FirstBehind ==
    ASSUME NEW x \in Seq(Byte), NEW z \in Seq(Byte), NEW c \in Byte, Without(x, c)
    PROVE  FoundAt(x \o Cons(c, z), 1, c, Len(x) + 1)
<1>1. PICK p \in Seq(Byte) : p = <<>>
    BY EmptyBytes
<1>1a. PICK t : t = x \o Cons(c, z)
    OBVIOUS
<1>2. Len(p) = 0 /\ Len(x) \in Nat
    BY <1>1, <1>1a
<1>3. t \in Seq(Byte) /\ t = p \o t
    BY <1>1, <1>1a, ConsBytes, ConcatBytes, EmptyBytes
<1>4. t = p \o (x \o Cons(c, z))
    BY <1>1, <1>1a, <1>3
<1>5. FoundAt(t, Len(p) + 1, c, Len(p) + Len(x) + 1)
    BY <1>4, FirstAfter
<1>6. Len(p) + 1 = 1 /\ Len(p) + Len(x) + 1 = Len(x) + 1
    BY <1>2
<1> QED
    BY <1>1, <1>1a, <1>5, <1>6 DEF FoundAt

(* The parser leaves a boundary line.                                      *)
LEMMA BarrierPasses ==
    ASSUME NEW st, NEW x \in Seq(Byte), NEW z \in Seq(Byte), Without(x, "CR")
    PROVE  Barrier(st, x \o LineEnd(z)) =
             Parsed([st EXCEPT !.status = "fheader", !.files = Append(@, NewFile)], z)
<1>1. PICK cr \in Byte, lf \in Byte : cr = "CR" /\ lf = "LF"
    BY ByteNames
<1>2. PICK d, e, s : d = Cons(lf, z) /\ e = LineEnd(z) /\ s = x \o e
    OBVIOUS
<1>3. d \in Seq(Byte) /\ e = Cons(cr, d) /\ e \in Seq(Byte) /\ Len(e) = Len(z) + 2 /\ Len(z) \in Nat
    BY <1>1, <1>2, ConsBytes, LineEndIs DEF LineEnd
<1>4. PICK n : n = Len(x)
    OBVIOUS
<1>5. FoundAt(s, 1, cr, n + 1)
    <2>1. Without(x, cr)
        BY <1>1
    <2> QED
        BY <1>2, <1>3, <1>4, <2>1, FirstBehind
<1>6. Len(s) = n + (Len(z) + 2) /\ n \in Nat /\ s \in Seq(Byte)
    <2>1. e \in Seq(Byte) /\ Len(e) = Len(z) + 2
        BY <1>3
    <2>2. Len(x \o e) = Len(x) + Len(e) /\ x \o e \in Seq(Byte) /\ Len(x) \in Nat
        BY <2>1, ConcatLen, ConcatBytes
    <2> QED
        BY <1>2, <1>4, <2>1, <2>2, Zenon
<1>7. From(s, n + 3) = z
    <2>1. PICK f \in Seq(Byte) : f = CRLF
        BY LineEndBytes
    <2>2. PICK y : y = x \o f
        OBVIOUS
    <2>3. y \in Seq(Byte) /\ Len(y) = n + 2 /\ Assoc(x, f, z)
        BY <1>4, <2>1, <2>2, LineEndBytes, ConcatBytes, ConcatLen, ConcatAssoc
    <2>4. s = y \o z
        BY <1>2, <2>1, <2>2, <2>3, LineEndIs DEF Assoc
    <2>5. From(y \o z, Len(y) + 1) = z
        BY <2>3, PartsOf
    <2>6. Len(y) + 1 = n + 3
        BY <1>6, <2>3
    <2> QED
        BY <2>4, <2>5, <2>6
<1>8. PICK i : i = FirstOf(s, "CR")
    OBVIOUS
<1>9. i = n + 1
    BY <1>1, <1>5, <1>8 DEF FirstOf, FoundAt
<1>10. i # 0 /\ i # Len(s) /\ i + 2 = n + 3
    BY <1>3, <1>6, <1>9
<1>11. Barrier(st, s) = Parsed([st EXCEPT !.status = "fheader", !.files = Append(@, NewFile)], From(s, i + 2))
    BY <1>8, <1>10 DEF Barrier
<1> QED
    BY <1>2, <1>7, <1>10, <1>11

(* The bytes of a boundary line before its end are not LF.                 *)
LEMMA BoundaryBytes ==
    /\ Without(Boundary, "LF") /\ Without(Dashes, "LF")
    /\ Without(<<"CR">>, "LF") /\ Without(<<"LF">>, "CR")
<1>1. \A s, c : Len(s) = 1 /\ s[1] # c => Without(s, c)
    BY DEF Without
<1>2. \A s, c : Len(s) = 2 /\ s[1] # c /\ s[2] # c => Without(s, c)
    BY DEF Without
<1>3. Without(<<"CR">>, "LF") /\ Without(<<"LF">>, "CR")
    BY <1>1
<1>4. Without(Dashes, "LF")
    BY <1>2 DEF Dashes
<1>5. Without(Boundary, "LF")
    BY BoundaryTyped DEF Without
<1> QED
    BY <1>3, <1>4, <1>5

(* Content y, the boundary with m up to its LF, and z.                     *)
Around(y, m, z) == y \o LineEnd(Bound(m \o Cons("LF", z)))

(* The ways to take it apart: up to the boundary, after it, at the LF      *)
(* after it and at the LF before it.                                       *)
IsAround(s, y, m, z, p, w) ==
    /\ s \in Seq(Byte) /\ p \in Seq(Byte) /\ w \in Seq(Byte) /\ Len(y) \in Nat /\ Len(m) \in Nat
    /\ p = (y \o CRLF) \o Dashes /\ Len(p) = Len(y) + 4
    /\ w = m \o Cons("LF", z)
    /\ s = p \o (Boundary \o w)
    /\ s = (p \o Boundary) \o w /\ p \o Boundary \in Seq(Byte)
    /\ Len(p \o Boundary) = Len(y) + 4 + Len(Boundary)
    /\ s = ((p \o Boundary) \o m) \o Cons("LF", z) /\ (p \o Boundary) \o m \in Seq(Byte)
    /\ Len((p \o Boundary) \o m) = (Len(y) + 4 + Len(Boundary)) + Len(m)
    /\ \E v \in Seq(Byte) : s = (y \o <<"CR">>) \o v

(* It can be taken apart so.                                               *)
LEMMA AroundIs ==
    ASSUME NEW y \in Seq(Byte), NEW m \in Seq(Byte), NEW z \in Seq(Byte)
    PROVE  \E p, w : IsAround(Around(y, m, z), y, m, z, p, w)
<1>1. PICK lf \in Byte : lf = "LF"
    BY ByteNames
<1>2. PICK e \in Seq(Byte), d \in Seq(Byte), b \in Seq(Byte) : e = CRLF /\ d = Dashes /\ b = Boundary
    BY LineEndBytes, FormBytesTyped, ConcatBytes, BoundaryTyped
<1>3. Len(e) = 2 /\ Len(d) = 2 /\ Len(b) \in Nat
    BY <1>2, LineEndBytes, BoundaryTyped DEF Dashes
<1>4. PICK t, w, g, gw, s : t = Cons(lf, z) /\ w = m \o t /\ g = d \o b /\ gw = g \o w /\ s = y \o (e \o gw)
    OBVIOUS
<1>5. t \in Seq(Byte) /\ w \in Seq(Byte) /\ g \in Seq(Byte) /\ gw \in Seq(Byte) /\ s \in Seq(Byte)
    BY <1>4, ConsBytes, ConcatBytes
<1>6. s = Around(y, m, z)
    <2>1. Bound(w) = gw
        BY <1>1, <1>2, <1>4, <1>5, BoundIs
    <2>2. LineEnd(gw) = e \o gw
        BY <1>2, <1>5, LineEndIs
    <2> QED
        BY <1>1, <1>4, <2>1, <2>2 DEF Around
<1>7. PICK ye, p, pb, pm, bw : ye = y \o e /\ p = ye \o d /\ pb = p \o b /\ pm = pb \o m /\ bw = b \o w
    OBVIOUS
<1>8. ye \in Seq(Byte) /\ p \in Seq(Byte) /\ pb \in Seq(Byte) /\ pm \in Seq(Byte) /\ bw \in Seq(Byte)
    BY <1>5, <1>7, ConcatBytes
<1>9. /\ Assoc(y, e, gw) /\ Assoc(d, b, w) /\ Assoc(ye, d, bw) /\ Assoc(p, b, w) /\ Assoc(pb, m, t)
    BY <1>5, <1>8, ConcatAssoc
<1>10. s = ye \o gw /\ gw = d \o bw
    BY <1>4, <1>7, <1>9 DEF Assoc
<1>11. s = p \o bw
    BY <1>7, <1>9, <1>10 DEF Assoc
<1>12. s = pb \o w
    BY <1>7, <1>9, <1>11 DEF Assoc
<1>13. s = pm \o t
    BY <1>4, <1>7, <1>9, <1>12 DEF Assoc
<1>14. /\ Len(ye) = Len(y) + Len(e) /\ Len(p) = Len(ye) + Len(d) /\ Len(pb) = Len(p) + Len(b)
       /\ Len(pm) = Len(pb) + Len(m) /\ Len(y) \in Nat /\ Len(m) \in Nat
    BY <1>7, <1>8, ConcatLen
<1>15. Len(p) = Len(y) + 4 /\ Len(pb) = Len(y) + 4 + Len(b) /\ Len(pm) = (Len(y) + 4 + Len(b)) + Len(m)
    BY <1>3, <1>14
<1>16. \E v \in Seq(Byte) : s = (y \o <<"CR">>) \o v
    <2>1. PICK c \in Seq(Byte), l \in Seq(Byte) : c = <<"CR">> /\ l = <<"LF">>
        BY FormBytesTyped
    <2>2. PICK v : v = l \o gw
        OBVIOUS
    <2>3. v \in Seq(Byte) /\ Assoc(c, l, gw)
        BY <1>5, <2>2, ConcatBytes, ConcatAssoc
    <2>4. e = c \o l
        BY <1>2, <2>1, FormBytesTyped
    <2>5. Assoc(y, c, v)
        BY <2>3, ConcatAssoc
    <2>6. e \o gw = c \o v
        BY <2>2, <2>3, <2>4 DEF Assoc
    <2>7. s = (y \o c) \o v
        BY <1>4, <2>5, <2>6 DEF Assoc
    <2> QED
        BY <2>1, <2>3, <2>7
<1>17. IsAround(s, y, m, z, p, w)
    <2>1. p = (y \o CRLF) \o Dashes /\ pb = p \o Boundary /\ w = m \o Cons("LF", z) /\ t = Cons("LF", z)
        BY <1>1, <1>2, <1>4, <1>7
    <2>2. bw = Boundary \o w
        BY <1>2, <1>7
    <2> QED
        BY <1>2, <1>5, <1>7, <1>8, <1>11, <1>12, <1>13, <1>14, <1>15, <1>16, <2>1, <2>2 DEF IsAround
<1> QED
    BY <1>6, <1>17

(* The first place of the boundary is behind the dashes.                   *)
LEMMA BoundaryPlace ==
    ASSUME NEW y \in Seq(Byte), NEW w \in Seq(Byte), Lacks(y),
           NEW p, p = (y \o CRLF) \o Dashes, NEW s, s = p \o (Boundary \o w)
    PROVE  memmem(s, 1, Boundary) = Len(y) + 5
<1>1. PICK e \in Seq(Byte), d \in Seq(Byte), b \in Seq(Byte), ye \in Seq(Byte), v \in Seq(Byte) :
         e = CRLF /\ d = Dashes /\ b = Boundary /\ ye = y \o e /\ v = b \o w
    BY LineEndBytes, FormBytesTyped, BoundaryTyped, ConcatBytes
<1>2. PICK n \in Nat, q \in Nat, l \in Nat : n = Len(y) /\ q = Len(b) /\ l = Len(w)
    OBVIOUS
<1>3. q # 0 /\ \A i \in 1 .. q : b[i] \notin {"CR", "LF", "-"}
    BY <1>1, <1>2, BoundaryTyped
<1>4. Len(e) = 2 /\ e[1] = "CR" /\ e[2] = "LF" /\ Len(d) = 2 /\ d[1] = "-" /\ d[2] = "-"
    BY <1>1 DEF CRLF, Dashes
<1>5. IsConcat(ye, y, e) /\ p \in Seq(Byte) /\ IsConcat(p, ye, d)
    BY <1>1, ConcatIs, ConcatBytes
<1>6. s \in Seq(Byte) /\ IsConcat(s, p, v) /\ IsConcat(v, b, w)
    BY <1>1, <1>5, ConcatIs, ConcatBytes
<1>7. Len(ye) = n + 2 /\ Len(p) = n + 4 /\ Len(v) = q + l /\ Len(s) = (n + 4) + (q + l)
    <2>1. Len(ye) = n + 2
        BY <1>2, <1>4, <1>5 DEF IsConcat
    <2>2. Len(p) = (n + 2) + 2
        BY <1>4, <1>5, <2>1 DEF IsConcat
    <2>3. Len(v) = q + l /\ Len(s) = Len(p) + Len(v)
        BY <1>2, <1>6 DEF IsConcat
    <2> QED
        BY <2>1, <2>2, <2>3
<1>8. \A i \in 1 .. n : s[i] = y[i]
    <2> SUFFICES ASSUME NEW i \in 1 .. n PROVE s[i] = y[i]
        OBVIOUS
    <2>1. i \in 1 .. n + 2 /\ i \in 1 .. n + 4
        OBVIOUS
    <2>2. s[i] = p[i]
        BY <1>6, <1>7, <2>1 DEF IsConcat
    <2>3. p[i] = ye[i]
        BY <1>5, <1>7, <2>1 DEF IsConcat
    <2>4. ye[i] = y[i]
        BY <1>2, <1>5 DEF IsConcat
    <2> QED
        BY <2>2, <2>3, <2>4
<1>9. \A i \in 1 .. 4 : s[n + i] \in {"CR", "LF", "-"}
    <2>1. 1 \in 1 .. 2 /\ 2 \in 1 .. 2
        OBVIOUS
    <2>2. ye[n + 1] = "CR" /\ ye[n + 2] = "LF"
        BY <1>2, <1>4, <1>5, <2>1 DEF IsConcat
    <2>3. p[(n + 2) + 1] = "-" /\ p[(n + 2) + 2] = "-"
        BY <1>4, <1>5, <1>7, <2>1 DEF IsConcat
    <2>4. n + 1 \in 1 .. n + 2 /\ n + 2 \in 1 .. n + 2
        OBVIOUS
    <2>5. p[n + 1] = "CR" /\ p[n + 2] = "LF"
        BY <1>5, <1>7, <2>2, <2>4 DEF IsConcat
    <2>6. \A i \in 1 .. 4 : n + i \in 1 .. n + 4
        OBVIOUS
    <2>7. \A i \in 1 .. 4 : s[n + i] = p[n + i]
        BY <1>6, <1>7, <2>6 DEF IsConcat
    <2>8. (n + 2) + 1 = n + 3 /\ (n + 2) + 2 = n + 4 /\ \A i \in 1 .. 4 : i = 1 \/ i = 2 \/ i = 3 \/ i = 4
        OBVIOUS
    <2> QED
        BY <2>3, <2>5, <2>7, <2>8
<1>10. \A j \in 1 .. q : s[(n + 4) + j] = b[j]
    <2> SUFFICES ASSUME NEW j \in 1 .. q PROVE s[(n + 4) + j] = b[j]
        OBVIOUS
    <2>1. j \in 1 .. q + l
        OBVIOUS
    <2>2. s[(n + 4) + j] = v[j]
        BY <1>6, <1>7, <2>1 DEF IsConcat
    <2>3. v[j] = b[j]
        BY <1>2, <1>6 DEF IsConcat
    <2> QED
        BY <2>2, <2>3
<1>11. Shows(s, n + 5)
    <2>1. \A j \in 1 .. q : (n + 5) + j - 1 = (n + 4) + j
        OBVIOUS
    <2> QED
        BY <1>1, <1>2, <1>10, <2>1 DEF Shows
<1>12. ASSUME NEW i \in 1 .. (n + 5) - 1 PROVE ~Shows(s, i)
    <2> SUFFICES ASSUME Shows(s, i) PROVE FALSE
        OBVIOUS
    <2>1. \A j \in 1 .. q : s[i + j - 1] = b[j]
        BY <1>1, <1>2 DEF Shows
    <2>2. CASE i + q - 1 <= n
        <3>1. \A j \in 1 .. q : i + j - 1 \in 1 .. n
            BY <1>3, <2>2
        <3>2. \A j \in 1 .. q : y[i + j - 1] = b[j]
            BY <1>8, <2>1, <3>1
        <3>3. Shows(y, i) /\ i \in 1 .. n + 1 - q
            BY <1>1, <1>2, <2>2, <3>2 DEF Shows
        <3> QED
            BY <1>1, <1>2, <3>3 DEF Lacks
    <2>3. CASE i <= n /\ ~(i + q - 1 <= n)
        <3>1. PICK j \in 1 .. q : i + j - 1 = n + 1
            <4>1. n + 2 - i \in 1 .. q /\ i + (n + 2 - i) - 1 = n + 1
                BY <1>3, <2>3
            <4> QED
                BY <4>1
        <3>2. 1 \in 1 .. 4
            OBVIOUS
        <3>3. s[n + 1] \in {"CR", "LF", "-"} /\ s[n + 1] = b[j]
            BY <1>9, <2>1, <3>1, <3>2
        <3> QED
            BY <1>3, <3>3
    <2>4. CASE ~(i <= n)
        <3>1. PICK h \in 1 .. 4 : i = n + h
            <4>1. i - n \in 1 .. 4 /\ i = n + (i - n)
                BY <2>4
            <4> QED
                BY <4>1
        <3>2. 1 \in 1 .. q /\ i + 1 - 1 = n + h
            BY <1>3, <3>1
        <3>3. s[n + h] = b[1]
            BY <2>1, <3>2
        <3> QED
            BY <1>3, <1>9, <3>1, <3>2, <3>3
    <2> QED
        BY <2>2, <2>3, <2>4
<1>13. n + 5 \in 1 .. Len(s) + 1 - q
    BY <1>7
<1> QED
    BY <1>1, <1>2, <1>6, <1>11, <1>12, <1>13, FindsBoundary

(* The last LF up to the boundary is the one before its dashes.            *)
LEMMA LineBefore ==
    ASSUME NEW y \in Seq(Byte), NEW c \in Byte, c # "LF",
           NEW p, p = (y \o CRLF) \o Dashes
    PROVE  LastOf(p \o <<c>>, "LF") = Len(y) + 2
<1>1. PICK e \in Seq(Byte), d \in Seq(Byte), b \in Seq(Byte), ye \in Seq(Byte) :
         e = CRLF /\ d = Dashes /\ b = <<c>> /\ ye = y \o e
    BY LineEndBytes, FormBytesTyped, ByteLists, ConcatBytes
<1>2. PICK n \in Nat : n = Len(y)
    OBVIOUS
<1>3. PICK pb, db : pb = p \o b /\ db = d \o b
    OBVIOUS
<1>4. db \in Seq(Byte) /\ Assoc(ye, d, b) /\ Without(db, "LF") /\ Len(db) \in Nat
    <2>1. Without(d, "LF") /\ Without(b, "LF")
        <3>1. Len(b) = 1 /\ b[1] = c
            BY <1>1
        <3>2. Without(b, "LF")
            BY <3>1 DEF Without
        <3> QED
            BY <1>1, <3>2, BoundaryBytes
    <2> QED
        BY <1>3, <2>1, ConcatBytes, ConcatAssoc, WithoutParts
<1>5. pb = ye \o db
    BY <1>1, <1>3, <1>4 DEF Assoc
<1>6. IsConcat(pb, ye, db) /\ IsConcat(ye, y, e)
    BY <1>1, <1>4, <1>5, ConcatIs
<1>7. Len(e) = 2 /\ e[2] = "LF"
    BY <1>1, LineEndBytes DEF CRLF
<1>8. Len(ye) = n + 2 /\ 2 \in 1 .. Len(e) /\ ye[n + 2] = "LF"
    <2>1. 2 \in 1 .. 2
        OBVIOUS
    <2> QED
        BY <1>2, <1>6, <1>7, <2>1 DEF IsConcat
<1>9. n + 2 \in 1 .. Len(ye) /\ n + 2 \in 1 .. Len(pb) /\ Len(pb) = (n + 2) + Len(db)
    <2>1. Len(pb) = Len(ye) + Len(db) /\ Len(db) \in Nat
        BY <1>6 DEF IsConcat
    <2> QED
        BY <1>2, <1>8, <2>1
<1>10. pb[n + 2] = "LF" /\ pb \in Seq(Byte)
    BY <1>6, <1>8, <1>9 DEF IsConcat
<1>11. ASSUME NEW i \in (n + 2) + 1 .. Len(pb) PROVE pb[i] # "LF"
    <2>1. PICK j \in 1 .. Len(db) : i = (n + 2) + j
        <3>1. i - (n + 2) \in 1 .. Len(db) /\ i = (n + 2) + (i - (n + 2))
            BY <1>4, <1>9
        <3> QED
            BY <3>1
    <2>2. pb[Len(ye) + j] = db[j]
        BY <1>6 DEF IsConcat
    <2> QED
        BY <1>4, <1>8, <2>1, <2>2 DEF Without
<1>12. LastOf(pb, "LF") = n + 2
    BY <1>9, <1>10, <1>11, FindsLast, ZenonT(30)
<1> QED
    BY <1>1, <1>2, <1>3, <1>12

(* Where FileBody finds the boundary, the line it is in and the line's     *)
(* end.                                                                    *)
LEMMA BodySearch ==
    ASSUME NEW y \in Seq(Byte), NEW m \in Seq(Byte), NEW z \in Seq(Byte), Lacks(y), Without(m, "LF"),
           NEW s, s = Around(y, m, z), NEW at, at = memmem(s, 1, Boundary)
    PROVE  /\ at = Len(y) + 5
           /\ LastOf(SubSeq(s, 1, at), "LF") = Len(y) + 2
           /\ FirstOf(From(s, at), "LF") = Len(Boundary) + Len(m) + 1
           /\ From(s, (Len(y) + 4 + Len(Boundary)) + Len(m) + 1) = Cons("LF", z)
           /\ SubSeq(s, 1, Len(y) + 1) = y \o <<"CR">>
<1>1. PICK p, w : IsAround(s, y, m, z, p, w)
    BY AroundIs
<1>0. PICK n \in Nat, k \in Nat, q \in Nat : n = Len(y) /\ k = Len(m) /\ q = Len(Boundary)
    BY BoundaryTyped
<1>2. PICK lf \in Byte : lf = "LF"
    BY ByteNames
<1>3. PICK b \in Seq(Byte) : b = Boundary
    BY BoundaryTyped
<1>4. PICK pb, pm, t, v : pb = p \o b /\ pm = pb \o m /\ t = Cons(lf, z) /\ v = b \o w
    OBVIOUS
<1>5. /\ s \in Seq(Byte) /\ p \in Seq(Byte) /\ w \in Seq(Byte) /\ t \in Seq(Byte)
      /\ pm \in Seq(Byte)
      /\ Len(p) = n + 4 /\ Len(pm) = (n + 4 + q) + k
    BY <1>1, <1>0, <1>2, <1>3, <1>4, ConsBytes DEF IsAround
<1>6. p = (y \o CRLF) \o Dashes /\ w = m \o t /\ s = p \o v /\ s = pm \o t
    BY <1>1, <1>0, <1>2, <1>3, <1>4 DEF IsAround
<1>7. v \in Seq(Byte) /\ IsConcat(v, b, w)
    BY <1>4, <1>5, ConcatBytes, ConcatIs
<1>9. at = n + 5
    <2>1. s = p \o (Boundary \o w) /\ p = (y \o CRLF) \o Dashes /\ w \in Seq(Byte)
        BY <1>3, <1>4, <1>5, <1>6
    <2>2. memmem(s, 1, Boundary) = Len(y) + 5
        BY <2>1, BoundaryPlace, ZenonT(30)
    <2> QED
        BY <1>0, <2>2
<1>8. PICK c \in Byte, x \in Seq(Byte) : v = Cons(c, x) /\ c # "LF"
    <2>1. q # 0 /\ 1 \in 1 .. q
        BY <1>0, BoundaryTyped
    <2>2. Len(v) = q + Len(w) /\ Len(w) \in Nat /\ v[1] = b[1]
        BY <1>0, <1>3, <1>7, <2>1 DEF IsConcat
    <2>3. Len(v) # 0
        BY <2>1, <2>2
    <2>4. v # <<>>
        BY <1>7, <2>3, EmptySeq
    <2>5. PICK f \in Byte, r \in Seq(Byte) : v = Cons(f, r)
        BY <1>7, <2>4, FirstByte
    <2>6. v[1] = f
        BY <2>5, HeadAndTail DEF IsCons
    <2>7. b[1] # "LF"
        BY <1>0, <1>3, <2>1, BoundaryTyped
    <2> QED
        BY <2>2, <2>5, <2>6, <2>7
<1>10. SubSeq(s, 1, at) = p \o <<c>>
    <2>1. PICK f \in Seq(Byte) : f = <<c>>
        BY ByteLists
    <2>2. PICK pc : pc = p \o f
        OBVIOUS
    <2>3. pc \in Seq(Byte) /\ Len(pc) = Len(p) + Len(f) /\ Len(f) = 1 /\ Assoc(p, f, x)
        BY <1>5, <2>1, <2>2, ConcatBytes, ConcatLen, ConcatAssoc
    <2>4. s = pc \o x
        BY <1>6, <1>8, <2>1, <2>2, <2>3 DEF Assoc, Cons
    <2>5. SubSeq(pc \o x, 1, Len(pc)) = pc
        BY <2>3, PartsOf
    <2>6. Len(pc) = at
        BY <1>5, <1>9, <2>3
    <2> QED
        BY <2>1, <2>2, <2>4, <2>5, <2>6
<1>11. LastOf(p \o <<c>>, "LF") = n + 2
    BY <1>0, <1>6, <1>8, LineBefore
<1>12. From(s, at) = v
    <2>1. From(p \o v, Len(p) + 1) = v
        BY <1>5, <1>7, PartsOf
    <2>2. Len(p) + 1 = at
        BY <1>5, <1>9
    <2> QED
        BY <1>6, <2>1, <2>2
<1>13. FirstOf(v, "LF") = q + k + 1
    <2>1. PICK bm : bm = b \o m
        OBVIOUS
    <2>2. bm \in Seq(Byte) /\ Len(bm) = Len(b) + Len(m) /\ Assoc(b, m, t)
        BY <1>5, <2>1, ConcatBytes, ConcatLen, ConcatAssoc
    <2>3. v = bm \o t
        BY <1>4, <1>6, <2>1, <2>2 DEF Assoc
    <2>4. Without(bm, "LF")
        BY <1>3, <2>1, BoundaryBytes, WithoutParts
    <2>5. Without(bm, lf)
        BY <1>0, <1>2, <2>4
    <2>6. FoundAt(bm \o Cons(lf, z), 1, lf, Len(bm) + 1)
        BY <2>2, <2>5, FirstBehind
    <2>8. Len(bm) + 1 = q + k + 1
        BY <1>0, <1>2, <1>3, <2>2
    <2> QED
        BY <1>0, <1>2, <1>4, <2>3, <2>6, <2>8 DEF FoundAt, FirstOf
<1>14. From(s, (n + 4 + q) + k + 1) = t
    <2>1. From(pm \o t, Len(pm) + 1) = t
        BY <1>5, PartsOf
    <2>2. Len(pm) + 1 = (n + 4 + q) + k + 1
        BY <1>5
    <2> QED
        BY <1>6, <2>1, <2>2
<1>15. SubSeq(s, 1, n + 1) = y \o <<"CR">>
    <2>1. PICK u \in Seq(Byte) : s = (y \o <<"CR">>) \o u
        BY <1>1 DEF IsAround
    <2>2. PICK cr \in Seq(Byte) : cr = <<"CR">>
        BY FormBytesTyped
    <2>2a. PICK yc : yc = y \o cr
        OBVIOUS
    <2>3. yc \in Seq(Byte) /\ Len(yc) = n + Len(cr)
        BY <1>0, <1>2, <2>2, <2>2a, ConcatBytes, ConcatLen
    <2>4. Len(cr) = 1
        BY <2>2, <2>2a
    <2>5. SubSeq(yc \o u, 1, Len(yc)) = yc
        BY <2>3, PartsOf
    <2>6. Len(yc) = n + 1
        BY <2>3, <2>4
    <2> QED
        BY <2>1, <2>2, <2>2a, <2>5, <2>6
<1>16. n = Len(y) /\ k = Len(m) /\ q = Len(Boundary) /\ t = Cons("LF", z)
    BY <1>0, <1>2, <1>4
<1> QED
    BY <1>9, <1>10, <1>11, <1>12, <1>13, <1>14, <1>15, <1>16

(* What the parser makes of a file with content c.                         *)
Ended(st, c) == [st EXCEPT !.files[LastFile(st)].content = c, !.current = <<>>, !.status = "barrier"]

(* The end of a file's content is found, and its boundary line.            *)
LEMMA BodyEnds ==
    ASSUME NEW st, Parser(st), NEW y \in Seq(Byte), NEW m \in Seq(Byte), NEW z \in Seq(Byte),
           Lacks(y), Without(m, "LF")
    PROVE  FileBody(st, Around(y, m, z)) = Parsed(Ended(st, st.current \o y), Cons("LF", z))
<1>1. PICK s, at, start, end, a : /\ s = Around(y, m, z) /\ at = memmem(s, 1, st.boundary)
                                  /\ start = LastOf(SubSeq(s, 1, at), "LF")
                                  /\ end = at - 1 + FirstOf(From(s, at), "LF")
                                  /\ a = st.current
    OBVIOUS
<1>2. PICK n \in Nat, k \in Nat, l \in Nat : n = Len(y) /\ k = Len(m) /\ l = Len(Boundary)
    BY BoundaryTyped
<1>3. at = memmem(s, 1, Boundary) /\ a \in Seq(Byte)
    BY <1>1 DEF Parser
<1>4. /\ at = n + 5 /\ LastOf(SubSeq(s, 1, at), "LF") = n + 2 /\ FirstOf(From(s, at), "LF") = l + k + 1
      /\ From(s, (n + 4 + l) + k + 1) = Cons("LF", z) /\ SubSeq(s, 1, n + 1) = y \o <<"CR">>
    BY <1>1, <1>2, <1>3, BodySearch
<1>5. start = n + 2 /\ end = at - 1 + (l + k + 1)
    BY <1>1, <1>4
<1>6. at # 0 /\ start # 0 /\ ~(end < at) /\ start - 1 = n + 1 /\ end = (n + 4 + l) + k + 1
    BY <1>2, <1>4, <1>5
<1>7. PICK c \in Seq(Byte) : c = <<"CR">>
    BY FormBytesTyped
<1>7a. PICK f, g : f = a \o y /\ g = f \o c
    OBVIOUS
<1>8. f \in Seq(Byte) /\ g \in Seq(Byte) /\ Assoc(a, y, c) /\ Len(g) = Len(f) + Len(c) /\ Len(f) \in Nat
    BY <1>3, <1>7, <1>7a, ConcatBytes, ConcatAssoc, ConcatLen
<1>9. a \o SubSeq(s, 1, start - 1) = g
    BY <1>4, <1>6, <1>7, <1>7a, <1>8 DEF Assoc
<1>10. Len(c) = 1
    BY <1>7, <1>7a
<1>11. Len(g) - 1 = Len(f) /\ Len(g) # 0
    BY <1>8, <1>10
<1>12. g # <<>>
    BY <1>8, <1>11, EmptySeq
<1>13. FileContent(g) = f
    <2>1. SubSeq(f \o c, 1, Len(f)) = f
        BY <1>8, PartsOf
    <2> QED
        BY <1>7, <1>7a, <1>11, <2>1 DEF FileContent, Front
<1>14. FileBody(st, s) = Parsed(Ended(st, FileContent(g)), From(s, end))
    BY <1>1, <1>6, <1>9, <1>12 DEF FileBody, Ended
<1> QED
    BY <1>1, <1>4, <1>6, <1>7, <1>7a, <1>13, <1>14

(* Content without the boundary is kept.                                   *)
LEMMA BodyGoesOn ==
    ASSUME NEW st, Parser(st), NEW s \in Seq(Byte), Lacks(st.current \o s)
    PROVE  FileBody(st, s) = Parsed([st EXCEPT !.current = st.current \o s], <<>>)
<1>1. PICK a \in Seq(Byte) : a = st.current
    BY DEF Parser
<1>1a. PICK w : w = a \o s
    OBVIOUS
<1>2. w \in Seq(Byte) /\ Lacks(w) /\ Lacks(s)
    BY <1>1, <1>1a, ConcatBytes, LacksParts
<1>3. memmem(w, 1, Boundary) = 0 /\ memmem(s, 1, Boundary) = 0
    BY <1>2, LacksIs
<1>4. memmem(w, 1, st.boundary) = 0 /\ memmem(s, 1, st.boundary) = 0
    BY <1>1, <1>1a, <1>3 DEF Parser
<1> QED
    BY <1>1, <1>1a, <1>4 DEF FileBody

(* What follows the boundary line before part k + 1, with the header line  *)
(* that is taken for a part of it.                                         *)
Rest(G, ps, k) == IF k = Len(ps) THEN <<>> ELSE G[k + 1][Skip(k + 1)]

(* The bytes of a header line before its end.                              *)
LEMMA HeaderLineBytes ==
    ASSUME NEW h \in Line, ClearLine(h), NEW z \in Seq(Byte)
    PROVE  \E x \in Seq(Byte) : Without(x, "CR") /\ Without(x, "LF") /\ Header(h, z) = x \o LineEnd(z)
<1>1. PICK k \in Seq(Byte), v \in Seq(Byte), e \in Seq(Byte) : k = h.key /\ v = h.value /\ e = LineEnd(z)
    BY LineEndIs, EmptyBytes DEF Line
<1>2. Without(k, "CR") /\ Without(k, "LF") /\ Without(v, "CR") /\ Without(v, "LF")
    <2>1. DOMAIN k = 1 .. Len(k) /\ DOMAIN v = 1 .. Len(v)
        OBVIOUS
    <2>2. Clear(k) /\ Clear(v)
        BY <1>1 DEF ClearLine
    <2> QED
        BY <2>1, <2>2 DEF Clear, Without
<1>3. PICK c \in Seq(Byte), b \in Seq(Byte) : c = <<":">> /\ b = <<" ">>
    BY FormBytesTyped
<1>4. Without(c, "CR") /\ Without(c, "LF") /\ Without(b, "CR") /\ Without(b, "LF")
    <2>1. \A s, d : Len(s) = 1 /\ s[1] # d => Without(s, d)
        BY DEF Without
    <2>2. Len(c) = 1 /\ c[1] = ":" /\ Len(b) = 1 /\ b[1] = " "
        BY <1>3
    <2> QED
        BY <2>1, <2>2
<1>5. PICK bv, cbv, x, ve, bve : bv = b \o v /\ cbv = c \o bv /\ x = k \o cbv /\ ve = v \o e /\ bve = b \o ve
    OBVIOUS
<1>6. bv \in Seq(Byte) /\ cbv \in Seq(Byte) /\ x \in Seq(Byte) /\ ve \in Seq(Byte) /\ bve \in Seq(Byte)
    BY <1>5, ConcatBytes
<1>7. Assoc(b, v, e) /\ Assoc(c, bv, e) /\ Assoc(k, cbv, e)
    BY <1>6, ConcatAssoc
<1>8. x \o e = k \o (c \o bve)
    BY <1>5, <1>7 DEF Assoc
<1>9. Header(h, z) = k \o (c \o bve)
    BY <1>1, <1>3, <1>5 DEF Header, Cons
<1>10. ASSUME NEW d, Without(k, d), Without(v, d), Without(c, d), Without(b, d) PROVE Without(x, d)
    <2>1. Without(bv, d)
        BY <1>5, <1>10, WithoutParts
    <2>2. Without(cbv, d)
        BY <1>5, <1>6, <1>10, <2>1, WithoutParts
    <2> QED
        BY <1>5, <1>6, <1>10, <2>2, WithoutParts
<1> QED
    BY <1>1, <1>2, <1>4, <1>6, <1>8, <1>9, <1>10

(* The boundary line before part k + 1: m up to its LF, and then t, of     *)
(* which the parser takes a header line for a part of the boundary line.   *)
BoundaryLine(P, G, ps, k, m, t) ==
    /\ m \in Seq(Byte) /\ t \in Seq(Byte) /\ Without(m, "LF")
    /\ P[k] = Bound(m \o Cons("LF", t))
    /\ Rest(G, ps, k) \in Seq(Byte)
    /\ \/ k = Len(ps) /\ t = <<>>
       \/ k = 0 /\ t = Rest(G, ps, k) /\ Len(m) = 1
       \/ /\ k # 0 /\ k # Len(ps)
          /\ \E x \in Seq(Byte) : Without(x, "CR") /\ Without(x, "LF") /\ t = x \o LineEnd(Rest(G, ps, k))

(* Every boundary line is of this kind.                                    *)
LEMMA BoundaryLines ==
    ASSUME NEW P, NEW G, NEW ps, IsForm(P, G, ps), Clean(ps), NEW k \in 0 .. Len(ps)
    PROVE  \E m, t : BoundaryLine(P, G, ps, k, m, t)
<1>1. Len(ps) \in Nat /\ Len(ps) # 0
    BY DEF IsForm, Clean
<1>2. CASE k = Len(ps)
    <2>1. PICK d \in Seq(Byte), c \in Seq(Byte), l \in Seq(Byte) : d = <<"-">> /\ c = <<"CR">> /\ l = <<"LF">>
        BY FormBytesTyped
    <2>2. PICK t \in Seq(Byte) : t = <<>>
        BY FormBytesTyped
    <2>2a. PICK ll : ll = l \o t
        OBVIOUS
    <2>3. PICK dd, m, cl : dd = d \o d /\ m = dd \o c /\ cl = c \o ll
        OBVIOUS
    <2>4. dd \in Seq(Byte) /\ m \in Seq(Byte) /\ ll \in Seq(Byte) /\ cl \in Seq(Byte)
        BY <2>2, <2>2a, <2>3, ConcatBytes
    <2>5. Assoc(dd, c, ll) /\ Assoc(d, d, cl)
        BY <2>4, ConcatAssoc
    <2>6. m \o ll = d \o (d \o cl)
        BY <2>3, <2>5 DEF Assoc
    <2>7. LastLine = Bound(d \o (d \o cl))
        BY <2>1, <2>2, <2>2a, <2>3 DEF LastLine, LineEnd, Cons
    <2>8. P[k] = Bound(m \o Cons("LF", t))
        BY <1>2, <2>1, <2>2, <2>2a, <2>6, <2>7 DEF IsForm, Cons
    <2>9. Without(m, "LF")
        <3>1. Without(dd, "LF") /\ Without(c, "LF")
            BY <2>1, <2>3, BoundaryBytes, FormBytesTyped
        <3> QED
            BY <2>3, <2>4, <3>1, WithoutParts
    <2>10. Rest(G, ps, k) = t
        BY <1>2, <2>2, <2>2a DEF Rest
    <2>11. BoundaryLine(P, G, ps, k, m, t)
        BY <1>2, <2>2, <2>2a, <2>4, <2>8, <2>9, <2>10 DEF BoundaryLine
    <2> QED
        BY <2>11
<1>3. CASE k # Len(ps)
    <2>1. k + 1 \in 1 .. Len(ps) /\ (k + 1) - 1 = k
        BY <1>1, <1>3
    <2>2. FormAt(P, G, ps, k + 1)
        BY <2>1, FormParts
    <2>3. PICK h, z, w : h = ps[k + 1].head /\ z = ps[k + 1].content \o LineEnd(P[k + 1]) /\ w = G[k + 1]
        OBVIOUS
    <2>4. h \in Seq(Line) /\ Len(h) \in Nat /\ IsHeads(w, h, z) /\ P[k] = Bound(LineEnd(w[0]))
        BY <2>1, <2>2, <2>3 DEF FormAt
    <2>5. w \in [0 .. Len(h) -> Seq(Byte)]
        BY <2>4 DEF IsHeads
    <2>6. PICK t, m : t = w[0] /\ m = <<"CR">>
        OBVIOUS
    <2>7. t \in Seq(Byte) /\ m \in Seq(Byte)
        <3>1. 0 \in 0 .. Len(h)
            BY <2>4
        <3>2. m \in Seq(Byte)
            BY <2>6, FormBytesTyped
        <3> QED
            BY <2>5, <2>6, <3>1, <3>2
    <2>8. P[k] = Bound(m \o Cons("LF", t)) /\ Without(m, "LF")
        BY <2>4, <2>6, BoundaryBytes DEF LineEnd, Cons
    <2>9. Len(m) = 1
        BY <2>6
    <2>10. CASE k = 0
        <3>1. Rest(G, ps, k) = t
            BY <1>3, <2>3, <2>6, <2>10 DEF Rest, Skip
        <3>2. BoundaryLine(P, G, ps, k, m, t)
            BY <2>7, <2>8, <2>9, <2>10, <3>1 DEF BoundaryLine
        <3> QED
            BY <3>2
    <2>11. CASE k # 0
        <3>1. k + 1 # 1
            BY <2>11
        <3>2. Len(h) # 0 /\ \A j \in 1 .. Len(h) : ClearLine(h[j])
            BY <2>1, <2>3, <3>1 DEF Clean
        <3>3. 1 \in 1 .. Len(h) /\ 1 \in 0 .. Len(h) /\ 1 - 1 = 0
            BY <2>4, <3>2
        <3>4. PICK l, r : l = h[1] /\ r = w[1]
            OBVIOUS
        <3>5. l \in Line /\ r \in Seq(Byte) /\ ClearLine(l)
            BY <2>4, <2>5, <3>2, <3>3, <3>4
        <3>6. t = Header(l, r)
            BY <2>4, <2>6, <3>3, <3>4 DEF IsHeads
        <3>7. Rest(G, ps, k) = r
            BY <1>3, <2>3, <3>1, <3>4 DEF Rest, Skip
        <3>8. PICK x \in Seq(Byte) : Without(x, "CR") /\ Without(x, "LF") /\ t = x \o LineEnd(r)
            BY <3>5, <3>6, HeaderLineBytes
        <3>9. BoundaryLine(P, G, ps, k, m, t)
            BY <1>3, <2>7, <2>8, <2>11, <3>5, <3>7, <3>8 DEF BoundaryLine
        <3> QED
            BY <3>9
    <2> QED
        BY <2>10, <2>11
<1> QED
    BY <1>2, <1>3

(* A read ends outside of every boundary line when r is to come after it:  *)
(* before the line end in front of it, or behind it.                       *)
CutOk(P, G, ps, r) ==
    \A k \in 0 .. Len(ps) : \/ Len(r) >= Len(P[k]) + (IF k = 0 THEN 0 ELSE 2)
                            \/ Len(r) <= Len(Rest(G, ps, k))

(* A round takes bytes of a, after which r is to come.                     *)
Goes(q, ps, P, G, a, r) ==
    /\ q.left \in Seq(Byte) /\ Len(q.left) < Len(a)
    /\ Place(q.st, ps, P, G, q.left \o r)

(* What a round has to be for that.                                        *)
LEMMA GoesTo ==
    ASSUME NEW P, NEW G, NEW ps, NEW a, NEW r, NEW q, NEW y \in Seq(Byte), Len(y) < Len(a),
           Place(q, ps, P, G, y \o r)
    PROVE  Goes(Parsed(q, y), ps, P, G, a, r)
<1>1. PICK p : p = Parsed(q, y)
    OBVIOUS
<1>2. p.st = q /\ p.left = y
    BY <1>1 DEF Parsed
<1> QED
    BY <1>1, <1>2 DEF Goes

(* So it is in a header.                                                   *)
LEMMA HeaderStep ==
    ASSUME NEW P, NEW G, NEW ps, IsForm(P, G, ps), Clean(ps), NEW st, Parser(st),
           NEW k \in 1 .. Len(ps), NEW j \in Nat, NEW a \in Seq(Byte), NEW r \in Seq(Byte), a # <<>>,
           InHeader(st, ps, P, G, k, j, a \o r)
    PROVE  Goes(Parsed(FileHeader(st, Head(a)), Tail(a)), ps, P, G, a, r)
<1>1. PICK c \in Byte, y \in Seq(Byte) : a = Cons(c, y)
    BY FirstByte
<1>2. IsCons(a, c, y)
    BY <1>1, HeadAndTail
<1>3. Head(a) = c /\ Tail(a) = y /\ Len(y) < Len(a)
    BY <1>2 DEF IsCons
<1>4. PICK v \in Seq(Byte) : v = y \o r
    BY ConcatBytes
<1>5. a \o r = Cons(c, v)
    BY <1>1, <1>4, ConsConcat
<1>6. Place(FileHeader(st, c), ps, P, G, v)
    BY <1>5, HeaderByte
<1> QED
    BY <1>3, <1>4, <1>6, GoesTo

(* In a boundary line.                                                     *)
LEMMA BoundaryStep ==
    ASSUME NEW P, NEW G, NEW ps, IsForm(P, G, ps), Clean(ps), NEW st, Parser(st),
           NEW k \in 0 .. Len(ps) - 1, NEW a \in Seq(Byte), NEW r \in Seq(Byte), a # <<>>,
           CutOk(P, G, ps, r), AtBoundary(st, ps, P, G, k, a \o r)
    PROVE  Goes(Barrier(st, a), ps, P, G, a, r)
<1>1. Len(ps) \in Nat /\ k \in 0 .. Len(ps) /\ k # Len(ps) /\ k + 1 \in 1 .. Len(ps) /\ k \in Nat /\ (k + 1) - 1 = k
    BY DEF IsForm
<1>2. PICK t, f : t = Rest(G, ps, k) /\ f = G[k + 1]
    OBVIOUS
<1>3. t = f[Skip(k + 1)]
    BY <1>1, <1>2 DEF Rest
<1>4. FormAt(P, G, ps, k + 1)
    BY <1>1, FormParts
<1>5. PICK h : h = ps[k + 1].head
    OBVIOUS
<1>6. /\ h \in Seq(Line) /\ Len(h) \in Nat /\ f \in [0 .. Len(h) -> Seq(Byte)]
      /\ P[k] \in Seq(Byte)
    BY <1>1, <1>2, <1>4, <1>5 DEF FormAt, IsHeads
<1>7. PICK j : j = Skip(k + 1)
    OBVIOUS
<1>8. j \in Nat /\ j <= Len(h) /\ j \in 0 .. Len(h)
    <2>1. CASE k + 1 = 1
        BY <1>6, <1>7, <2>1 DEF Skip
    <2>2. CASE k + 1 # 1
        <3>1. Len(h) # 0
            BY <1>1, <1>5, <2>2 DEF Clean
        <3>2. j = 1
            BY <1>7, <2>2 DEF Skip
        <3> QED
            BY <1>6, <3>1, <3>2
    <2> QED
        BY <2>1, <2>2
<1>9. t \in Seq(Byte)
    BY <1>3, <1>6, <1>7, <1>8
<1>10. /\ st.status = "barrier" /\ st.current = <<>> /\ DOMAIN st.files = 1 .. k /\ Filled(st.files, ps, k)
       /\ Len(a \o r) <= Len(P[k])
    BY DEF AtBoundary
<1>11. PICK x \in Seq(Byte) : Without(x, "CR") /\ a \o r = x \o LineEnd(t)
    BY <1>2, <1>3 DEF AtBoundary
<1>12. Len(r) <= Len(t)
    <2>1. Len(a \o r) = Len(a) + Len(r) /\ Len(a) \in Nat /\ Len(r) \in Nat /\ Len(a) # 0 /\ Len(P[k]) \in Nat
        BY <1>6, ConcatLen, EmptySeq
    <2>2. PICK d \in Nat : d = IF k = 0 THEN 0 ELSE 2
        OBVIOUS
    <2>3. ~(Len(r) >= Len(P[k]) + d)
        BY <1>10, <2>1
    <2> QED
        BY <1>1, <1>2, <2>2, <2>3 DEF CutOk
<1>13. PICK e \in Seq(Byte) : e = CRLF
    BY LineEndBytes
<1>13a. PICK xe : xe = x \o e
    OBVIOUS
<1>14. xe \in Seq(Byte) /\ Assoc(x, e, t) /\ Len(xe) = Len(x) + 2 /\ Len(x) \in Nat
    <2>1. x \o e \in Seq(Byte) /\ Len(x \o e) = Len(x) + Len(e) /\ Len(x) \in Nat
        BY ConcatBytes, ConcatLen
    <2>2. Assoc(x, e, t)
        BY <1>9, ConcatAssoc
    <2>3. Len(e) = 2
        BY <1>13, LineEndBytes
    <2> QED
        BY <1>13a, <2>1, <2>2, <2>3, Zenon
<1>15. a \o r = xe \o t
    BY <1>9, <1>11, <1>13, <1>13a, <1>14, LineEndIs DEF Assoc
<1>16. PICK y \in Seq(Byte) : a = xe \o y /\ t = y \o r
    <2>1. xe \in Seq(Byte)
        BY <1>14
    <2>2. Apart(a, r, xe, t)
        BY <1>12, <1>15 DEF Apart
    <2>3. Covered(a, r, xe, t)
        BY <1>9, <2>1, <2>2, Covers
    <2> QED
        BY <2>3 DEF Covered
<1>17. a = x \o LineEnd(y)
    <2>1. Assoc(x, e, y)
        BY ConcatAssoc
    <2> QED
        BY <1>13, <1>13a, <1>16, <2>1, LineEndIs DEF Assoc
<1>18. PICK q, g : g = Append(st.files, NewFile) /\ q = [st EXCEPT !.status = "fheader", !.files = g]
    OBVIOUS
<1>19. Barrier(st, a) = Parsed(q, y)
    BY <1>11, <1>17, <1>18, BarrierPasses
<1>20. /\ DOMAIN q = DOMAIN st /\ q.status = "fheader" /\ q.files = g /\ q.current = <<>>
       /\ q.boundary = st.boundary
    BY <1>10, <1>18 DEF Parser
<1>21. Parser(q)
    BY <1>20, EmptyBytes DEF Parser
<1>22. Filling(g, ps, k + 1, j)
    BY <1>1, <1>5, <1>6, <1>7, <1>10, <1>18, FileOpened
<1>23. InHeader(q, ps, P, G, k + 1, j, G[k + 1][j])
    BY <1>4, <1>5, <1>7, <1>8, <1>20, <1>22, HeaderStarts, SMTT(30)
<1>24. Place(q, ps, P, G, y \o r)
    <2>1. y \o r = G[k + 1][j]
        BY <1>2, <1>3, <1>7, <1>16
    <2>2. InHeader(q, ps, P, G, k + 1, j, y \o r)
        BY <1>23, <2>1
    <2> QED
        BY <1>1, <1>8, <1>9, <1>16, <1>21, <2>2 DEF Place
<1>25. Len(y) < Len(a)
    <2>1. Len(a) = Len(xe) + Len(y) /\ Len(y) \in Nat
        BY <1>14, <1>16, ConcatLen
    <2> QED
        BY <1>14, <2>1
<1> QED
    BY <1>19, <1>24, <1>25, GoesTo

(* After the last boundary.                                                *)
LEMMA LastStep ==
    ASSUME NEW P, NEW G, NEW ps, NEW st, Parser(st), NEW a \in Seq(Byte), NEW r \in Seq(Byte), a # <<>>,
           AtLast(st, ps, a \o r)
    PROVE  Goes(Barrier(st, a), ps, P, G, a, r)
<1>1. Len(a \o r) = Len(a) + Len(r) /\ Len(a) \in Nat /\ Len(r) \in Nat /\ Len(a) # 0 /\ a \o r \in Seq(Byte)
    BY ConcatLen, ConcatBytes, EmptySeq
<1>2. a \o r # <<>>
    <2>1. Len(a \o r) # 0
        BY <1>1
    <2> QED
        BY <1>1, <2>1, EmptySeq
<1>3. PICK lf \in Byte : lf = "LF"
    BY ByteNames
<1>4. PICK n \in Seq(Byte) : n = <<>>
    BY FormBytesTyped
<1>4a. PICK w : w = Cons(lf, n)
    OBVIOUS
<1>5. a \o r = w
    BY <1>2, <1>3, <1>4, <1>4a DEF AtLast
<1>6. Len(w) = 1
    <2>1. IsCons(w, lf, n) /\ Len(n) = 0
        BY <1>4, <1>4a, HeadAndTail
    <2> QED
        BY <2>1 DEF IsCons
<1>7. Len(r) = 0 /\ Len(a) = 1
    BY <1>1, <1>5, <1>6
<1>8. r = <<>> /\ a = w
    <2>1. r = <<>>
        BY <1>7, EmptySeq
    <2> QED
        BY <1>5, <2>1, EmptyBytes
<1>9. FirstOf(a, "CR") = 0
    <2>1. PICK cr \in Byte : cr = "CR"
        BY ByteNames
    <2>2. w = <<"LF">>
        <3>1. <<lf>> \in Seq(Byte)
            BY ByteLists
        <3> QED
            BY <1>3, <1>4, <1>4a, <3>1, EmptyBytes DEF Cons
    <2>3. Without(a, cr)
        BY <1>8, <2>1, <2>2, BoundaryBytes
    <2>4. memmem(a, 1, <<cr>>) = 0
        BY <2>3, FindsNone DEF Without
    <2> QED
        BY <2>1, <2>4 DEF FirstOf
<1>10. Barrier(st, a) = Parsed(st, <<>>)
    BY <1>9 DEF Barrier
<1>11. <<>> \o r = <<>> /\ <<>> \in Seq(Byte) /\ Len(<<>>) = 0
    BY <1>8, EmptyBytes
<1>12. AtLast(st, ps, <<>>)
    BY DEF AtLast
<1>13. Place(st, ps, P, G, <<>>)
    BY <1>11, <1>12 DEF Place
<1> QED
    <2>1. Len(<<>>) < Len(a)
        BY <1>7, <1>11
    <2> QED
        BY <1>10, <1>11, <1>13, <2>1, GoesTo

(* The content of a part goes on.                                          *)
LEMMA ContentGoesOn ==
    ASSUME NEW P, NEW G, NEW ps, IsForm(P, G, ps), Clean(ps), NEW st, Parser(st),
           NEW k \in 1 .. Len(ps), NEW a \in Seq(Byte), NEW r \in Seq(Byte), a # <<>>,
           InContent(st, ps, P, k, a \o r), Len(r) >= Len(P[k]) + 2
    PROVE  Goes(FileBody(st, a), ps, P, G, a, r)
<1>1. FormAt(P, G, ps, k)
    BY FormParts
<1>2. PICK c, l, b : c = ps[k].content /\ l = LineEnd(P[k]) /\ b = st.current
    OBVIOUS
<1>3. c \in Seq(Byte) /\ l \in Seq(Byte) /\ Len(l) = Len(P[k]) + 2 /\ b \in Seq(Byte) /\ Lacks(c)
    BY <1>1, <1>2, LineEndIs DEF FormAt, Parser, Clean
<1>4. PICK y \in Seq(Byte) : c = b \o y /\ a \o r = y \o l
    BY <1>2 DEF InContent
<1>5. PICK w \in Seq(Byte) : y = a \o w /\ r = w \o l
    <2>1. Len(l) <= Len(r)
        BY <1>3
    <2>2. Apart(y, l, a, r)
        BY <1>4, <2>1 DEF Apart
    <2>3. Covered(y, l, a, r)
        BY <1>3, <2>2, Covers
    <2> QED
        BY <2>3 DEF Covered
<1>6. PICK d : d = b \o a
    OBVIOUS
<1>7. d \in Seq(Byte) /\ Assoc(b, a, w)
    BY <1>3, <1>6, ConcatBytes, ConcatAssoc
<1>8. c = d \o w
    BY <1>4, <1>5, <1>6, <1>7 DEF Assoc
<1>9. Lacks(d)
    BY <1>3, <1>7, <1>8, LacksParts
<1>10. PICK q : q = [st EXCEPT !.current = d]
    OBVIOUS
<1>11. FileBody(st, a) = Parsed(q, <<>>)
    BY <1>2, <1>6, <1>9, <1>10, BodyGoesOn
<1>12. /\ DOMAIN q = DOMAIN st /\ q.status = st.status /\ q.files = st.files /\ q.current = d
       /\ q.boundary = st.boundary
    BY <1>10 DEF Parser
<1>13. Parser(q)
    BY <1>7, <1>12 DEF Parser
<1>14. InContent(q, ps, P, k, r)
    BY <1>2, <1>5, <1>8, <1>12 DEF InContent
<1>15. <<>> \o r = r /\ <<>> \in Seq(Byte) /\ Len(<<>>) = 0 /\ Len(a) \in Nat /\ Len(a) # 0
    BY EmptyBytes, EmptySeq
<1>16. Place(q, ps, P, G, <<>> \o r)
    BY <1>13, <1>14, <1>15 DEF Place
<1>17. 0 < Len(a)
    BY <1>15
<1> QED
    BY <1>11, <1>15, <1>16, <1>17, GoesTo

(* The buffer a holds the boundary line after y, and z after it.           *)
Holds(a, r, y, m, t) ==
    \E z \in Seq(Byte) : a = Around(y, m, z) /\ t = z \o r /\ Len(Cons("LF", z)) < Len(a)

(* So it does unless it ends in the line.                                  *)
LEMMA BoundaryInBuffer ==
    ASSUME NEW a \in Seq(Byte), NEW r \in Seq(Byte), NEW y \in Seq(Byte), NEW m \in Seq(Byte),
           NEW t \in Seq(Byte), a \o r = Around(y, m, t), Len(r) <= Len(t)
    PROVE  Holds(a, r, y, m, t)
<1>1. PICK p, w : IsAround(a \o r, y, m, t, p, w)
    BY AroundIs
<1>2. PICK lf \in Byte : lf = "LF"
    BY ByteNames
<1>2a. PICK l, pm : l = <<lf>> /\ pm = (p \o Boundary) \o m
    OBVIOUS
<1>3. l \in Seq(Byte) /\ pm \in Seq(Byte) /\ a \o r = pm \o Cons(lf, t)
    BY <1>1, <1>2, <1>2a, ByteLists DEF IsAround
<1>4. PICK pl : pl = pm \o l
    OBVIOUS
<1>5. pl \in Seq(Byte) /\ Assoc(pm, l, t)
    BY <1>3, <1>4, ConcatBytes, ConcatAssoc
<1>6. a \o r = pl \o t
    BY <1>2, <1>2a, <1>3, <1>4, <1>5 DEF Assoc, Cons
<1>7. PICK z \in Seq(Byte) : a = pl \o z /\ t = z \o r
    <2>1. pl \in Seq(Byte)
        BY <1>5
    <2>2. Apart(a, r, pl, t)
        BY <1>6 DEF Apart
    <2>3. Covered(a, r, pl, t)
        BY <2>1, <2>2, Covers
    <2> QED
        BY <2>3 DEF Covered
<1>8. PICK p1, w1 : IsAround(Around(y, m, z), y, m, z, p1, w1)
    BY AroundIs
<1>9. p1 = p
    BY <1>1, <1>8 DEF IsAround
<1>10. Around(y, m, z) = pm \o Cons(lf, z)
    BY <1>2, <1>2a, <1>8, <1>9 DEF IsAround
<1>11. Assoc(pm, l, z)
    BY <1>3, ConcatAssoc
<1>12. a = Around(y, m, z)
    BY <1>2, <1>2a, <1>4, <1>7, <1>10, <1>11 DEF Assoc, Cons
<1>13. Len(Cons(lf, z)) < Len(a)
    <2>1. PICK n \in Nat, i \in Nat, j \in Nat : n = Len(y) /\ i = Len(m) /\ j = Len(Boundary)
        BY BoundaryTyped
    <2>2. Len(pm) = (n + 4 + j) + i
        BY <1>1, <1>2, <1>2a, <2>1 DEF IsAround
    <2>3. PICK v \in Seq(Byte) : v = Cons(lf, z)
        BY ConsBytes
    <2>4. a = pm \o v
        BY <1>10, <1>12, <2>3
    <2>5. Len(a) = Len(pm) + Len(v) /\ Len(v) \in Nat
        BY <1>3, <2>4, ConcatLen
    <2>6. Len(v) < Len(a)
        BY <2>1, <2>2, <2>5
    <2> QED
        BY <2>3, <2>6
<1>14. Len(Cons("LF", z)) < Len(a)
    BY <1>2, <1>2a, <1>13
<1> QED
    BY <1>7, <1>12, <1>14 DEF Holds

(* The content of a part ends.                                             *)
LEMMA ContentEnds ==
    ASSUME NEW P, NEW G, NEW ps, IsForm(P, G, ps), Clean(ps), NEW st, Parser(st),
           NEW k \in 1 .. Len(ps), NEW a \in Seq(Byte), NEW r \in Seq(Byte), a # <<>>,
           InContent(st, ps, P, k, a \o r), Len(r) <= Len(Rest(G, ps, k))
    PROVE  Goes(FileBody(st, a), ps, P, G, a, r)
<1>1. FormAt(P, G, ps, k)
    BY FormParts
<1>2. PICK c, b : c = ps[k].content /\ b = st.current
    OBVIOUS
<1>3. /\ c \in Seq(Byte) /\ b \in Seq(Byte) /\ Lacks(c) /\ k \in Nat /\ k # 0
      /\ k \in 0 .. Len(ps) /\ Len(ps) \in Nat
    BY <1>1, <1>2 DEF FormAt, Parser, Clean, IsForm
<1>4. PICK y \in Seq(Byte) : c = b \o y /\ a \o r = y \o LineEnd(P[k])
    BY <1>2 DEF InContent
<1>5. PICK m, t : BoundaryLine(P, G, ps, k, m, t)
    BY <1>3, BoundaryLines
<1>6. PICK lf \in Byte : lf = "LF"
    BY ByteNames
<1>6a. PICK u : u = Rest(G, ps, k)
    OBVIOUS
<1>7. /\ m \in Seq(Byte) /\ t \in Seq(Byte) /\ Without(m, "LF") /\ u \in Seq(Byte)
      /\ P[k] = Bound(m \o Cons(lf, t))
    BY <1>5, <1>6, <1>6a DEF BoundaryLine
<1>8. \/ k = Len(ps) /\ t = <<>> /\ u = <<>>
      \/ /\ k # Len(ps)
         /\ \E x \in Seq(Byte) : Without(x, "CR") /\ t = x \o LineEnd(u)
    BY <1>3, <1>5, <1>6, <1>6a DEF BoundaryLine, Rest
<1>9. Len(u) <= Len(t)
    <2>1. CASE t = <<>> /\ u = <<>>
        BY <2>1
    <2>2. ASSUME NEW x \in Seq(Byte), t = x \o LineEnd(u) PROVE Len(u) <= Len(t)
        <3>1. PICK e \in Seq(Byte) : e = LineEnd(u)
            BY <1>7, LineEndIs
        <3>2. Len(e) = Len(u) + 2 /\ Len(t) = Len(x) + Len(e) /\ Len(x) \in Nat /\ Len(u) \in Nat
            BY <1>7, <2>2, <3>1, LineEndIs, ConcatLen
        <3> QED
            BY <3>2
    <2> QED
        BY <1>8, <2>1, <2>2
<1>10. a \o r = Around(y, m, t)
    BY <1>4, <1>6, <1>6a, <1>7 DEF Around
<1>11. Len(r) <= Len(t)
    <2>1. Len(r) \in Nat /\ Len(u) \in Nat /\ Len(t) \in Nat /\ Len(r) <= Len(u)
        BY <1>6, <1>6a, <1>7
    <2> QED
        BY <1>9, <2>1
<1>12. PICK z \in Seq(Byte) : a = Around(y, m, z) /\ t = z \o r /\ Len(Cons(lf, z)) < Len(a)
    <2>1. Holds(a, r, y, m, t)
        BY <1>7, <1>10, <1>11, BoundaryInBuffer
    <2> QED
        BY <1>6, <1>6a, <2>1 DEF Holds
<1>13. Lacks(y)
    BY <1>3, <1>4, LacksParts
<1>14. PICK q, g : /\ g = [st.files EXCEPT ![LastFile(st)].content = c]
                   /\ q = Ended(st, c)
    OBVIOUS
<1>15. FileBody(st, a) = Parsed(q, Cons(lf, z))
    <2>1. FileBody(st, Around(y, m, z)) = Parsed(Ended(st, st.current \o y), Cons("LF", z))
        BY <1>7, <1>13, BodyEnds
    <2> QED
        BY <1>2, <1>4, <1>6, <1>6a, <1>12, <1>14, <2>1
<1>16. /\ DOMAIN q = DOMAIN st /\ q.status = "barrier" /\ q.files = g /\ q.current = <<>>
       /\ q.boundary = st.boundary
    BY <1>14 DEF Parser, Ended
<1>17. Parser(q)
    BY <1>16, EmptyBytes DEF Parser
<1>18. LastFile(st) = k /\ Filling(st.files, ps, k, Len(ps[k].head))
    BY <1>3, LengthOfFiles DEF Filling, LastFile, InContent
<1>19. DOMAIN g = 1 .. k /\ Filled(g, ps, k)
    <2>1. PICK f : f = st.files
        OBVIOUS
    <2>2. g = [f EXCEPT ![k].content = ps[k].content]
        BY <1>2, <1>14, <1>18, <2>1
    <2> QED
        <3>1. Filling(f, ps, k, Len(ps[k].head))
            BY <1>18, <2>1
        <3> QED
            BY <1>3, <2>2, <3>1, FileClosed, ZenonT(30)
<1>20. PICK v : v = Cons(lf, t)
    OBVIOUS
<1>21. v \in Seq(Byte) /\ Len(v) = Len(t) + 1 /\ Len(t) \in Nat /\ Cons(lf, z) \in Seq(Byte)
    BY <1>7, <1>20, HeadAndTail DEF IsCons
<1>22. Cons(lf, z) \o r = v
    BY <1>12, <1>20, ConsConcat
<1>23. CASE k = Len(ps) /\ t = <<>>
    <2>1. AtLast(q, ps, v)
        BY <1>6, <1>6a, <1>16, <1>19, <1>20, <1>23 DEF AtLast
    <2>2. Place(q, ps, P, G, v)
        BY <1>17, <1>21, <2>1 DEF Place
    <2> QED
        BY <1>12, <1>15, <1>21, <1>22, <2>2, GoesTo
<1>24. ASSUME k # Len(ps), NEW x \in Seq(Byte), Without(x, "CR"), t = x \o LineEnd(u)
       PROVE  Goes(FileBody(st, a), ps, P, G, a, r)
    <2>1. PICK e \in Seq(Byte) : e = LineEnd(u)
        BY <1>7, LineEndIs
    <2>1a. PICK lx : lx = Cons(lf, x)
        OBVIOUS
    <2>2. lx \in Seq(Byte) /\ lx \o e = v
        BY <1>20, <1>24, <2>1, <2>1a, ConsConcat, ConsBytes
    <2>3. Without(lx, "CR")
        <3>1. PICK l \in Seq(Byte) : l = <<lf>>
            BY ByteLists
        <3>2. Without(l, "CR")
            BY <1>6, <1>6a, <3>1, BoundaryBytes
        <3>3. lx = l \o x
            BY <2>1, <2>1a, <3>1 DEF Cons
        <3> QED
            BY <1>24, <3>2, <3>3, WithoutParts
    <2>4. Len(v) <= Len(P[k])
        <3>1. PICK s : s = m \o v
            OBVIOUS
        <3>2. s \in Seq(Byte) /\ Len(s) = Len(m) + Len(v) /\ Len(m) \in Nat /\ Len(v) \in Nat
            BY <1>7, <1>21, <3>1, ConcatBytes, ConcatLen
        <3>3. Len(P[k]) = Len(s) + 2 + Len(Boundary) /\ Len(Boundary) \in Nat
            BY <1>7, <1>20, <3>1, <3>2, BoundIs, BoundaryTyped
        <3> QED
            BY <3>2, <3>3
    <2>5. u = G[k + 1][Skip(k + 1)] /\ k \in 0 .. Len(ps) - 1
        BY <1>3, <1>6, <1>6a, <1>24 DEF Rest
    <2>6. AtBoundary(q, ps, P, G, k, v)
        BY <1>16, <1>19, <2>1, <2>1a, <2>2, <2>3, <2>4, <2>5 DEF AtBoundary
    <2>7. Place(q, ps, P, G, v)
        BY <1>17, <1>21, <2>5, <2>6 DEF Place
    <2> QED
        BY <1>12, <1>15, <1>21, <1>22, <2>7, GoesTo
<1> QED
    BY <1>8, <1>23, <1>24

(* The content of a part.                                                  *)
LEMMA ContentStep ==
    ASSUME NEW P, NEW G, NEW ps, IsForm(P, G, ps), Clean(ps), NEW st, Parser(st),
           NEW k \in 1 .. Len(ps), NEW a \in Seq(Byte), NEW r \in Seq(Byte), a # <<>>,
           CutOk(P, G, ps, r), InContent(st, ps, P, k, a \o r)
    PROVE  Goes(FileBody(st, a), ps, P, G, a, r)
<1>1. k \in 0 .. Len(ps) /\ k # 0
    BY DEF IsForm
<1>2. Len(r) >= Len(P[k]) + 2 \/ Len(r) <= Len(Rest(G, ps, k))
    BY <1>1 DEF CutOk
<1> QED
    BY <1>2, ContentGoesOn, ContentEnds

(* A round of the parser takes bytes, and leaves it in the form.           *)
LEMMA FormRound ==
    ASSUME NEW P, NEW G, NEW ps, IsForm(P, G, ps), Clean(ps), NEW r \in Seq(Byte), CutOk(P, G, ps, r),
           NEW p, NEW st, NEW a \in Seq(Byte), p.st = st, p.left = a, a # <<>>, Place(st, ps, P, G, a \o r)
    PROVE  Goes(ParseRound(p), ps, P, G, a, r)
<1>1. Parser(st)
    BY DEF Place
<1>3. ASSUME NEW k \in 1 .. Len(ps), NEW j \in Nat, InHeader(st, ps, P, G, k, j, a \o r)
      PROVE  Goes(ParseRound(p), ps, P, G, a, r)
    <2>1. st.status = "fheader"
        BY <1>3 DEF InHeader
    <2>2. ParseRound(p) = Parsed(FileHeader(st, Head(a)), Tail(a))
        BY <2>1 DEF ParseRound
    <2>3. Goes(Parsed(FileHeader(st, Head(a)), Tail(a)), ps, P, G, a, r)
        BY <1>1, <1>3, HeaderStep
    <2> QED
        BY <2>2, <2>3
<1>4. ASSUME NEW k \in 1 .. Len(ps), InContent(st, ps, P, k, a \o r)
      PROVE  Goes(ParseRound(p), ps, P, G, a, r)
    <2>1. st.status = "fbody"
        BY <1>4 DEF InContent
    <2>2. ParseRound(p) = FileBody(st, a)
        BY <2>1 DEF ParseRound
    <2>3. Goes(FileBody(st, a), ps, P, G, a, r)
        BY <1>1, <1>4, ContentStep
    <2> QED
        BY <2>2, <2>3
<1>5. ASSUME NEW k \in 0 .. Len(ps) - 1, AtBoundary(st, ps, P, G, k, a \o r)
      PROVE  Goes(ParseRound(p), ps, P, G, a, r)
    <2>1. st.status = "barrier"
        BY <1>5 DEF AtBoundary
    <2>2. ParseRound(p) = Barrier(st, a)
        BY <2>1 DEF ParseRound
    <2>3. Goes(Barrier(st, a), ps, P, G, a, r)
        BY <1>1, <1>5, BoundaryStep
    <2> QED
        BY <2>2, <2>3
<1>6. ASSUME AtLast(st, ps, a \o r)
      PROVE  Goes(ParseRound(p), ps, P, G, a, r)
    <2>1. st.status = "barrier"
        BY <1>6 DEF AtLast
    <2>2. ParseRound(p) = Barrier(st, a)
        BY <2>1 DEF ParseRound
    <2>3. Goes(Barrier(st, a), ps, P, G, a, r)
        BY <1>1, <1>6, LastStep
    <2> QED
        BY <2>2, <2>3
<1> QED
    BY <1>3, <1>4, <1>5, <1>6 DEF Place

(* What is left after round n of N.                                        *)
RoundDone(q, ps, P, G, r, n, N) ==
    /\ q.left \in Seq(Byte) /\ Len(q.left) + n <= N
    /\ Place(q.st, ps, P, G, q.left \o r)

(* A buffer that is parsed to its end leaves the parser in the form.       *)
LEMMA FormParsed ==
    ASSUME NEW P, NEW G, NEW ps, IsForm(P, G, ps), Clean(ps), NEW r \in Seq(Byte), CutOk(P, G, ps, r),
           NEW st0, NEW input \in Seq(Byte), Place(st0, ps, P, G, input \o r)
    PROVE  Place(ParseForm(st0, input), ps, P, G, r)
<1>1. PICK N \in Nat : N = Len(input)
    BY LenProperties
<1>2. PICK f : IsParse(f, input, st0, N) /\ ParseForm(st0, input) = f[N].st
    BY <1>1, ParseExists
<1> DEFINE S == {n \in 0 .. N : RoundDone(f[n], ps, P, G, r, n, N)}
           g == [n \in 0 .. N |-> n]
<1>3. 0 \in S
    <2>1. f[0].st = st0 /\ f[0].left = input
        BY <1>2 DEF IsParse, Parsed
    <2>2. Len(input) + 0 <= N /\ 0 \in 0 .. N
        BY <1>1
    <2>3. RoundDone(f[0], ps, P, G, r, 0, N)
        BY <2>1, <2>2 DEF RoundDone
    <2> QED
        BY <2>2, <2>3
<1>4. ASSUME NEW m \in 1 .. N, m - 1 \in S PROVE m \in S
    <2>1. PICK p, q : p = f[m - 1] /\ q = f[m]
        OBVIOUS
    <2>2. q = ParseRound(p)
        BY <1>2, <2>1 DEF IsParse
    <2>3. /\ p.left \in Seq(Byte) /\ Len(p.left) + (m - 1) <= N
          /\ Place(p.st, ps, P, G, p.left \o r)
        BY <1>4, <2>1 DEF RoundDone
    <2>4. CASE p.left = <<>>
        <3>1. q = p /\ Len(p.left) = 0
            BY <2>2, <2>4 DEF ParseRound
        <3>2. Len(q.left) + m <= N
            BY <3>1
        <3>3. RoundDone(q, ps, P, G, r, m, N)
            BY <2>3, <3>1, <3>2 DEF RoundDone
        <3> QED
            BY <2>1, <3>3
    <2>5. CASE p.left # <<>>
        <3>0. PICK st, a : st = p.st /\ a = p.left
            OBVIOUS
        <3>1. Goes(q, ps, P, G, a, r)
            <4>1. a \in Seq(Byte) /\ a # <<>> /\ Place(st, ps, P, G, a \o r) /\ p.st = st /\ p.left = a
                BY <2>3, <2>5, <3>0
            <4>2. Goes(ParseRound(p), ps, P, G, a, r)
                BY <4>1, FormRound
            <4> QED
                BY <2>2, <4>2
        <3>2. Len(q.left) < Len(p.left) /\ q.left \in Seq(Byte) /\ Place(q.st, ps, P, G, q.left \o r)
            BY <3>0, <3>1 DEF Goes
        <3>3. Len(q.left) \in Nat /\ Len(p.left) \in Nat
            BY <2>3, <3>2
        <3>4. Len(q.left) + m <= N
            BY <2>3, <3>2, <3>3
        <3>5. RoundDone(q, ps, P, G, r, m, N)
            BY <3>2, <3>4 DEF RoundDone
        <3> QED
            BY <2>1, <3>5
    <2> QED
        BY <2>4, <2>5
<1>5. N \in S
    <2>1. \A n \in 0 .. N : g[n] = n
        OBVIOUS
    <2> HIDE DEF S, g
    <2>2. g[0] \in S /\ \A m \in 1 .. N : g[m - 1] \in S => g[m] \in S
        BY <1>3, <1>4, <2>1
    <2>3. \A n \in 0 .. N : g[n] \in S
        BY <2>2, StepsStay
    <2> QED
        BY <2>1, <2>3
<1>6. PICK q : q = f[N]
    OBVIOUS
<1>7. q.left \in Seq(Byte) /\ Len(q.left) + N <= N /\ Place(q.st, ps, P, G, q.left \o r)
    BY <1>5, <1>6 DEF RoundDone
<1>8. q.left = <<>>
    <2>1. Len(q.left) \in Nat
        BY <1>7
    <2>2. Len(q.left) = 0
        BY <1>7, <2>1
    <2> QED
        BY <1>7, <2>2, EmptySeq
<1>9. Place(q.st, ps, P, G, r)
    <2>1. <<>> \o r = r
        BY EmptyBytes
    <2> QED
        BY <1>7, <1>8, <2>1
<1> QED
    BY <1>2, <1>6, <1>9

(* The bytes of s end with those of t.                                     *)
EndsWith(s, t) == s \in Seq(Byte) /\ t \in Seq(Byte) /\ \E a \in Seq(Byte) : s = a \o t

(* What ends with t ends with its end.                                     *)
LEMMA EndsOfEnds == ASSUME NEW s, NEW t, NEW u, EndsWith(s, t), EndsWith(t, u) PROVE EndsWith(s, u)
<1>1. s \in Seq(Byte) /\ t \in Seq(Byte) /\ u \in Seq(Byte)
    BY DEF EndsWith
<1>2. PICK a \in Seq(Byte), b \in Seq(Byte) : s = a \o t /\ t = b \o u
    BY DEF EndsWith
<1>3. a \o b \in Seq(Byte) /\ Assoc(a, b, u)
    BY <1>1, ConcatBytes, ConcatAssoc
<1>4. s = (a \o b) \o u
    BY <1>2, <1>3 DEF Assoc
<1> QED
    BY <1>1, <1>3, <1>4 DEF EndsWith

(* Its length is not below.                                                *)
LEMMA EndsLength == ASSUME NEW s, NEW t, EndsWith(s, t) PROVE Len(s) >= Len(t) /\ Len(s) \in Nat /\ Len(t) \in Nat
<1>1. s \in Seq(Byte) /\ t \in Seq(Byte)
    BY DEF EndsWith
<1>2. PICK a \in Seq(Byte) : s = a \o t
    BY DEF EndsWith
<1>3. Len(s) = Len(a) + Len(t) /\ Len(a) \in Nat /\ Len(s) \in Nat /\ Len(t) \in Nat
    BY <1>1, <1>2, ConcatLen
<1> QED
    BY <1>3

(* What a concatenation ends with.                                         *)
LEMMA ConcatEnds == ASSUME NEW a \in Seq(Byte), NEW t \in Seq(Byte) PROVE EndsWith(a \o t, t)
BY ConcatBytes DEF EndsWith

(* Before a part are the parts before it.                                  *)
LEMMA PartEnds ==
    ASSUME NEW P, NEW G, NEW ps, NEW k, FormAt(P, G, ps, k)
    PROVE  EndsWith(P[k - 1], P[k]) /\ Len(P[k - 1]) >= Len(P[k]) + 3
<1>1. PICK h, z, w, N : h = ps[k].head /\ z = ps[k].content \o LineEnd(P[k]) /\ w = G[k] /\ N = Len(h)
    OBVIOUS
<1>2. /\ h \in Seq(Line) /\ N \in Nat /\ IsHeads(w, h, z) /\ z \in Seq(Byte) /\ P[k] \in Seq(Byte)
      /\ ps[k].content \in Seq(Byte) /\ LineEnd(P[k]) \in Seq(Byte) /\ P[k - 1] = Bound(LineEnd(w[0]))
    BY <1>1 DEF FormAt
<1>3. w \in [0 .. N -> Seq(Byte)] /\ w[N] = LineEnd(z) /\ \A j \in 1 .. N : w[j - 1] = Header(h[j], w[j])
    BY <1>1, <1>2 DEF IsHeads
<1> DEFINE S == {j \in 0 .. N : EndsWith(w[0], w[j])}
           g == [j \in 0 .. N |-> j]
<1>4. 0 \in S
    <2>1. PICK v \in Seq(Byte) : v = w[0]
        <3>1. 0 \in 0 .. N
            BY <1>2
        <3> QED
            BY <1>3, <3>1
    <2>2. <<>> \o v = v /\ <<>> \in Seq(Byte)
        BY EmptyBytes
    <2>3. EndsWith(v, v)
        BY <2>2 DEF EndsWith
    <2> QED
        BY <1>2, <2>1, <2>3
<1>5. ASSUME NEW j \in 1 .. N, j - 1 \in S PROVE j \in S
    <2>1. PICK l, x, y : l = h[j] /\ x = w[j] /\ y = w[j - 1]
        OBVIOUS
    <2>2. j \in 0 .. N /\ l \in Line /\ x \in Seq(Byte)
        <3>1. j \in 0 .. N /\ j \in 1 .. Len(h)
            BY <1>1, <1>2
        <3>2. l \in Line
            BY <1>2, <2>1, <3>1, ElementOfSeq
        <3>3. x \in Seq(Byte)
            BY <1>3, <2>1, <3>1
        <3> QED
            BY <3>1, <3>2, <3>3
    <2>3. y = HeadLine(l) \o x /\ HeadLine(l) \in Seq(Byte)
        BY <1>3, <2>1, <2>2, HeaderIs
    <2>4. EndsWith(y, x)
        BY <2>2, <2>3, ConcatEnds
    <2>5. EndsWith(w[0], x)
        BY <1>5, <2>1, <2>4, EndsOfEnds
    <2> QED
        BY <2>1, <2>2, <2>5
<1>6. N \in S
    <2>1. \A n \in 0 .. N : g[n] = n
        OBVIOUS
    <2> HIDE DEF S, g
    <2>2. g[0] \in S /\ \A m \in 1 .. N : g[m - 1] \in S => g[m] \in S
        BY <1>2, <1>4, <1>5, <2>1
    <2>3. \A n \in 0 .. N : g[n] \in S
        BY <1>2, <2>2, StepsStay
    <2> QED
        BY <1>2, <2>1, <2>3
<1>7. EndsWith(w[0], w[N])
    BY <1>6
<1>8. PICK p \in Seq(Byte), c \in Seq(Byte), e \in Seq(Byte) :
         p = P[k] /\ c = ps[k].content /\ e = CRLF
    BY <1>2, LineEndBytes
<1>0. PICK v : v = w[0]
    OBVIOUS
<1>9. v \in Seq(Byte) /\ EndsWith(v, LineEnd(z))
    BY <1>0, <1>3, <1>7 DEF EndsWith
<1>10. EndsWith(LineEnd(z), z) /\ EndsWith(z, LineEnd(p)) /\ EndsWith(LineEnd(p), p)
    <2>1. LineEnd(z) = e \o z /\ LineEnd(p) = e \o p /\ z = c \o LineEnd(p)
        BY <1>1, <1>2, <1>8, LineEndIs
    <2> QED
        BY <1>2, <1>8, <2>1, ConcatEnds
<1>11. EndsWith(v, p)
    BY <1>9, <1>10, EndsOfEnds
<1>12. PICK d \in Seq(Byte) : d = Dashes \o Boundary
    BY <1>2, BoundIs
<1>13. PICK y, q : y = LineEnd(v) /\ q = P[k - 1]
    OBVIOUS
<1>14. y \in Seq(Byte) /\ y = e \o v /\ q = d \o y /\ Len(q) = Len(y) + 2 + Len(Boundary)
    BY <1>0, <1>2, <1>8, <1>9, <1>12, <1>13, LineEndIs, BoundIs
<1>15. EndsWith(y, v) /\ EndsWith(q, y)
    BY <1>9, <1>14, ConcatEnds
<1>16. EndsWith(q, p) /\ EndsWith(y, p)
    BY <1>11, <1>15, EndsOfEnds
<1>17. Len(y) >= Len(p) /\ Len(y) \in Nat /\ Len(p) \in Nat
    BY <1>16, EndsLength
<1>18. Len(q) >= Len(p) + 3
    BY <1>14, <1>17, BoundaryTyped
<1> QED
    BY <1>8, <1>13, <1>16, <1>18

(* A form ends with each of its parts.                                     *)
LEMMA FormEnds ==
    ASSUME NEW P, NEW G, NEW ps, IsForm(P, G, ps), NEW k \in 0 .. Len(ps)
    PROVE  EndsWith(P[0], P[k]) /\ (k # 0 => Len(P[0]) >= Len(P[k]) + 3)
<1>1. PICK N : N = Len(ps)
    OBVIOUS
<1>2. N \in Nat /\ P \in [0 .. N -> Seq(Byte)]
    BY <1>1 DEF IsForm
<1> DEFINE S == {j \in 0 .. N : EndsWith(P[0], P[j]) /\ (j # 0 => Len(P[0]) >= Len(P[j]) + 3)}
           g == [j \in 0 .. N |-> j]
<1>3. 0 \in S
    <2>1. PICK v \in Seq(Byte) : v = P[0]
        <3>1. 0 \in 0 .. N
            BY <1>2
        <3> QED
            BY <1>2, <3>1
    <2>2. <<>> \o v = v /\ <<>> \in Seq(Byte)
        BY EmptyBytes
    <2>3. EndsWith(v, v)
        BY <2>2 DEF EndsWith
    <2> QED
        BY <1>2, <2>1, <2>3
<1>4. ASSUME NEW j \in 1 .. N, j - 1 \in S PROVE j \in S
    <2>1. PICK x, y, v : x = P[j] /\ y = P[j - 1] /\ v = P[0]
        OBVIOUS
    <2>2. EndsWith(y, x) /\ Len(y) >= Len(x) + 3
        <3>1. FormAt(P, G, ps, j)
            BY <1>1, FormParts
        <3> QED
            BY <2>1, <3>1, PartEnds
    <2>3. EndsWith(v, y)
        BY <1>4, <2>1
    <2>4. EndsWith(v, x)
        BY <2>2, <2>3, EndsOfEnds
    <2>5. Len(v) >= Len(y) /\ Len(v) \in Nat /\ Len(y) \in Nat /\ Len(x) \in Nat
        BY <2>2, <2>3, EndsLength
    <2>6. Len(v) >= Len(x) + 3
        BY <2>2, <2>5
    <2>7. j \in 0 .. N
        BY <1>2
    <2> QED
        BY <2>1, <2>4, <2>6, <2>7
<1>5. k \in S
    <2>1. \A n \in 0 .. N : g[n] = n
        OBVIOUS
    <2> HIDE DEF S, g
    <2>2. g[0] \in S /\ \A m \in 1 .. N : g[m - 1] \in S => g[m] \in S
        BY <1>2, <1>3, <1>4, <2>1
    <2>3. \A n \in 0 .. N : g[n] \in S
        BY <1>2, <2>2, StepsStay
    <2> QED
        BY <1>1, <2>1, <2>3
<1> QED
    BY <1>5

(* The boundary line before part k + 1 starts at i in the form's bytes s;  *)
(* its end is e or, with a header line, n, and then comes the rest.        *)
Span(s, P, G, ps, k, i, e, n, z) ==
    /\ i \in 1 .. Len(s) /\ i + Len(P[k]) = Len(s) + 1 /\ (k = 0 => i = 1) /\ (k # 0 => i >= 4)
    /\ memmem(s, i, Dashes \o Boundary) = i
    /\ e \in Nat /\ memmem(s, i, <<"LF">>) = e
    /\ n \in Nat /\ n = IF i = 1 THEN 0 ELSE memmem(s, e + 1, <<"LF">>)
    /\ z = IF n = 0 THEN e ELSE n
    /\ z \in Nat /\ z + Len(Rest(G, ps, k)) = Len(s) /\ Len(Rest(G, ps, k)) \in Nat

(* A boundary line after a, with m up to its LF, and t.                    *)
BoundaryAt(s, a, m, t, i, e, w) ==
    /\ i \in Nat /\ i = Len(a) + 1 /\ e \in Nat /\ e >= i /\ Len(s) = e + Len(t)
    /\ w \in Seq(Byte) /\ Len(w) = e /\ s = w \o t /\ s \in Seq(Byte)
    /\ memmem(s, i, Dashes \o Boundary) = i
    /\ memmem(s, i, <<"LF">>) = e

(* Where its beginning and its first LF are found.                         *)
LEMMA BoundaryFound ==
    ASSUME NEW a \in Seq(Byte), NEW m \in Seq(Byte), NEW t \in Seq(Byte), Without(m, "LF"),
           NEW s, s = a \o Bound(m \o Cons("LF", t))
    PROVE  \E i, e, w : BoundaryAt(s, a, m, t, i, e, w)
<1>1. PICK lf \in Byte : lf = "LF"
    BY ByteNames
<1>2. PICK l \in Seq(Byte), c \in Seq(Byte), d \in Seq(Byte) : l = <<lf>> /\ c = Cons(lf, t) /\ d = Dashes \o Boundary
    BY ByteLists, ConsBytes, BoundIs
<1>3. PICK x, y, z, v, w : x = d \o m /\ y = m \o c /\ z = x \o c /\ v = a \o x /\ w = v \o l
    OBVIOUS
<1>4. x \in Seq(Byte) /\ y \in Seq(Byte) /\ z \in Seq(Byte) /\ v \in Seq(Byte) /\ w \in Seq(Byte)
    BY <1>3, ConcatBytes
<1>5. Assoc(d, m, c) /\ Assoc(a, x, c) /\ Assoc(v, l, t)
    BY <1>4, ConcatAssoc
<1>6. s = a \o (d \o y)
    BY <1>1, <1>2, <1>3, <1>4, BoundIs
<1>7. s = a \o z
    BY <1>3, <1>5, <1>6 DEF Assoc
<1>8. s = v \o c
    BY <1>3, <1>5, <1>7 DEF Assoc
<1>9. c = l \o t
    BY <1>2 DEF Cons
<1>10. s = w \o t
    BY <1>3, <1>5, <1>8, <1>9 DEF Assoc
<1>11. Len(d) = 2 + Len(Boundary) /\ Len(Boundary) \in Nat /\ Len(l) = 1 /\ d # <<>>
    <2>1. Len(d) = 2 + Len(Boundary) /\ Len(Boundary) \in Nat
        BY <1>2, BoundIs, BoundaryTyped
    <2>2. Len(l) = 1
        BY <1>2, ByteLists
    <2>3. d # <<>>
        <3>1. ASSUME d = <<>> PROVE FALSE
            <4>1. PICK n \in Nat, k \in Nat : n = Len(d) /\ k = Len(Boundary)
                BY BoundaryTyped
            <4>2. n = 2 + k
                BY <2>1, <4>1
            <4>3. n = 0
                BY <3>1, <4>1
            <4> QED
                BY <4>2, <4>3
        <3> QED
            BY <3>1
    <2> QED
        BY <2>1, <2>2, <2>3
<1>12. /\ Len(x) = Len(d) + Len(m) /\ Len(v) = Len(a) + Len(x) /\ Len(w) = Len(v) + Len(l)
       /\ Len(s) = Len(w) + Len(t) /\ s \in Seq(Byte)
    <2>1. Len(x) = Len(d) + Len(m) /\ Len(v) = Len(a) + Len(x) /\ Len(w) = Len(v) + Len(l)
        BY <1>3, <1>4, ConcatLen
    <2>2. Len(s) = Len(w) + Len(t) /\ s \in Seq(Byte)
        BY <1>4, <1>10, ConcatLen, ConcatBytes
    <2> QED
        BY <2>1, <2>2
<1>13. PICK na \in Nat, nm \in Nat, nb \in Nat : na = Len(a) /\ nm = Len(m) /\ nb = Len(Boundary)
    BY BoundaryTyped
<1>13a. PICK i, e : i = na + 1 /\ e = na + nm + nb + 3
    OBVIOUS
<1>20. Len(x) = nm + nb + 2 /\ Len(w) = e /\ e \in Nat /\ i \in Nat /\ e >= i /\ na + Len(x) + 1 = e
    <2>1. Len(x) = 2 + nb + nm
        BY <1>11, <1>12, <1>13, <1>13a
    <2>2. Len(v) = na + Len(x) /\ Len(w) = Len(v) + 1
        BY <1>11, <1>12, <1>13, <1>13a
    <2> QED
        BY <1>13, <1>13a, <2>1, <2>2
<1>14. memmem(s, Len(a) + 1, d) = Len(a) + 1
    <2>1. d # <<>>
        BY <1>11
    <2> QED
        BY <1>4, <1>6, <2>1, FindsHere, ZenonT(30)
<1>15. FoundAt(s, Len(a) + 1, lf, Len(a) + Len(x) + 1)
    <2>1. Without(d, "LF")
        <3>1. PICK b \in Seq(Byte), y1 \in Seq(Byte) : b = Boundary /\ y1 = Dashes
            BY FormBytesTyped, BoundaryTyped, ConcatBytes
        <3>2. Without(b, "LF") /\ Without(y1, "LF") /\ d = y1 \o b
            BY <1>2, <3>1, BoundaryBytes
        <3> QED
            BY <3>2, WithoutParts
    <2>2. Without(x, lf)
        BY <1>1, <1>3, <2>1, WithoutParts
    <2>3. s = a \o (x \o Cons(lf, t))
        BY <1>2, <1>3, <1>7
    <2> QED
        BY <1>4, <2>2, <2>3, FirstAfter
<1>17. BoundaryAt(s, a, m, t, i, e, w)
    <2>1. memmem(s, i, Dashes \o Boundary) = i
        BY <1>2, <1>13, <1>13a, <1>14
    <2>2. memmem(s, i, <<"LF">>) = e
        BY <1>1, <1>13, <1>13a, <1>15, <1>20 DEF FoundAt
    <2>3. i = Len(a) + 1 /\ Len(s) = e + Len(t)
        BY <1>12, <1>13, <1>13a, <1>20
    <2> QED
        BY <1>4, <1>10, <1>12, <1>20, <2>1, <2>2, <2>3 DEF BoundaryAt
<1> QED
    BY <1>17

(* Nothing is found behind the last byte.                                  *)
LEMMA NothingBehind ==
    ASSUME NEW s \in Seq(Byte), NEW c \in Byte
    PROVE  memmem(s, Len(s) + 1, <<c>>) = 0
<1>1. PICK n \in Nat : n = Len(s)
    OBVIOUS
<1>2. n + 1 \in Nat /\ n + 1 # 0 /\ n + 1 .. n = {}
    OBVIOUS
<1>3. memmem(s, n + 1, <<c>>) =
         LET at == {i \in n + 1 .. Len(s) : s[i] = c}
         IN IF at = {} THEN 0 ELSE CHOOSE i \in at : \A j \in at : i <= j
    BY <1>2, ByteSearch
<1>4. {i \in n + 1 .. Len(s) : s[i] = c} = {}
    BY <1>1, <1>2
<1> QED
    BY <1>1, <1>3, <1>4

(* Every boundary line has its place.                                      *)
LEMMA LineFound ==
    ASSUME NEW P, NEW G, NEW ps, IsForm(P, G, ps), Clean(ps), NEW k \in 0 .. Len(ps)
    PROVE  \E i, e, n, z : Span(P[0], P, G, ps, k, i, e, n, z)
<1>1. PICK s, p : s = P[0] /\ p = P[k]
    OBVIOUS
<1>2. EndsWith(s, p) /\ (k # 0 => Len(s) >= Len(p) + 3) /\ Len(s) \in Nat /\ Len(p) \in Nat
    BY <1>1, FormEnds, EndsLength
<1>3. PICK a \in Seq(Byte) : s = a \o p
    BY <1>2 DEF EndsWith
<1>4. PICK m, t : BoundaryLine(P, G, ps, k, m, t)
    BY BoundaryLines
<1>5. /\ m \in Seq(Byte) /\ t \in Seq(Byte) /\ Without(m, "LF") /\ p = Bound(m \o Cons("LF", t))
    BY <1>1, <1>4 DEF BoundaryLine
<1>6. PICK i, e, w : BoundaryAt(s, a, m, t, i, e, w)
    BY <1>3, <1>5, BoundaryFound
<1>7. PICK u : u = Rest(G, ps, k)
    OBVIOUS
<1>8. /\ i = Len(a) + 1 /\ Len(s) = e + Len(t) /\ e \in Nat /\ e >= i /\ i \in Nat
      /\ memmem(s, i, Dashes \o Boundary) = i /\ memmem(s, i, <<"LF">>) = e
      /\ w \in Seq(Byte) /\ Len(w) = e /\ s = w \o t /\ s \in Seq(Byte)
    BY <1>6 DEF BoundaryAt
<1>9. i \in 1 .. Len(s) /\ i + Len(p) = Len(s) + 1 /\ (k = 0 => i = 1) /\ (k # 0 => i >= 4)
    <2>0. t \in Seq(Byte)
        BY <1>5
    <2>7. Len(a) \in Nat /\ Len(t) \in Nat
        BY <2>0
    <2>1. PICK na, nt, np, ns : na = Len(a) /\ nt = Len(t) /\ np = Len(p) /\ ns = Len(s)
        OBVIOUS
    <2>8. na \in Nat /\ nt \in Nat
        BY <2>1, <2>7
    <2>2. ns = na + np
        <3>1. p \in Seq(Byte)
            BY <1>2 DEF EndsWith
        <3> QED
            BY <1>3, <2>1, <3>1, ConcatLen
    <2>3. k = 0 => ns = np
        BY <1>1, <2>1
    <2>4. /\ ns \in Nat /\ np \in Nat /\ (k # 0 => ns >= np + 3) /\ i = na + 1 /\ ns = e + nt
          /\ e \in Nat /\ e >= i
        BY <1>2, <1>8, <2>1
    <2>5. i \in 1 .. ns /\ i + np = ns + 1
        BY <2>2, <2>4, <2>8
    <2>6. (k = 0 => i = 1) /\ (k # 0 => i >= 4)
        BY <2>2, <2>3, <2>4, <2>8
    <2> QED
        BY <2>1, <2>5, <2>6
<1>10. u \in Seq(Byte) /\ Len(u) \in Nat
    BY <1>4, <1>7 DEF BoundaryLine
<1>11. PICK n, z : n = (IF i = 1 THEN 0 ELSE memmem(s, e + 1, <<"LF">>)) /\ z = IF n = 0 THEN e ELSE n
    OBVIOUS
<1>0. ASSUME n \in Nat, z \in Nat, z + Len(u) = Len(s) PROVE \E i1, e1, n1, z1 : Span(P[0], P, G, ps, k, i1, e1, n1, z1)
    <2>1. Span(s, P, G, ps, k, i, e, n, z)
        <3>1. i \in 1 .. Len(s) /\ i + Len(P[k]) = Len(s) + 1
            BY <1>1, <1>9
        <3>2. z + Len(Rest(G, ps, k)) = Len(s) /\ Len(Rest(G, ps, k)) \in Nat
            BY <1>0, <1>7, <1>10
        <3> QED
            BY <1>0, <1>8, <1>9, <1>11, <3>1, <3>2 DEF Span
    <2> QED
        BY <1>1, <2>1
<1>12. CASE k = 0
    <2>1. t = u /\ n = 0
        <3>1. Len(ps) # 0
            BY DEF Clean
        <3> QED
            BY <1>4, <1>7, <1>9, <1>11, <1>12, <3>1 DEF BoundaryLine
    <2>2. z = e /\ z + Len(u) = Len(s)
        BY <1>8, <1>11, <2>1
    <2> QED
        BY <1>0, <1>8, <2>1, <2>2
<1>13. CASE k # 0 /\ k = Len(ps)
    <2>1. t = <<>> /\ u = <<>>
        BY <1>4, <1>7, <1>13 DEF BoundaryLine, Rest
    <2>2. Len(t) = 0 /\ Len(u) = 0
        BY <2>1
    <2>3. Len(s) = e
        BY <1>8, <2>2
    <2>4. n = 0
        <3>1. PICK lf \in Byte : lf = "LF"
            BY ByteNames
        <3>2. memmem(s, Len(s) + 1, <<lf>>) = 0
            BY <1>8, NothingBehind
        <3> QED
            BY <1>8, <1>9, <1>11, <1>13, <2>3, <3>1, <3>2
    <2>5. z = e /\ z + Len(u) = Len(s)
        BY <1>8, <1>11, <2>2, <2>3, <2>4
    <2> QED
        BY <1>0, <1>8, <2>4, <2>5
<1>14. CASE k # 0 /\ k # Len(ps)
    <2>1. PICK y \in Seq(Byte) : Without(y, "LF") /\ t = y \o LineEnd(u)
        BY <1>4, <1>7, <1>14 DEF BoundaryLine
    <2>2. PICK lf \in Byte : lf = "LF"
        BY ByteNames
    <2>3. PICK c \in Seq(Byte) : c = <<"CR">>
        BY FormBytesTyped
    <2>3a. PICK l : l = Cons(lf, u)
        OBVIOUS
    <2>4. PICK yc : yc = y \o c
        OBVIOUS
    <2>5. l \in Seq(Byte) /\ yc \in Seq(Byte) /\ Assoc(y, c, l) /\ Len(l) = Len(u) + 1
        BY <1>10, <2>2, <2>3, <2>3a, <2>4, ConsBytes, ConcatBytes, ConcatAssoc, HeadAndTail DEF IsCons
    <2>6. LineEnd(u) = c \o l
        BY <2>2, <2>3, <2>3a DEF LineEnd, Cons
    <2>7. t = yc \o l
        BY <2>1, <2>4, <2>5, <2>6 DEF Assoc
    <2>8. Without(yc, lf)
        <3>1. Without(c, "LF")
            BY <2>3, <2>3a, BoundaryBytes
        <3> QED
            BY <2>1, <2>2, <2>4, <3>1, WithoutParts
    <2>9. FoundAt(s, Len(w) + 1, lf, Len(w) + Len(yc) + 1)
        <3>1. s = w \o (yc \o Cons(lf, u))
            BY <1>8, <2>3, <2>3a, <2>7
        <3>2. w \in Seq(Byte)
            BY <1>8
        <3> QED
            BY <1>10, <2>5, <2>8, <3>1, <3>2, FirstAfter
    <2>10. Len(t) = Len(yc) + (Len(u) + 1) /\ Len(yc) \in Nat
        BY <2>5, <2>7, ConcatLen
    <2>11. i # 1
        BY <1>8, <1>9, <1>14
    <2>12. n = e + Len(yc) + 1
        <3>1. memmem(s, e + 1, <<lf>>) = e + Len(yc) + 1
            <4>1. memmem(s, Len(w) + 1, <<lf>>) = Len(w) + Len(yc) + 1
                BY <2>9 DEF FoundAt
            <4> QED
                BY <1>8, <4>1
        <3> QED
            BY <1>11, <2>2, <2>11, <3>1
    <2>13. n \in Nat /\ n # 0 /\ n + Len(u) = Len(s)
        BY <1>8, <1>10, <2>10, <2>12
    <2>14. z = n
        BY <1>11, <2>13
    <2> QED
        BY <1>0, <2>13, <2>14
<1> QED
    BY <1>12, <1>13, <1>14

(* A read that does not end inside a boundary line ends outside of all.    *)
LEMMA CutOutside ==
    ASSUME NEW P, NEW G, NEW ps, IsForm(P, G, ps), Clean(ps), NEW req, req.boundary = Boundary,
           req.body = P[0], NEW r \in Seq(Byte), Len(r) <= Len(P[0]),
           r = <<>> \/ ~InsideLine(req, Len(P[0]) - Len(r))
    PROVE  CutOk(P, G, ps, r)
<1> SUFFICES ASSUME NEW k \in 0 .. Len(ps)
             PROVE  \/ Len(r) >= Len(P[k]) + (IF k = 0 THEN 0 ELSE 2)
                    \/ Len(r) <= Len(Rest(G, ps, k))
    BY DEF CutOk
<1>1. PICK s, i, e, n, z : s = P[0] /\ Span(s, P, G, ps, k, i, e, n, z)
    BY LineFound
<1>2. PICK ls, lr, lp, lu : ls = Len(s) /\ lr = Len(r) /\ lp = Len(P[k]) /\ lu = Len(Rest(G, ps, k))
    OBVIOUS
<1>3. /\ i \in 1 .. ls /\ i + lp = ls + 1 /\ (k = 0 => i = 1) /\ (k # 0 => i >= 4)
      /\ z \in Nat /\ z + lu = ls /\ lu \in Nat /\ lr \in Nat
    BY <1>1, <1>2 DEF Span
<1>4. s \in Seq(Byte) /\ ls \in Nat /\ lp \in Nat /\ lr <= ls
    <2>1. s \in Seq(Byte)
        <3>1. Len(ps) \in Nat /\ P \in [0 .. Len(ps) -> Seq(Byte)]
            BY DEF IsForm
        <3>2. 0 \in 0 .. Len(ps)
            BY <3>1
        <3> QED
            BY <1>1, <3>1, <3>2
    <2>2. ls \in Nat
        BY <1>2, <2>1
    <2> QED
        BY <1>1, <1>2, <1>3, <2>1, <2>2
<1>5. CASE r = <<>>
    <2>1. lr = 0
        BY <1>2, <1>5
    <2>2. lr <= lu
        BY <1>3, <2>1
    <2> QED
        BY <1>2, <2>2
<1>6. CASE ~InsideLine(req, Len(P[0]) - Len(r))
    <2>1. PICK o : o = ls - lr
        OBVIOUS
    <2>2. ~InsideLine(req, o) /\ req.body = s
        BY <1>1, <1>2, <1>6, <2>1
    <2>3. i \in LineStarts(req)
        BY <1>1, <1>2, <1>3, <2>2 DEF Span, LineStarts
    <2>4. e = memmem(req.body, i, <<"LF">>) /\ n = IF i = 1 THEN 0 ELSE memmem(req.body, e + 1, <<"LF">>)
        BY <1>1, <2>2 DEF Span
    <2>5. z = IF n = 0 THEN e ELSE n
        BY <1>1 DEF Span
    <2>6. ~(o # 0 /\ o >= i - 2 /\ o < z)
        BY <2>2, <2>3, <2>4, <2>5 DEF InsideLine
    <2>8. CASE k = 0
        <3>1. i = 1 /\ lp = ls
            BY <1>3, <1>4, <2>8
        <3>2. lr >= lp \/ lr <= lu
            BY <1>3, <1>4, <2>1, <2>6, <3>1
        <3> QED
            BY <1>2, <1>4, <2>8, <3>2
    <2>9. CASE k # 0
        <3>1. i >= 4
            BY <1>3, <2>9
        <3>2. lr >= lp + 2 \/ lr <= lu
            BY <1>3, <1>4, <2>1, <2>6, <3>1
        <3> QED
            BY <1>2, <2>9, <3>2
    <2> QED
        BY <2>8, <2>9
<1> QED
    BY <1>5, <1>6

(* The boundary has no dashes, and stays as it is.                         *)
LEMMA UndashBoundary == Undash(Boundary) = Boundary
<1>0. PICK b \in Seq(Byte), N \in Nat : b = Boundary /\ N = Len(b)
    BY BoundaryTyped
<1>1. PICK d : d = "-" /\ b = Boundary /\ N = Len(b)
    BY <1>0
<1>2. \A n \in 1 .. N : b[n] # d
    BY <1>1, BoundaryTyped
<1> DEFINE f == [n \in 0 .. N |-> SubSeq(b, 1, n)]
           V == CHOOSE g : g = [n \in 0 .. N |->
                                   IF n = 0 THEN <<>>
                                   ELSE IF b[n] = d THEN g[n - 1] ELSE Append(g[n - 1], b[n])]
           Step(g, n) == IF n = 0 THEN <<>> ELSE IF b[n] = d THEN g[n - 1] ELSE Append(g[n - 1], b[n])
<1>3. ASSUME NEW n \in 0 .. N PROVE f[n] = Step(f, n)
    <2>1. CASE n = 0
        <3>1. 1 \in Int /\ 0 \in Int /\ 0 < 1
            OBVIOUS
        <3>2. SubSeq(b, 1, 0) = <<>>
            BY <3>1, SubSeqEmpty
        <3> QED
            BY <2>1, <3>2
    <2>2. CASE n # 0
        <3>1. n \in 1 .. Len(b) /\ 1 \in 1 .. Len(b) /\ n - 1 \in 0 .. N /\ n - 1 \in 0 .. Len(b)
            BY <1>1, <2>2
        <3>2. SubSeq(b, 1, n) = SubSeq(b, 1, n - 1) \o <<b[n]>>
            BY <3>1, SubSeqRecursiveSecond
        <3>3. PICK t, c : t = SubSeq(b, 1, n - 1) /\ c = b[n]
            OBVIOUS
        <3>4. t \in Seq(Byte) /\ c \in Byte
            BY <3>1, <3>3, SplitAt, ElementOfSeq
        <3>5. Append(t, c) = t \o <<c>>
            BY <3>4, AppendIsConcat
        <3>6. f[n] = SubSeq(b, 1, n) /\ f[n - 1] = t
            BY <3>1, <3>3
        <3>7. f[n] = Append(f[n - 1], b[n])
            BY <3>2, <3>3, <3>5, <3>6
        <3>8. b[n] # d
            BY <1>1, <1>2, <3>1
        <3> HIDE DEF f
        <3> QED
            BY <2>2, <3>7, <3>8
    <2> QED
        BY <2>1, <2>2
<1>4. f = [n \in 0 .. N |-> Step(f, n)]
    <2>1. f = [n \in 0 .. N |-> f[n]]
        OBVIOUS
    <2> HIDE DEF f, Step
    <2> QED
        BY <1>3, <2>1
<1>5. V = [n \in 0 .. N |-> Step(V, n)]
    <2> HIDE DEF f
    <2> QED
        BY <1>4
<1>6. Undash(b) = V[N]
    BY <1>1 DEF Undash
<1> HIDE DEF V, f
<1>7. \A n \in 0 .. N : V[n] = Step(V, n)
    <2> HIDE DEF Step
    <2> QED
        BY <1>5, Zenon
<1> DEFINE S == {n \in 0 .. N : V[n] = f[n]}
           g == [n \in 0 .. N |-> n]
<1>8. 0 \in S
    <2>1. 0 \in 0 .. N
        BY <1>1
    <2> QED
        BY <1>3, <1>7, <2>1
<1>9. ASSUME NEW n \in 1 .. N, n - 1 \in S PROVE n \in S
    <2>1. n \in 0 .. N /\ n # 0 /\ V[n - 1] = f[n - 1]
        BY <1>9
    <2> QED
        BY <1>3, <1>7, <2>1
<1>10. N \in S
    <2>1. \A n \in 0 .. N : g[n] = n
        OBVIOUS
    <2> HIDE DEF S, g
    <2>2. g[0] \in S /\ \A m \in 1 .. N : g[m - 1] \in S => g[m] \in S
        BY <1>1, <1>8, <1>9, <2>1
    <2>3. \A n \in 0 .. N : g[n] \in S
        BY <1>1, <2>2, StepsStay
    <2> QED
        BY <1>1, <2>1, <2>3
<1>11. f[N] = b
    <2>1. N \in 0 .. N
        BY <1>1
    <2>2. SubSeq(b, 1, Len(b)) = b
        BY <1>1, SubSeqFull
    <2> QED
        BY <1>1, <2>1, <2>2 DEF f
<1> QED
    BY <1>1, <1>6, <1>10, <1>11

(* A form's parser starts before the first boundary.                       *)
LEMMA FormStarts ==
    ASSUME NEW P, NEW G, NEW ps, IsForm(P, G, ps), Clean(ps),
           NEW r, r.type = "form", r.boundary = Boundary
    PROVE  Place(StartParse(r), ps, P, G, P[0])
<1>1. Len(ps) \in Nat /\ Len(ps) # 0
    BY DEF IsForm, Clean
<1>2. 1 \in 1 .. Len(ps) /\ 0 \in 0 .. Len(ps) - 1 /\ 0 \in 0 .. Len(ps)
    BY <1>1
<1>3. FormAt(P, G, ps, 1)
    BY <1>2, FormParts
<1>4. PICK z : z = G[1][0]
    OBVIOUS
<1>5. P[0] = Bound(LineEnd(z)) /\ P[0] \in Seq(Byte)
    <2>1. P[1 - 1] = Bound(LineEnd(G[1][0])) /\ P[1 - 1] \in Seq(Byte)
        BY <1>3 DEF FormAt
    <2> QED
        BY <1>4, <2>1
<1>6. z \in Seq(Byte)
    <2>1. PICK g, h, c : g = G[1] /\ h = ps[1].head /\ c = ps[1].content \o LineEnd(P[1])
        OBVIOUS
    <2>2. IsHeads(g, h, c) /\ h \in Seq(Line)
        BY <1>3, <2>1 DEF FormAt
    <2>3. g \in [0 .. Len(h) -> Seq(Byte)] /\ 0 \in 0 .. Len(h)
        BY <2>2 DEF IsHeads
    <2> QED
        BY <1>4, <2>1, <2>3
<1>7. PICK x \in Seq(Byte) : x = Dashes \o Boundary
    BY EmptyBytes, BoundIs, <1>6
<1>8. P[0] = x \o LineEnd(z)
    BY <1>5, <1>6, <1>7, LineEndIs, BoundIs
<1>9. Without(x, "CR")
    <2>1. PICK d \in Seq(Byte), b \in Seq(Byte) : d = Dashes /\ b = Boundary
        BY FormBytesTyped, BoundaryTyped, ConcatBytes
    <2>2. Without(d, "CR") /\ Without(b, "CR")
        <3>1. \A s, c : Len(s) = 2 /\ s[1] # c /\ s[2] # c => Without(s, c)
            BY DEF Without
        <3>2. Without(d, "CR")
            BY <2>1, <3>1 DEF Dashes
        <3>3. Without(b, "CR")
            BY <2>1, BoundaryTyped DEF Without
        <3> QED
            BY <3>2, <3>3
    <2> QED
        BY <1>7, <2>1, <2>2, WithoutParts
<1>10. PICK st : st = StartParse(r)
    OBVIOUS
<1>11. Undash(r.boundary) = Boundary
    BY UndashBoundary
<1>12. /\ {"status", "current", "old", "keyed", "boundary", "files"} \subseteq DOMAIN st
       /\ st.status = "barrier" /\ st.current = <<>> /\ st.files = <<>> /\ st.boundary = Boundary
    BY <1>10, <1>11 DEF StartParse, HasParameter, NoParse
<1>13. Parser(st)
    BY <1>12 DEF Parser
<1>14. AtBoundary(st, ps, P, G, 0, P[0])
    <2>1. DOMAIN st.files = 1 .. 0 /\ Filled(st.files, ps, 0)
        BY <1>12 DEF Filled
    <2>2. Len(P[0]) \in Nat
        BY <1>5
    <2>3. Len(P[0]) <= Len(P[0])
        BY <2>2
    <2>4. G[0 + 1][Skip(0 + 1)] = z
        BY <1>4 DEF Skip
    <2> QED
        BY <1>8, <1>9, <1>12, <2>1, <2>3, <2>4 DEF AtBoundary
<1> QED
    BY <1>2, <1>5, <1>10, <1>13, <1>14 DEF Place

(* The kinds of requests.                                                  *)
LEMMA RequestKinds ==
    ASSUME NEW r \in Requests
    PROVE  /\ r.type \in {"none", "plain", "params", "form"}
           /\ r.type = "form" => /\ r.boundary \in {Boundary, DashedBoundary} /\ r.parts \in Forms
                                 /\ r.body = WireForm(r.parts, r.boundary)
<1>1. ASSUME NEW t, t # "form", r \in PlainRequests(t) PROVE r.type = t
    BY <1>1 DEF PlainRequests, NoRequest
<1>2. ASSUME NEW b, r \in FormRequests(b)
      PROVE  r.type = "form" /\ r.boundary = b /\ r.parts \in Forms /\ r.body = WireForm(r.parts, b)
    BY <1>2 DEF FormRequests
<1>3. ASSUME r \in ParamRequests PROVE r.type = "params"
    BY <1>3 DEF ParamRequests, PlainRequests, NoRequest
<1>4. \/ r \in PlainRequests("none") \/ r \in PlainRequests("plain") \/ r \in ParamRequests
      \/ r \in FormRequests(Boundary) \/ r \in FormRequests(DashedBoundary)
    BY DEF Requests
<1>5. CASE r \in PlainRequests("none") \/ r \in PlainRequests("plain")
    BY <1>1, <1>5
<1>6. CASE r \in FormRequests(Boundary)
    BY <1>2, <1>6
<1>7. CASE r \in FormRequests(DashedBoundary)
    BY <1>2, <1>7
<1> QED
    BY <1>3, <1>4, <1>5, <1>6, <1>7

(* A form request that can be recognised has the boundary without dashes   *)
(* and clean parts.                                                        *)
LEMMA RecognisedForm ==
    ASSUME NEW r \in Requests, r.type = "form", Recognisable(r)
    PROVE  r.boundary = Boundary /\ r.parts \in Forms /\ r.body = WireForm(r.parts, Boundary) /\ Clean(r.parts)
<1>1. r.boundary = Boundary
    <2>1. r.boundary # DashedBoundary
        BY RequestAssumption DEF Recognisable
    <2> QED
        BY <2>1, RequestKinds
<1>2. PICK ps : ps = r.parts
    OBVIOUS
<1>3. ps \in Forms /\ r.body = WireForm(ps, Boundary)
    BY <1>1, <1>2, RequestKinds
<1>4. ps \in Seq(Part) /\ ps # <<>>
    BY <1>2, <1>3, RequestAssumption DEF Recognisable
<1>5. Len(ps) # 0 /\ DOMAIN ps = 1 .. Len(ps)
    BY <1>4
<1>6. ASSUME NEW k \in 1 .. Len(ps)
      PROVE  /\ Lacks(ps[k].content)
             /\ \A j \in 1 .. Len(ps[k].head) : ClearLine(ps[k].head[j])
             /\ k # 1 => Len(ps[k].head) # 0
    <2>1. ps[k] \in Part
        BY <1>4
    <2>2. PICK s, h : s = ps[k].content /\ h = ps[k].head
        OBVIOUS
    <2>3. s \in Seq(Byte) /\ h \in Seq(Line)
        BY <2>1, <2>2 DEF Part
    <2>4. /\ memmem(s, 1, Boundary) = 0 /\ (\A j \in DOMAIN h : ClearLine(h[j])) /\ (k # 1 => h # <<>>)
        BY <1>1, <1>2, <1>5, <2>2 DEF Recognisable
    <2>5. Lacks(s)
        BY <2>3, <2>4, LacksIs
    <2>6. DOMAIN h = 1 .. Len(h) /\ (k # 1 => Len(h) # 0)
        BY <2>3, <2>4
    <2> QED
        BY <2>2, <2>4, <2>5, <2>6
<1> QED
    BY <1>1, <1>2, <1>3, <1>5, <1>6 DEF Clean

(* The parser st is somewhere in the form of request r, with u to come.    *)
InForm(r, st, u) == \E P, G : /\ IsForm(P, G, r.parts) /\ P[0] = r.body
                              /\ Place(st, r.parts, P, G, u)

(* A form that can be recognised, as it is known to the server.            *)
GoodForm(r) == r.type = "form" /\ Recognisable(r)

(* There the parser starts.                                                *)
LEMMA InFormStarts == ASSUME NEW r \in Requests, GoodForm(r) PROVE InForm(r, StartParse(r), r.body)
<1>1. r.type = "form" /\ Recognisable(r)
    BY DEF GoodForm
<1>2. r.boundary = Boundary /\ r.parts \in Forms /\ r.body = WireForm(r.parts, Boundary) /\ Clean(r.parts)
    BY <1>1, RecognisedForm
<1>3. PICK P, G : IsForm(P, G, r.parts) /\ P[0] = WireForm(r.parts, Boundary)
    BY <1>2, FormExists
<1>4. Place(StartParse(r), r.parts, P, G, P[0])
    BY <1>1, <1>2, <1>3, FormStarts
<1> QED
    BY <1>2, <1>3, <1>4 DEF InForm

(* There it stays, if no read ends inside a boundary line.                 *)
LEMMA InFormStays ==
    ASSUME NEW r \in Requests, GoodForm(r), NEW st, NEW a \in Seq(Byte), NEW v \in Seq(Byte),
           InForm(r, st, a \o v), Len(v) <= Len(r.body), v = <<>> \/ ~InsideLine(r, Len(r.body) - Len(v))
    PROVE  InForm(r, ParseForm(st, a), v)
<1>1. r.type = "form" /\ Recognisable(r)
    BY DEF GoodForm
<1>2. r.boundary = Boundary /\ Clean(r.parts)
    BY <1>1, RecognisedForm
<1>3. PICK P, G : IsForm(P, G, r.parts) /\ P[0] = r.body /\ Place(st, r.parts, P, G, a \o v)
    BY DEF InForm
<1>4. PICK ps : ps = r.parts
    OBVIOUS
<1>5. CutOk(P, G, ps, v)
    <2>1. r.body = P[0] /\ Len(v) <= Len(P[0]) /\ (v = <<>> \/ ~InsideLine(r, Len(P[0]) - Len(v)))
        BY <1>3, Zenon
    <2> QED
        BY <1>2, <1>3, <1>4, <2>1, CutOutside
<1>6. Place(ParseForm(st, a), ps, P, G, v)
    BY <1>2, <1>3, <1>4, <1>5, FormParsed
<1> QED
    BY <1>3, <1>4, <1>6 DEF InForm

(* A parser that is there has neither failed nor is it one of a plain      *)
(* body.                                                                   *)
LEMMA InFormStatus ==
    ASSUME NEW r, NEW st, NEW u, InForm(r, st, u)
    PROVE  st.status \in {"barrier", "fheader", "fbody"}
BY DEF InForm, Place, InHeader, InContent, AtBoundary, AtLast

(* Its calls are calls of the parser of forms.                             *)
LEMMA FormCalls ==
    ASSUME NEW r, r.type = "form", NEW buf
    PROVE  /\ rolling_file_parse(r, NoParse, buf) = ParseForm(StartParse(r), buf)
           /\ \A st : st.status \in {"barrier", "fheader", "fbody"} =>
                 rolling_file_parse(r, st, buf) = ParseForm(st, buf)
<1>1. NoParse.status = "ignore" /\ StartParse(r).status = "barrier"
    BY DEF StartParse, HasParameter, NoParse
<1> QED
    BY <1>1 DEF rolling_file_parse

(* Before the header's end the parser has not started.  From then on it is *)
(* somewhere in the form, as long as no read ended inside a boundary line. *)
FormInv ==
    /\ rpc # "route" => fp = NoParse
    /\ rpc = "route" /\ GoodForm(reqst) /\ ~sliced =>
         Len(inp) <= Len(reqst.body) /\ InForm(reqst, fp, inp)

(* What is left after a read of n bytes of s, and where the read ended.    *)
LEMMA ReadEnds ==
    ASSUME NEW s \in Seq(Byte), NEW n \in 1 .. Len(s), NEW v, v = SubSeq(s, n + 1, Len(s))
    PROVE  v \in Seq(Byte) /\ Len(v) = Len(s) - n /\ (n = Len(s) => v = <<>>) /\ Len(v) <= Len(s)
<1>1. n \in 0 .. Len(s) /\ Len(s) \in Nat /\ n \in Nat
    OBVIOUS
<1>2. PICK b : b = SubSeq(s, 1, n)
    OBVIOUS
<1>3. b \in Seq(Byte) /\ v \in Seq(Byte) /\ s = b \o v /\ Len(b) = n
    BY <1>1, <1>2, SplitAt
<1>4. Len(s) = Len(b) + Len(v) /\ Len(v) \in Nat
    BY <1>3, ConcatLen
<1>5. Len(v) = Len(s) - n
    BY <1>1, <1>3, <1>4
<1>6. n = Len(s) => Len(v) = 0
    BY <1>1, <1>5
<1>7. n = Len(s) => v = <<>>
    BY <1>3, <1>6, EmptySeq
<1>8. Len(v) <= Len(s)
    BY <1>1, <1>4, <1>5
<1> QED
    BY <1>3, <1>5, <1>7, <1>8

(* The read that ends the header.                                          *)
LEMMA FormRecv == ASSUME FormInv, CollectInv, ReqInv, NEW n, RecvHeader(n) PROVE FormInv'
<1>1. fp = NoParse /\ reqst \in Requests /\ reqst' = reqst /\ inp' \in Seq(Byte)
    BY HeaderRead
<1>2. CASE HeadGoesOn
    BY <1>1, <1>2 DEF HeadGoesOn, FormInv
<1>3. ASSUME NEW u, HeadEnds(n, u) PROVE FormInv'
    <2>1. rpc' = "route" /\ u \in Seq(Byte) /\ u \o inp' = reqst.body
        BY <1>3 DEF HeadEnds
    <2>2. ASSUME GoodForm(reqst), ~sliced'
          PROVE  Len(inp') <= Len(reqst.body) /\ InForm(reqst, fp', inp')
        <3>1. PICK r, v, s : r = reqst /\ v = inp' /\ s = inp
            OBVIOUS
        <3>2. r \in Requests /\ GoodForm(r) /\ r.type = "form" /\ v \in Seq(Byte) /\ u \o v = r.body
            BY <1>1, <2>1, <2>2, <3>1 DEF GoodForm
        <3>3. s \in Seq(Byte) /\ n \in 1 .. Len(s) /\ v = SubSeq(s, n + 1, Len(s))
            BY <3>1 DEF RecvHeader, ReqInv, From
        <3>4. Len(v) = Len(s) - n /\ (n = Len(s) => v = <<>>)
            BY <3>3, ReadEnds
        <3>5. ~(InsideLine(r, Len(r.body) - (Len(s) - n)) /\ n # Len(s))
            BY <1>3, <2>2, <3>1, <3>2 DEF HeadEnds, EndsInside
        <3>6. v = <<>> \/ ~InsideLine(r, Len(r.body) - Len(v))
            BY <3>4, <3>5, Zenon
        <3>7. Len(v) <= Len(r.body)
            <4>1. Len(u \o v) = Len(u) + Len(v) /\ Len(u) \in Nat /\ Len(v) \in Nat
                BY <2>1, <3>2, ConcatLen
            <4> QED
                BY <3>2, <4>1
        <3>8. InForm(r, StartParse(r), u \o v)
            BY <3>2, InFormStarts
        <3>9. InForm(r, ParseForm(StartParse(r), u), v)
            BY <2>1, <3>2, <3>6, <3>7, <3>8, InFormStays
        <3>10. fp' = rolling_file_parse(r, NoParse, u)
            BY <1>3, <3>1, <3>2 DEF HeadEnds
        <3>11. fp' = ParseForm(StartParse(r), u)
            BY <3>2, <3>10, FormCalls
        <3> QED
            BY <3>1, <3>7, <3>9, <3>11
    <2> QED
        BY <1>1, <2>1, <2>2 DEF FormInv
<1> QED
    BY <1>2, <1>3, HeaderRead

(* A read of req:roll.                                                     *)
LEMMA FormRoll == ASSUME FormInv, CollectInv, NEW n, RollPiece(n) PROVE FormInv'
<1>1. PICK r, s, c, v : r = reqst /\ s = inp /\ c = SubSeq(inp, 1, n) /\ v = inp'
    OBVIOUS
<1>2. /\ rpc = "route" /\ rpc' = rpc /\ n \in 1 .. Len(s) /\ v = SubSeq(s, n + 1, Len(s))
      /\ fp' = rolling_file_parse(r, fp, c) /\ reqst' = r
    BY <1>1 DEF RollPiece, From
<1>3. r \in Requests /\ s \in Seq(Byte)
    BY <1>1, <1>2 DEF CollectInv
<1>4. ASSUME GoodForm(r), ~sliced' PROVE Len(v) <= Len(r.body) /\ InForm(r, fp', v)
    <2>1. ~sliced /\ ~(InsideLine(r, Len(r.body) - (Len(s) - n)) /\ n # Len(s))
        BY <1>1, <1>4 DEF RollPiece, EndsInside, GoodForm
    <2>2. Len(s) <= Len(r.body) /\ InForm(r, fp, s)
        BY <1>1, <1>2, <1>4, <2>1 DEF FormInv
    <2>3. v \in Seq(Byte) /\ Len(v) = Len(s) - n /\ (n = Len(s) => v = <<>>) /\ Len(v) <= Len(s)
        BY <1>2, <1>3, ReadEnds
    <2>4. c \in Seq(Byte) /\ s = c \o v
        <3>1. n \in 0 .. Len(s)
            BY <1>2, <1>3
        <3> QED
            BY <1>1, <1>2, <1>3, <3>1, SplitAt
    <2>5. Len(v) <= Len(r.body)
        <3>1. Len(v) \in Nat /\ Len(s) \in Nat /\ Len(r.body) \in Nat
            BY <1>3, <2>3, RequestsTyped
        <3> QED
            BY <2>2, <2>3, <3>1
    <2>6. v = <<>> \/ ~InsideLine(r, Len(r.body) - Len(v))
        BY <2>1, <2>3, Zenon
    <2>7. InForm(r, fp, c \o v)
        BY <2>2, <2>4
    <2>8. InForm(r, ParseForm(fp, c), v)
        BY <1>3, <1>4, <2>3, <2>4, <2>5, <2>6, <2>7, InFormStays
    <2>9. fp' = ParseForm(fp, c)
        <3>1. fp.status \in {"barrier", "fheader", "fbody"}
            BY <2>2, InFormStatus
        <3>2. r.type = "form"
            BY <1>4 DEF GoodForm
        <3>3. rolling_file_parse(r, fp, c) = ParseForm(fp, c)
            BY <3>1, <3>2, FormCalls
        <3> QED
            BY <1>2, <3>3
    <2> QED
        BY <2>5, <2>8, <2>9
<1> QED
    BY <1>1, <1>2, <1>4 DEF FormInv

(* Every step of the server keeps the invariant.                           *)
LEMMA FormNext == FormInv /\ CollectInv /\ ReqInv /\ [RequestNext]_requestVars => FormInv'
<1> SUFFICES ASSUME FormInv, CollectInv, ReqInv, [RequestNext]_requestVars PROVE FormInv'
    OBVIOUS
<1>1. ASSUME NEW h \in RequestHeaders, NEW r \in Requests, Accept(h, r)
      PROVE  FormInv'
    BY <1>1 DEF Accept, FormInv
<1>2. ASSUME NEW n, RecvHeader(n) PROVE FormInv'
    BY <1>2, FormRecv
<1>3. CASE RecvEnds
    BY <1>3 DEF RecvEnds, FormInv
<1>4. ASSUME NEW n, RollPiece(n) PROVE FormInv'
    BY <1>4, FormRoll
<1>5. CASE UNCHANGED requestVars
    BY <1>5 DEF requestVars, FormInv
<1> QED
    BY <1>1, <1>2, <1>3, <1>4, <1>5 DEF RequestNext

(* What has a byte in it is not empty.                                     *)
LEMMA ByteWithin ==
    ASSUME NEW x \in Seq(Byte), NEW c \in Byte, NEW y \in Seq(Byte)
    PROVE  Cons(c, y) # <<>> /\ x \o Cons(c, y) # <<>>
<1>1. PICK z : z = Cons(c, y)
    OBVIOUS
<1>2. z \in Seq(Byte) /\ Len(z) = Len(y) + 1
    BY <1>1, ConsBytes, HeadAndTail DEF IsCons
<1>3. Len(x \o z) = Len(x) + Len(z) /\ x \o z \in Seq(Byte)
    BY <1>2, ConcatLen, ConcatBytes
<1>4. Len(z) # 0 /\ Len(x \o z) # 0
    BY <1>2, <1>3
<1> QED
    BY <1>1, <1>2, <1>3, <1>4

(* A line's end and the rest of a header line are not empty.               *)
LEMMA LinesWithin ==
    ASSUME NEW x \in Seq(Byte), NEW z \in Seq(Byte), NEW h \in Line
    PROVE  /\ LineEnd(z) # <<>> /\ x \o LineEnd(z) # <<>> /\ Cons("LF", z) # <<>>
           /\ Cons(" ", h.value \o LineEnd(z)) # <<>>
           /\ x \o Cons(":", Cons(" ", h.value \o LineEnd(z))) # <<>>
<1>1. PICK cr \in Byte, lf \in Byte : cr = "CR" /\ lf = "LF"
    BY ByteNames
<1>2. PICK co \in Byte, bl \in Byte : co = ":" /\ bl = " "
    BY ByteNames
<1>3. PICK l, w, s : l = Cons(lf, z) /\ w = h.value \o LineEnd(z) /\ s = Cons(bl, w)
    OBVIOUS
<1>4. l \in Seq(Byte) /\ w \in Seq(Byte) /\ LineEnd(z) = Cons(cr, l)
    <2>1. h.value \in Seq(Byte)
        BY DEF Line
    <2> QED
        BY <1>1, <1>3, <2>1, ConsBytes, LineEndIs, ConcatBytes DEF LineEnd
<1>5. s \in Seq(Byte)
    BY <1>3, <1>4, ConsBytes
<1>6. Cons(cr, l) # <<>> /\ x \o Cons(cr, l) # <<>> /\ Cons(lf, z) # <<>>
    BY <1>4, ByteWithin
<1>7. Cons(bl, w) # <<>> /\ x \o Cons(co, s) # <<>>
    BY <1>4, <1>5, ByteWithin
<1>8. LineEnd(z) # <<>> /\ x \o LineEnd(z) # <<>>
    BY <1>4, <1>6
<1> QED
    BY <1>1, <1>2, <1>3, <1>6, <1>7, <1>8

(* A header line that is being read has bytes to come.                     *)
LEMMA LineToCome ==
    ASSUME NEW st, NEW h \in Line, NEW z \in Seq(Byte)
    PROVE  ~InLineOf(st, h, z, <<>>)
<1>1. h.value \in Seq(Byte)
    BY DEF Line
<1>2. \A y \in Seq(Byte) : <<>> # y \o Cons(":", Cons(" ", h.value \o LineEnd(z)))
    BY LinesWithin
<1>3. \A y \in Seq(Byte) : <<>> # y \o LineEnd(z)
    BY LinesWithin
<1>4. <<>> # Cons(" ", h.value \o LineEnd(z)) /\ <<>> # Cons("LF", z)
    BY <1>1, LinesWithin
<1> QED
    BY <1>2, <1>3, <1>4, Zenon DEF InLineOf

(* With nothing to come, the parser is after the last boundary.            *)
LEMMA PlaceAtEnd ==
    ASSUME NEW P, NEW G, NEW ps, IsForm(P, G, ps), Clean(ps), NEW st, Place(st, ps, P, G, <<>>)
    PROVE  AtLast(st, ps, <<>>)
<1>1. Len(ps) \in Nat /\ P \in [0 .. Len(ps) -> Seq(Byte)]
    BY DEF IsForm
<1>2. ASSUME NEW k \in 1 .. Len(ps), NEW j \in Nat, InHeader(st, ps, P, G, k, j, <<>>) PROVE FALSE
    <2>1. FormAt(P, G, ps, k)
        BY FormParts
    <2>2. PICK hs, c, g : hs = ps[k].head /\ c = ps[k].content \o LineEnd(P[k]) /\ g = G[k]
        OBVIOUS
    <2>3. hs \in Seq(Line) /\ c \in Seq(Byte) /\ IsHeads(g, hs, c)
        BY <2>1, <2>2 DEF FormAt
    <2>4. g \in [0 .. Len(hs) -> Seq(Byte)]
        BY <2>3 DEF IsHeads
    <2>5. CASE j < Len(hs) /\ InLineOf(st, hs[j + 1], g[j + 1], <<>>)
        <3>1. j + 1 \in 1 .. Len(hs) /\ j + 1 \in 0 .. Len(hs)
            BY <2>3, <2>5
        <3>2. hs[j + 1] \in Line /\ g[j + 1] \in Seq(Byte)
            BY <2>3, <2>4, <3>1
        <3> QED
            BY <2>5, <3>2, LineToCome
    <2>6. <<>> # LineEnd(c) /\ <<>> # Cons("LF", c)
        <3>1. PICK cr \in Byte, lf \in Byte : cr = "CR" /\ lf = "LF"
            BY ByteNames
        <3>2. Cons(lf, c) \in Seq(Byte) /\ Cons(lf, c) # <<>>
            BY <2>3, ConsBytes, ByteWithin
        <3>3. Cons(cr, Cons(lf, c)) # <<>>
            BY <3>2, ByteWithin
        <3> QED
            BY <3>1, <3>2, <3>3 DEF LineEnd
    <2>7. \/ j < Len(hs) /\ InLineOf(st, hs[j + 1], g[j + 1], <<>>)
          \/ <<>> = LineEnd(c) \/ <<>> = Cons("LF", c)
        BY <1>2, <2>2 DEF InHeader
    <2> QED
        BY <2>5, <2>6, <2>7
<1>3. ASSUME NEW x \in Seq(Byte), NEW z \in Seq(Byte), <<>> = x \o LineEnd(z) PROVE FALSE
    <2>1. PICK cr \in Byte, lf \in Byte : cr = "CR" /\ lf = "LF"
        BY ByteNames
    <2>2. Cons(lf, z) \in Seq(Byte)
        BY ConsBytes
    <2>3. x \o Cons(cr, Cons(lf, z)) # <<>>
        BY <2>2, ByteWithin
    <2> QED
        BY <1>3, <2>1, <2>3 DEF LineEnd
<1>4. ASSUME NEW k \in 1 .. Len(ps), InContent(st, ps, P, k, <<>>) PROVE FALSE
    <2>1. P[k] \in Seq(Byte)
        <3>1. k \in 0 .. Len(ps)
            BY <1>1
        <3> QED
            BY <1>1, <3>1
    <2>2. PICK y \in Seq(Byte) : <<>> = y \o LineEnd(P[k])
        BY <1>4 DEF InContent
    <2> QED
        BY <1>3, <2>1, <2>2
<1>5. ASSUME NEW k \in 0 .. Len(ps) - 1, AtBoundary(st, ps, P, G, k, <<>>) PROVE FALSE
    <2>1. k \in 0 .. Len(ps) /\ k # Len(ps)
        BY <1>1
    <2>2. PICK z : z = G[k + 1][Skip(k + 1)]
        OBVIOUS
    <2>3. z \in Seq(Byte)
        <3>1. Rest(G, ps, k) \in Seq(Byte)
            BY <2>1, BoundaryLines DEF BoundaryLine
        <3> QED
            BY <2>1, <2>2, <3>1 DEF Rest
    <2>4. PICK x \in Seq(Byte) : <<>> = x \o LineEnd(z)
        BY <1>5, <2>2 DEF AtBoundary
    <2> QED
        BY <1>3, <2>3, <2>4
<1> QED
    BY <1>2, <1>4, <1>5 DEF Place

(* Then the files are the parts.                                           *)
LEMMA FilesThere ==
    ASSUME NEW r \in Requests, GoodForm(r), InForm(r, fp, <<>>)
    PROVE  FilesArePartsOf(r)
<1>1. PICK ps : ps = r.parts
    OBVIOUS
<1>2. Clean(ps)
    BY <1>1, RecognisedForm DEF GoodForm
<1>3. PICK P, G : IsForm(P, G, ps) /\ Place(fp, ps, P, G, <<>>)
    BY <1>1 DEF InForm
<1>4. AtLast(fp, ps, <<>>)
    BY <1>2, <1>3, PlaceAtEnd
<1>5. DOMAIN fp.files = 1 .. Len(ps) /\ Filled(fp.files, ps, Len(ps))
    BY <1>4 DEF AtLast
<1>6. ps \in Seq(Part) /\ Len(ps) \in Nat /\ DOMAIN ps = 1 .. Len(ps)
    BY <1>3 DEF IsForm
<1>7. Len(fp.files) = Len(ps)
    BY <1>5, <1>6, LengthOfFiles
<1>8. ASSUME NEW i \in 1 .. Len(ps)
      PROVE  /\ fp.files[i].content = ps[i].content
             /\ fp.files[i].head = IF i = 1 THEN ps[i].head ELSE Tail(ps[i].head)
    <2>1. PICK h : h = ps[i].head
        OBVIOUS
    <2>2. ps[i] \in Part
        BY <1>6
    <2>3. h \in Seq(Line) /\ (i # 1 => Len(h) # 0)
        BY <1>2, <2>1, <2>2 DEF Part, Clean
    <2>4. fp.files[i].content = ps[i].content /\ fp.files[i].head = SubSeq(h, Skip(i) + 1, Len(h))
        BY <1>5, <2>1 DEF Filled
    <2>5. CASE i = 1
        <3>1. SubSeq(h, 1, Len(h)) = h
            BY <2>3
        <3>2. Skip(i) + 1 = 1
            BY <2>5 DEF Skip
        <3> QED
            BY <2>1, <2>4, <2>5, <3>1, <3>2
    <2>6. CASE i # 1
        <3>1. SubSeq(h, 2, Len(h)) = Tail(h)
            BY <2>3, <2>6
        <3>2. Skip(i) + 1 = 2
            BY <2>6 DEF Skip
        <3> QED
            BY <2>1, <2>4, <2>6, <3>1, <3>2
    <2> QED
        BY <2>5, <2>6
<1> QED
    BY <1>1, <1>6, <1>7, <1>8 DEF FilesArePartsOf

(* The invariants of the server's side hold.                               *)
LEMMA ServerInvariant == Spec => [](ReqInv /\ CollectInv /\ FormInv)
<1>1. Init => ReqInv /\ CollectInv /\ FormInv
    BY DEF Init, RequestInit, ReqInv, CollectInv, FormInv
<1>2. ReqInv /\ CollectInv /\ FormInv /\ [Next]_allVars => ReqInv' /\ CollectInv' /\ FormInv'
    BY StepsOfParts, ReqInvNext, CollectNext, FormNext
<1> QED
    BY <1>1, <1>2, PTL DEF Spec, allVars

(* The parser fails only on a request without a Content-Type or with a     *)
(* parameter that is no boundary, on a form that is not recognisable, or   *)
(* when a read ended inside a boundary line: for every form, every         *)
(* boundary and every split.                                               *)
THEOREM ParserFailsOnlyOnSlices == Spec => []ParserFailsOnlyIfSliced
<1>1. CollectInv /\ FormInv => ParserFailsOnlyIfSliced
    <2> SUFFICES ASSUME CollectInv, FormInv, fp.status \in {"wild", "abort"}
                 PROVE  \/ reqst.type \in {"none", "params"}
                        \/ reqst.type = "form" /\ (sliced \/ ~Recognisable(reqst))
        BY DEF ParserFailsOnlyIfSliced
    <2>1. rpc = "route"
        BY DEF FormInv, NoParse
    <2>2. reqst.type \in {"none", "plain", "params", "form"}
        BY <2>1, RequestKinds DEF CollectInv
    <2>3. reqst.type # "plain"
        BY <2>1 DEF CollectInv, Collects
    <2>4. ~(GoodForm(reqst) /\ ~sliced)
        <3>1. ~InForm(reqst, fp, inp)
            BY InFormStatus
        <3> QED
            BY <2>1, <3>1 DEF FormInv
    <2> QED
        BY <2>2, <2>3, <2>4 DEF GoodForm
<1> QED
    BY <1>1, ServerInvariant, PTL

(* What roll gives the route is the body that was sent: a plain body byte  *)
(* for byte, and of a recognisable form all parts with their contents and  *)
(* headers, for every body and every split outside the boundary lines.     *)
THEOREM BodiesAreParsed == Spec => []BodiesParsed
<1>1. CollectInv /\ FormInv => FilesAreParts
    <2> SUFFICES ASSUME CollectInv, FormInv, rpc = "route", inp = <<>>, reqst.type = "form", ~sliced,
                        Recognisable(reqst)
                 PROVE  FilesArePartsOf(reqst)
        BY DEF FilesAreParts
    <2>1. reqst \in Requests /\ GoodForm(reqst)
        BY DEF CollectInv, GoodForm
    <2>2. InForm(reqst, fp, <<>>)
        BY <2>1 DEF FormInv
    <2> QED
        BY <2>1, <2>2, FilesThere
<1> QED
    BY <1>1, ServerInvariant, PlainBodiesCollected, PTL DEF BodiesParsed
=============================================================================
