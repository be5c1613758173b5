----------------------------- MODULE WebSocket ------------------------------
(***************************************************************************)
(* net.wss: the handshake, and the object's read, write and close.  Bytes  *)
(* are numbers; the last byte of the handshake's header is EndOfHeader.    *)
(* SSL_read gives any part of what has arrived, 0 when the peer has closed *)
(* and a negative number when the connection is broken.                    *)
(***************************************************************************)
EXTENDS Naturals, Sequences, SequencesExt

CONSTANTS Frames,      \* frames of the peer: opcode, content, length form
          WriteLens,   \* lengths of what the program writes
          MaxFrames    \* bound on the peer's frames; reads go one further

\* read shifts the fifth of eight length bytes as an int, so that a length of
\* 2^31 or more would be sign-extended; such frames are left out.
MaxLength == 32767 * 65536 + 65535

Octet == {n \in Nat : n < 256}

ASSUME WebSocketAssumption ==
    /\ MaxFrames \in Nat
    /\ \A n \in WriteLens : n \in Nat /\ n <= MaxLength
    /\ \A f \in Frames : /\ f.op \in Nat /\ f.op < 16
                         /\ f.form \in {7, 16, 64}
                         /\ f.text \in Seq(Octet)
                         /\ Len(f.text) <= MaxLength
                         /\ f.form = 7 => Len(f.text) <= 125
                         /\ f.form = 16 => Len(f.text) <= 65535

VARIABLES
    peer,     \* the frames the peer sends, and how the connection ends
    wire,     \* bytes that have not been read
    wpc,      \* where the call is
    tmp,      \* bytes of the current header or length (buffer, total_len)
    frame,    \* opcode, payload length and message of the frame being read
    msgs,     \* the frames read has returned
    lost,     \* whether bytes read with the handshake were dropped
    cut,      \* whether the end of the connection was taken for data
    wrote,    \* the length bytes of the last frame written, and its length
    object    \* "open", "closed"; "twice" when the data was freed again

wsVars == <<peer, wire, wpc, tmp, frame, msgs, lost, cut, wrote, object>>

EndOfHeader == 300
HandshakeReply == <<301, 301, EndOfHeader>>
NoFrame == [op |-> 0, len |-> 0, text |-> <<>>]
-----------------------------------------------------------------------------
\* Lengths: 7 bits, or 126 and two bytes, or 127 and eight.
BigEndian(bytes) == LET V[i \in 0 .. Len(bytes)] ==
                           IF i = 0 THEN 0 ELSE 256 * V[i - 1] + bytes[i]
                    IN V[Len(bytes)]
Zeros(n) == [i \in 1 .. n |-> 0]
Two(n) == <<(n \div 256) % 256, n % 256>>
Eight(n) == LET high == n \div 65536
            IN <<0, 0, 0, 0, (high \div 256) % 256, high % 256, (n \div 256) % 256, n % 256>>

\* The peer's frames; it may use a longer form than it needs.
FormByte(f) == CASE f.form = 7 -> Len(f.text) [] f.form = 16 -> 126 [] f.form = 64 -> 127
FormExt(f) == CASE f.form = 7 -> <<>>
                [] f.form = 16 -> Two(Len(f.text))
                [] f.form = 64 -> Eight(Len(f.text))
WireFrame(f) == <<128 + f.op, FormByte(f)>> \o (FormExt(f) \o f.text)

\* The mutant uses the short form one too far.
WriteLengthOffByOne(n) ==
    IF n <= 126 THEN <<128 + n>>
    ELSE IF n <= 65535 THEN <<128 + 126>> \o Two(n)
    ELSE <<128 + 127>> \o Eight(n)

\* i_ws_write: the length with the mask bit.
WriteLength(n) ==
    IF n <= 125 THEN <<128 + n>>
    ELSE IF n <= 65535 THEN <<128 + 126>> \o Two(n)
    ELSE <<128 + 127>> \o Eight(n)

\* i_ws_read: how many length bytes follow the first two, and the length.
ExtBytes(b) == CASE b % 128 <= 125 -> 0 [] b % 128 = 126 -> 2 [] OTHER -> 8
Length(b, ext) == IF ExtBytes(b) = 0 THEN b % 128 ELSE BigEndian(ext)
-----------------------------------------------------------------------------
WsInit ==
    /\ peer = [frames |-> <<>>, end |-> "open"]
    /\ wire = <<>>
    /\ wpc = "unused"
    /\ tmp = <<>>
    /\ frame = NoFrame
    /\ msgs = <<>>
    /\ lost = FALSE
    /\ cut = FALSE
    /\ wrote = [bytes |-> <<128>>, len |-> 0]
    /\ object = "open"

\* l_wss connects and sends the handshake; the peer may stop in its reply.
Connect(s, end) ==
    /\ wpc = "unused"
    /\ wpc' = "shake"
    /\ peer' = [frames |-> s, end |-> end]
    /\ \/ wire' = HandshakeReply \o FlattenSeq([i \in DOMAIN s |-> WireFrame(s[i])])
       \/ wire' = Front(HandshakeReply)
    /\ UNCHANGED <<tmp, frame, msgs, lost, cut, wrote, object>>

\* l_wss reads until the header's end has arrived; what came after it in the
\* same read is dropped ("data->buffer = str_init("")").
Shake(n) ==
    /\ wpc = "shake"
    /\ n \in 1 .. Len(wire)
    /\ wire' = SubSeq(wire, n + 1, Len(wire))
    /\ LET at == {i \in 1 .. n : wire[i] = EndOfHeader}
       IN IF at = {} THEN UNCHANGED <<wpc, lost>>
          ELSE wpc' = "idle" /\ lost' = (n \notin at)
    /\ UNCHANGED <<peer, tmp, frame, msgs, cut, wrote, object>>

\* The peer closes before the header's end: an error is returned.
ShakeFails ==
    /\ wpc = "shake" /\ wire = <<>> /\ peer.end = "close"
    /\ wpc' = "failed"
    /\ UNCHANGED <<peer, wire, tmp, frame, msgs, lost, cut, wrote, object>>

WsReadCall ==
    /\ wpc = "idle" /\ object = "open" /\ Len(msgs) <= MaxFrames
    /\ wpc' = "head"
    /\ tmp' = <<>>
    /\ frame' = NoFrame
    /\ UNCHANGED <<peer, wire, msgs, lost, cut, wrote, object>>

\* How many bytes the current loop still asks for.
Wanted == CASE wpc = "head" -> 2 - Len(tmp)
            [] wpc = "ext" -> ExtBytes(frame.len) - Len(tmp)
            [] wpc = "payload" -> frame.len - Len(frame.text)
            [] OTHER -> 0

\* The end of one of read's loops, with the bytes b in its buffer.
AfterHead(b) ==
    /\ frame' = [op |-> b[1] % 16, len |-> b[2] % 128, text |-> <<>>]
    /\ tmp' = <<>>
    /\ wpc' = IF ExtBytes(b[2]) > 0 THEN "ext" ELSE "payload"
    /\ UNCHANGED msgs
AfterExt(b) ==
    /\ frame' = [frame EXCEPT !.len = Length(frame.len, b)]
    /\ tmp' = <<>>
    /\ wpc' = "payload"
    /\ UNCHANGED msgs

\* The mutant gives up after the first piece of a header.
LoopDoneFirst(b, want) == TRUE

\* "if(total_len >= 2) break;"
LoopDone(b, want) == Len(b) >= want

WsPiece(n) ==
    /\ wpc \in {"head", "ext", "payload"}
    /\ n \in 1 .. Wanted
    /\ n <= Len(wire)
    /\ wire' = SubSeq(wire, n + 1, Len(wire))
    /\ LET bytes == SubSeq(wire, 1, n)
           b == tmp \o bytes
           size == Len(tmp) + Wanted
       IN CASE wpc = "payload" ->
                 /\ frame' = [frame EXCEPT !.text = @ \o bytes]
                 /\ UNCHANGED <<tmp, wpc, msgs>>
            [] wpc # "payload" /\ ~LoopDone(b, size) ->
                 tmp' = b /\ UNCHANGED <<frame, wpc, msgs>>
            [] wpc = "head" /\ LoopDone(b, size) -> AfterHead(b \o Zeros(size - Len(b)))
            [] wpc = "ext" /\ LoopDone(b, size) -> AfterExt(b \o Zeros(size - Len(b)))
    /\ UNCHANGED <<peer, lost, cut, wrote, object>>

Return == /\ msgs' = Append(msgs, [op |-> frame.op, text |-> frame.text])
          /\ wpc' = "idle"
          /\ UNCHANGED <<tmp, frame>>

\* The message is complete.
WsReturn ==
    /\ wpc = "payload" /\ Wanted = 0
    /\ Return
    /\ UNCHANGED <<peer, wire, lost, cut, wrote, object>>

\* SSL_read returns 0: the loop ends, and the call goes on with zeros.
WsEnd ==
    /\ wpc \in {"head", "ext", "payload"}
    /\ Wanted > 0 /\ wire = <<>> /\ peer.end = "close"
    /\ cut' = TRUE
    /\ LET b == tmp \o Zeros(Wanted)
       IN CASE wpc = "head" -> AfterHead(b)
            [] wpc = "ext" -> AfterExt(b)
            [] wpc = "payload" -> Return
    /\ UNCHANGED <<peer, wire, lost, wrote, object>>

\* SSL_read fails: read returns an error.  In the handshake the negative
\* number is kept in a uint64_t and taken for a length.
WsBreaks ==
    /\ wire = <<>> /\ peer.end = "break"
    /\ \/ wpc = "shake" /\ wpc' = "wild"
       \/ wpc # "shake" /\ Wanted > 0 /\ wpc' = "idle"
    /\ UNCHANGED <<peer, wire, tmp, frame, msgs, lost, cut, wrote, object>>

WsWrite(n) ==
    /\ wpc = "idle" /\ object = "open" /\ msgs = <<>>
    /\ wrote' = [bytes |-> WriteLength(n), len |-> n]
    /\ UNCHANGED <<peer, wire, wpc, tmp, frame, msgs, lost, cut, object>>

\* The mutant keeps the pointer.
WsCloseKeepsPointer ==
    /\ wpc = "idle"
    /\ object' = IF object = "open" THEN "closed" ELSE "twice"
    /\ UNCHANGED <<peer, wire, wpc, tmp, frame, msgs, lost, cut, wrote>>

\* close, and __gc: the data is freed and "_" set to nil.
WsClose ==
    /\ wpc = "idle"
    /\ object' = "closed"
    /\ UNCHANGED <<peer, wire, wpc, tmp, frame, msgs, lost, cut, wrote>>

\* read or write on a closed object follows a null pointer.
WsUseClosed ==
    /\ wpc = "idle" /\ object = "closed"
    /\ wpc' = "wild"
    /\ UNCHANGED <<peer, wire, tmp, frame, msgs, lost, cut, wrote, object>>

WsNext ==
    \/ \E s \in UNION {[1 .. n -> Frames] : n \in 1 .. MaxFrames},
         end \in {"open", "close", "break"} : Connect(s, end)
    \/ \E n \in 1 .. Len(wire) : Shake(n) \/ WsPiece(n)
    \/ ShakeFails \/ WsReadCall \/ WsReturn \/ WsEnd
    \/ WsBreaks \/ WsClose \/ WsUseClosed
    \/ \E n \in WriteLens : WsWrite(n)
-----------------------------------------------------------------------------
WsTypeOK ==
    /\ wpc \in {"unused", "shake", "idle", "head", "ext", "payload", "wild", "failed"}
    /\ Len(tmp) <= 8 /\ Len(frame.text) <= frame.len
    /\ object \in {"open", "closed", "twice"}

\* "reads oldest unread frame from server": the messages read are the peer's
\* frames in their order, however the bytes are split and whatever form a
\* length has, unless bytes were lost with the handshake or the end of the
\* connection was taken for data (net.c 199-248, 350-366).
MessagesAreFrames ==
    ~lost /\ ~cut =>
        IsPrefix(msgs, [i \in DOMAIN peer.frames |->
                            [op |-> peer.frames[i].op, text |-> peer.frames[i].text]])

\* What write sends can be read: the length bytes give the length by the rules
\* of read, at each boundary between the forms (net.c 206-235, 268-275).
WrittenLengthReads == LET b == wrote.bytes
                      IN /\ Len(Tail(b)) = ExtBytes(b[1])
                         /\ Length(b[1], Tail(b)) = wrote.len

\* close followed by __gc, or by another close, frees the data once.
WsFreedOnce == object # "twice"
=============================================================================
