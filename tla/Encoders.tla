------------------------------ MODULE Encoders ------------------------------
(***************************************************************************)
(* encode/: base64, uuencode and baseconvert.  The encoders work on C      *)
(* strings, sequences of bytes in which 0 is the end; sprintf(out, "%s%c", *)
(* out, c) appends.  Arithmetic is that of uint8_t.                        *)
(***************************************************************************)
EXTENDS Integers, Sequences, SequencesExt

\* The part of s that a C string has, and byte i of one.
CString(s) == IF Contains(s, 0) THEN SubSeq(s, 1, SelectInSeq(s, LAMBDA b : b = 0) - 1) ELSE s
ByteAt(s, i) == IF i < Len(s) THEN s[i + 1] ELSE 0
Steps(from, len, by) == [k \in 1 .. (len - from + by - 1) \div by |-> from + by * (k - 1)]

\* The four 6-bit numbers of three bytes; 64 stands for a missing byte.
Sextets(f, s, t) ==
    <<f \div 4, (f % 4) * 16 + (s \div 16),
      IF s = 0 THEN 64 ELSE (s % 16) * 4 + (t \div 64), IF t = 0 THEN 64 ELSE t % 64>>

\* left, middle and right
Octets(u) == <<((u[1] * 4) % 256) + (u[2] \div 16), ((u[2] * 16) % 256) + (u[3] \div 4),
               ((u[3] * 64) % 256) + u[4]>>

SextetsAt(string, i) == Sextets(ByteAt(string, i), ByteAt(string, i + 1), ByteAt(string, i + 2))
-----------------------------------------------------------------------------
char_index(c) ==
    CASE c <= 25 -> 65 + c
      [] c > 25 /\ c <= 51 -> 71 + c
      [] c > 51 /\ c <= 61 -> c - 52 + 48
      [] c = 62 -> 43
      [] c = 63 -> 47
      [] OTHER -> 61

\* 43, the character for 62, is not among them.
ichar_index(c) ==
    CASE 65 <= c /\ c <= 90 -> c - 65
      [] 97 <= c /\ c <= 122 -> c - 97 + 26
      [] 48 <= c /\ c <= 57 -> c - 48 + 52
      [] c = 47 -> 63
      [] OTHER -> 0

en_base64(string) ==
    LET in == CString(string)
        four(i) == [k \in 1 .. 4 |-> char_index(SextetsAt(in, i)[k])]
    IN FoldLeft(LAMBDA out, i : out \o four(i), <<>>, Steps(0, Len(in), 3))

de_base64(string) ==
    LET in == CString(string)
        u(i) == [k \in 1 .. 4 |-> ichar_index(ByteAt(in, i + k - 1))]
        wanted(v) == IF v[4] = 0 THEN 2 ELSE IF v[3] = 0 THEN 1 ELSE 3
    IN FoldLeft(LAMBDA out, i : CString(out \o SubSeq(Octets(u(i)), 1, wanted(u(i)))),
                <<>>, Steps(0, Len(in), 4))

\* What de_base64 does not bring back: 62, a last sextet of 0 and, before
\* another one, a third sextet of 0.
Base64Safe(string) ==
    \A i \in {3 * k : k \in 0 .. (Len(string) - 1) \div 3} :
        LET x == SextetsAt(string, i)
        IN /\ \A k \in 1 .. 4 : x[k] # 62
           /\ x[4] # 0
           /\ x[3] = 0 => x[4] = 64
-----------------------------------------------------------------------------
\* Lines of 45 bytes, each with its length in front; "\n`" ends the text.
en_uu(string) ==
    LET in == CString(string)
        left(i) == IF Len(in) - i >= 45 THEN 77 ELSE Len(in) - i + 32
        line(i) == IF ((i \div 3) * 4) % 60 # 0 THEN <<>>
                   ELSE IF i = 0 THEN <<left(i)>> ELSE <<10, left(i)>>
        four(i) == [k \in 1 .. 4 |-> SextetsAt(in, i)[k] + 32]
    IN FoldLeft(LAMBDA out, i : out \o line(i) \o four(i), <<>>, Steps(0, Len(in), 3)) \o <<10, 96>>

\* i is the place in " " \o in2, of which two bytes are skipped per line.  The
\* mutant does not count the bytes skipped in lines before.
LineBeginsUncounted(i, skipped) == i % 60 = 0
LineBegins(i, skipped) == (i - skipped * 2) % 60 = 0

RECURSIVE UuLoop(_, _, _, _)
UuLoop(in, i, skipped, out) ==
    IF i >= Len(in) - 1 THEN out
    ELSE LET here == IF LineBegins(i, skipped) THEN i + 2 ELSE i
             u == [k \in 1 .. 4 |-> (ByteAt(in, here + k - 1) - 32) % 256]
             bytes == SelectSeq(<<1, 2, 3>>, LAMBDA k : u[k] < 64 /\ u[k + 1] < 64)
             more == [k \in 1 .. Len(bytes) |-> Octets(u)[bytes[k]]]
         IN UuLoop(in, here + 4, IF here = i THEN skipped ELSE skipped + 1, CString(out \o more))
de_uu(string) == UuLoop(<<32>> \o CString(string), 0, 0, <<>>)
-----------------------------------------------------------------------------
\* The digits' value, and its digits in the other base with the last one first.
\* The powers are doubles, exact below 2^53; values stay below that here.
Value(digits, base) == FoldLeft(LAMBDA v, d : v * base + d, 0, digits)

RECURSIVE Digits(_, _)
Digits(out, base) == IF out = 0 THEN <<>> ELSE <<out % base>> \o Digits(out \div base, base)

l_baseconvert(digits, base_import, base_export) == Digits(Value(digits, base_import), base_export)
=============================================================================
