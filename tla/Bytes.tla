------------------------------- MODULE Bytes --------------------------------
(* Bytes as they arrive: sequences, searched the way memmem searches. *)
EXTENDS Naturals, Sequences

\* A byte is a name; "none" is kept for what is not there.  That these names
\* are strings is a fact of the language which the provers do not have.
Byte == STRING \ {"none"}
ASSUME ByteNames ==
    {"CR", "LF", "-", ":", " "} \subseteq Byte

CRLF == <<"CR", "LF">>

\* memmem: the first place at or after from where pat occurs in s; 0 for NULL.
memmem(s, from, pat) ==
    LET at == {i \in from .. Len(s) + 1 - Len(pat) : SubSeq(s, i, i + Len(pat) - 1) = pat}
    IN IF at = {} THEN 0 ELSE CHOOSE i \in at : \A j \in at : i <= j

\* The first and the last place of byte c in s; 0 if it does not occur.
FirstOf(s, c) == memmem(s, 1, <<c>>)
LastOf(s, c) ==
    LET at == {i \in DOMAIN s : s[i] = c}
    IN IF at = {} THEN 0 ELSE CHOOSE i \in at : \A j \in at : i >= j

From(s, i) == SubSeq(s, i, Len(s))
=============================================================================
