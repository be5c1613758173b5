-------------------------- MODULE WebSocketProofs ---------------------------
(***************************************************************************)
(* What a websocket's read and write do with frames of every length,       *)
(* however the network splits them.  The first part is about FlattenSeq,   *)
(* by which the peers of WebSocket and HttpClient put their bytes in line. *)
(***************************************************************************)
EXTENDS WebSocket, SequenceTheorems, WellFoundedInduction, TLAPS

(* A set of naturals that is not empty has a least member.                 *)
LEMMA LeastOfNaturals ==
    ASSUME NEW S \in SUBSET Nat, S # {}
    PROVE  \E x \in S : \A y \in S : x =< y
<1> DEFINE R == {ss \in Nat \X Nat : ss[1] < ss[2]}
<1>1. PICK x \in S : \A y \in S : <<y, x>> \notin R
    <2>1. IsWellFoundedOn(R, Nat)
        BY NatLessThanWellFounded DEF OpToRel
    <2> HIDE DEF R
    <2> QED
        BY <2>1, WFMin
<1>2. \A y \in S : x =< y
    <2> SUFFICES ASSUME NEW y \in S, y < x PROVE FALSE
        BY <1>1
    <2>1. <<y, x>> \in R
        OBVIOUS
    <2> QED
        BY <1>1, <2>1
<1> QED
    BY <1>2

(* What FlattenSeq joins: f[i] is the concatenation of the first i parts.  *)
(* The function exists and has sequences as values, since a least i where  *)
(* it had not would follow one where it has.                               *)
LEMMA FlattenNonEmpty ==
    ASSUME NEW S, NEW ss \in Seq(Seq(S)), Len(ss) # 0
    PROVE  \E f \in [1 .. Len(ss) -> Seq(S)] :
             /\ FlattenSeq(ss) = f[Len(ss)]
             /\ \A i \in 1 .. Len(ss) : f[i] = IF i = 1 THEN ss[i] ELSE f[i - 1] \o ss[i]
<1> DEFINE N == Len(ss)
           Joins(f, n) == \A i \in 1 .. n : f[i] = IF i = 1 THEN ss[i] ELSE f[i - 1] \o ss[i]
           Bad == {n \in 1 .. N : ~ \E f \in [1 .. n -> Seq(S)] : Joins(f, n)}
<1>0. N \in Nat /\ N # 0 /\ \A i \in 1 .. N : ss[i] \in Seq(S)
    OBVIOUS
<1>1. Bad = {}
    <2> SUFFICES ASSUME Bad # {} PROVE FALSE
        OBVIOUS
    <2>1. PICK m \in Bad : \A y \in Bad : m =< y
        <3>1. Bad \in SUBSET Nat
            BY <1>0
        <3> HIDE DEF Bad
        <3> QED
            BY <3>1, LeastOfNaturals
    <2>2. m \in 1 .. N
        OBVIOUS
    <2>3. CASE m = 1
        <3>1. [i \in 1 .. 1 |-> ss[1]] \in [1 .. 1 -> Seq(S)]
            BY <1>0, <2>2
        <3>2. Joins([i \in 1 .. 1 |-> ss[1]], 1)
            BY <1>0
        <3> QED
            BY <2>3, <3>1, <3>2
    <2>4. CASE m # 1
        <3>1. m - 1 \in 1 .. N /\ m - 1 \notin Bad
            <4> HIDE DEF Bad, N
            <4> QED
                BY <1>0, <2>1, <2>2, <2>4
        <3>2. PICK f \in [1 .. m - 1 -> Seq(S)] : Joins(f, m - 1)
            BY <3>1
        <3> DEFINE g == [i \in 1 .. m |-> IF i = m THEN f[m - 1] \o ss[m] ELSE f[i]]
        <3>3. f[m - 1] \o ss[m] \in Seq(S)
            BY <1>0, <2>2, <3>1
        <3>4. g \in [1 .. m -> Seq(S)]
            BY <2>2, <3>3
        <3>5. Joins(g, m)
            <4> SUFFICES ASSUME NEW i \in 1 .. m
                         PROVE  g[i] = IF i = 1 THEN ss[i] ELSE g[i - 1] \o ss[i]
                OBVIOUS
            <4>1. CASE i = m
                <5>1. m - 1 \in 1 .. m /\ m - 1 # m
                    BY <3>1
                <5> QED
                    BY <2>4, <4>1, <5>1
            <4>2. CASE i # m
                <5>1. i \in 1 .. m - 1 /\ (i # 1 => i - 1 \in 1 .. m /\ i - 1 # m)
                    BY <2>2, <4>2
                <5>2. f[i] = IF i = 1 THEN ss[i] ELSE f[i - 1] \o ss[i]
                    BY <3>2, <5>1
                <5> QED
                    BY <4>2, <5>1, <5>2
            <4> QED
                BY <4>1, <4>2
        <3> QED
            BY <3>4, <3>5
    <2> QED
        BY <2>3, <2>4
<1>2. PICK f \in [1 .. N -> Seq(S)] : Joins(f, N)
    <2>1. N \in 1 .. N /\ N \notin Bad
        <3> HIDE DEF N, Bad
        <3> QED
            BY <1>0, <1>1
    <2> QED
        BY <2>1
<1>3. f = [i \in 1 .. N |-> IF i = 1 THEN ss[i] ELSE f[i - 1] \o ss[i]]
    BY <1>2
<1> DEFINE flatten == CHOOSE g : g = [i \in 1 .. N |-> IF i = 1 THEN ss[i] ELSE g[i - 1] \o ss[i]]
<1>4. flatten = [i \in 1 .. N |-> IF i = 1 THEN ss[i] ELSE flatten[i - 1] \o ss[i]]
    BY <1>3
<1>5. FlattenSeq(ss) = flatten[N]
    BY DEF FlattenSeq
<1>6. \A i \in 1 .. N : flatten[i] = IF i = 1 THEN ss[i] ELSE flatten[i - 1] \o ss[i]
    <2> HIDE DEF flatten
    <2> QED
    BY <1>4
<1> HIDE DEF flatten
<1> DEFINE Wrong == {n \in 1 .. N : flatten[n] \notin Seq(S)}
<1>7. Wrong = {}
    <2> SUFFICES ASSUME Wrong # {} PROVE FALSE
        OBVIOUS
    <2>1. PICK m \in Wrong : \A y \in Wrong : m =< y
        <3>1. Wrong \in SUBSET Nat
            BY <1>0
        <3> HIDE DEF Wrong
        <3> QED
            BY <3>1, LeastOfNaturals
    <2>2. CASE m = 1
        BY <1>0, <1>6, <2>2
    <2>3. CASE m # 1
        <3>1. m - 1 \in 1 .. N /\ flatten[m - 1] \in Seq(S)
            BY <1>0, <2>1, <2>3
        <3>2. flatten[m] = flatten[m - 1] \o ss[m] /\ ss[m] \in Seq(S)
            BY <1>0, <1>6, <2>3
        <3>3. flatten[m - 1] \o ss[m] \in Seq(S)
            BY <3>1, <3>2, ConcatProperties
        <3>4. flatten[m] \in Seq(S)
            BY <3>2, <3>3
        <3> QED
            BY <3>4
    <2> QED
        BY <2>2, <2>3
<1>8. flatten \in [1 .. N -> Seq(S)]
    <2>1. DOMAIN flatten = 1 .. N
        BY <1>4
    <2>2. flatten = [i \in 1 .. N |-> flatten[i]]
        BY <1>4, <2>1
    <2> QED
        BY <1>7, <2>2
<1> QED
    BY <1>5, <1>6, <1>8

(* The same with the empty prefix.                                         *)
LEMMA FlattenPrefixes ==
    ASSUME NEW S, NEW ss \in Seq(Seq(S))
    PROVE  \E f \in [0 .. Len(ss) -> Seq(S)] :
             /\ f[0] = <<>> /\ f[Len(ss)] = FlattenSeq(ss)
             /\ \A i \in 1 .. Len(ss) : f[i] = f[i - 1] \o ss[i]
<1> DEFINE N == Len(ss)
<1>1. CASE N = 0
    <2>1. ss = <<>> /\ FlattenSeq(ss) = <<>>
        BY <1>1 DEF FlattenSeq
    <2> DEFINE f == [i \in 0 .. 0 |-> <<>>]
    <2>2. f \in [0 .. 0 -> Seq(S)]
        OBVIOUS
    <2>3. f[0] = <<>> /\ 1 .. 0 = {}
        OBVIOUS
    <2> HIDE DEF f
    <2> QED
        BY <1>1, <2>1, <2>2, <2>3
<1>2. CASE N # 0
    <2>1. PICK g \in [1 .. N -> Seq(S)] :
            /\ FlattenSeq(ss) = g[N]
            /\ \A i \in 1 .. N : g[i] = IF i = 1 THEN ss[i] ELSE g[i - 1] \o ss[i]
        BY <1>2, FlattenNonEmpty
    <2> DEFINE f == [i \in 0 .. N |-> IF i = 0 THEN <<>> ELSE g[i]]
    <2>2. N \in Nat /\ N # 0 /\ \A i \in 1 .. N : ss[i] \in Seq(S)
        BY <1>2
    <2>3. f \in [0 .. N -> Seq(S)] /\ f[0] = <<>> /\ f[N] = FlattenSeq(ss)
        <3> HIDE DEF N
        <3> QED
            BY <2>1, <2>2
    <2>4. ASSUME NEW i \in 1 .. N PROVE f[i] = f[i - 1] \o ss[i]
        <3>1. CASE i = 1
            <4>1. f[1] = ss[1] /\ f[0] = <<>> /\ ss[1] \in Seq(S) /\ i - 1 = 0
                <5>1. 1 \in 1 .. N /\ 1 \in 0 .. N /\ 0 \in 0 .. N
                    BY <2>2
                <5>2. g[1] = ss[1] /\ ss[1] \in Seq(S)
                    BY <2>1, <2>2, <5>1
                <5> HIDE DEF N
                <5> QED
                    BY <3>1, <5>1, <5>2
            <4> QED
                BY <3>1, <4>1, ConcatEmptySeq
        <3>2. CASE i # 1
            <4>1. i - 1 \in 0 .. N /\ i - 1 # 0 /\ i \in 0 .. N /\ i # 0
                BY <2>2, <3>2
            <4> QED
                BY <2>1, <3>2, <4>1
        <3> QED
            BY <3>1, <3>2
    <2> HIDE DEF f
    <2> QED
        BY <2>3, <2>4
<1> QED
    BY <1>1, <1>2

(* The same from behind: w[k] is what is left after the first k parts.     *)
IsLeft(w, ss, S) ==
    /\ w \in [0 .. Len(ss) -> Seq(S)]
    /\ w[0] = FlattenSeq(ss) /\ w[Len(ss)] = <<>>
    /\ \A k \in 1 .. Len(ss) : w[k - 1] = ss[k] \o w[k]

(* A flattened sequence, seen from what is left of it after each part.     *)
LEMMA FlattenSuffixes ==
    ASSUME NEW S, NEW ss \in Seq(Seq(S))
    PROVE  \E w : IsLeft(w, ss, S)
<1> DEFINE N == Len(ss)
<1>1. PICK f \in [0 .. N -> Seq(S)] : /\ f[0] = <<>> /\ f[N] = FlattenSeq(ss)
                                     /\ \A i \in 1 .. N : f[i] = f[i - 1] \o ss[i]
    BY FlattenPrefixes
<1> DEFINE Left(w, n) == /\ w \in [n .. N -> Seq(S)]
                         /\ w[N] = <<>>
                         /\ \A k \in n + 1 .. N : w[k - 1] = ss[k] \o w[k]
                         /\ \A k \in n .. N : f[k] \o w[k] = FlattenSeq(ss)
           Bad == {m \in 0 .. N : ~ \E w : Left(w, N - m)}
<1>2. N \in Nat /\ \A i \in 1 .. N : ss[i] \in Seq(S)
    OBVIOUS
<1>3. Bad = {}
    <2> SUFFICES ASSUME Bad # {} PROVE FALSE
        OBVIOUS
    <2>1. PICK m \in Bad : \A y \in Bad : m =< y
        <3>1. Bad \in SUBSET Nat
            <4> HIDE DEF Left, N
            <4> QED
                BY <1>2
        <3> HIDE DEF Bad
        <3> QED
            BY <3>1, LeastOfNaturals
    <2>2. m \in 0 .. N
        OBVIOUS
    <2>3. CASE m = 0
        <3> HIDE DEF N
        <3>1. f[N] \o <<>> = f[N]
            BY <1>1, <1>2, ConcatEmptySeq
        <3>2. [k \in N .. N |-> <<>>] \in [N .. N -> Seq(S)]
            OBVIOUS
        <3>3. Left([k \in N .. N |-> <<>>], N)
            <4> DEFINE w == [k \in N .. N |-> <<>>]
            <4>1. w \in [N .. N -> Seq(S)] /\ w[N] = <<>> /\ N + 1 .. N = {}
                BY <1>2, <3>2
            <4>2. \A k \in N .. N : k = N
                BY <1>2
            <4> HIDE DEF w
            <4>3. \A k \in N .. N : f[k] \o w[k] = FlattenSeq(ss)
                BY <1>1, <3>1, <4>1, <4>2
            <4>4. Left(w, N)
                BY <4>1, <4>3
            <4> QED
                BY <4>4 DEF w
        <3>4. N - m = N
            BY <1>2, <2>3
        <3> QED
            BY <3>3, <3>4
    <2>4. CASE m # 0
        <3>1. m - 1 \in 0 .. N /\ m - 1 \notin Bad
            <4> HIDE DEF Bad, N
            <4> QED
                BY <1>2, <2>1, <2>2, <2>4
        <3> DEFINE n == N - m
        <3>2. n + 1 = N - (m - 1) /\ n \in 0 .. N - 1 /\ n + 1 \in 1 .. N
            <4> HIDE DEF N
            <4> QED
                BY <1>2, <2>2, <2>4
        <3> HIDE DEF n, N
        <3>3. PICK w : Left(w, n + 1)
            BY <3>1, <3>2
        <3> DEFINE v == [k \in n .. N |-> IF k = n THEN ss[n + 1] \o w[n + 1] ELSE w[k]]
        <3>4. ss[n + 1] \in Seq(S) /\ w[n + 1] \in Seq(S) /\ f[n] \in Seq(S)
            BY <1>1, <1>2, <3>2, <3>3
        <3>5. ss[n + 1] \o w[n + 1] \in Seq(S)
            BY <3>4, ConcatProperties
        <3>6. v \in [n .. N -> Seq(S)] /\ v[N] = <<>>
            BY <1>2, <3>2, <3>3, <3>5
        <3>7. ASSUME NEW k \in n + 1 .. N PROVE v[k - 1] = ss[k] \o v[k]
            <4>1. CASE k = n + 1
                <5>1. k - 1 = n /\ k # n /\ k \in n .. N /\ n \in n .. N
                    BY <1>2, <3>2, <4>1
                <5> QED
                    BY <4>1, <5>1
            <4>2. CASE k # n + 1
                <5>1. k \in n + 2 .. N /\ k - 1 \in n .. N /\ k - 1 # n /\ k # n /\ k \in n .. N
                    BY <1>2, <3>2, <4>2
                <5>2. w[k - 1] = ss[k] \o w[k]
                    <6>1. k \in (n + 1) + 1 .. N
                        BY <3>2, <5>1
                    <6> QED
                        BY <3>3, <6>1
                <5> QED
                    BY <5>1, <5>2
            <4> QED
                BY <4>1, <4>2
        <3>8. ASSUME NEW k \in n .. N PROVE f[k] \o v[k] = FlattenSeq(ss)
            <4>1. CASE k = n
                <5>1. f[n + 1] = f[n] \o ss[n + 1]
                    <6>1. (n + 1) - 1 = n
                        BY <3>2
                    <6> QED
                        BY <1>1, <3>2, <6>1
                <5>2. f[n + 1] \o w[n + 1] = FlattenSeq(ss)
                    <6>1. n + 1 \in n + 1 .. N
                        BY <1>2, <3>2
                    <6> QED
                        BY <3>3, <6>1
                <5>3. (f[n] \o ss[n + 1]) \o w[n + 1] = f[n] \o (ss[n + 1] \o w[n + 1])
                    <6>1. \A a, b, c \in Seq(S) : (a \o b) \o c = a \o (b \o c)
                        BY ConcatAssociative, SMTT(30)
                    <6> QED
                        BY <3>4, <6>1, Zenon
                <5> QED
                    BY <4>1, <5>1, <5>2, <5>3
            <4>2. CASE k # n
                <5>1. k \in n + 1 .. N
                    BY <1>2, <3>2, <4>2
                <5> QED
                    BY <3>3, <4>2, <5>1
            <4> QED
                BY <4>1, <4>2
        <3> HIDE DEF v
        <3>9. Left(v, n)
            BY <3>6, <3>7, <3>8
        <3> QED
            BY <2>1, <3>9 DEF n
    <2> QED
        BY <2>3, <2>4
<1>4. PICK w : Left(w, 0)
    <2>1. N \in 0 .. N /\ N \notin Bad /\ N - N = 0
        <3> HIDE DEF N, Bad
        <3> QED
            BY <1>2, <1>3
    <2>2. \E w : Left(w, N - N)
        BY <2>1
    <2> QED
        BY <2>1, <2>2
<1>5. w[0] = FlattenSeq(ss)
    <2>1. f[0] \o w[0] = FlattenSeq(ss) /\ w[0] \in Seq(S)
        <3>1. 0 \in 0 .. N
            BY <1>2
        <3> QED
            BY <1>4, <3>1
    <2> QED
        BY <1>1, <2>1, ConcatEmptySeq
<1>6. 0 + 1 = 1
    OBVIOUS
<1> QED
    BY <1>4, <1>5, <1>6 DEF IsLeft

-----------------------------------------------------------------------------
(* Lengths: what read makes of two and of eight length bytes, and that it  *)
(* is the length the bytes were made for.                                  *)
LEMMA BigEndianTwo ==
    ASSUME NEW b \in Seq(Nat), Len(b) = 2
    PROVE  BigEndian(b) = 256 * b[1] + b[2]
<1> DEFINE f == [i \in 0 .. 2 |-> IF i = 0 THEN 0 ELSE IF i = 1 THEN b[1] ELSE 256 * b[1] + b[2]]
           V == CHOOSE g : g = [i \in 0 .. 2 |-> IF i = 0 THEN 0 ELSE 256 * g[i - 1] + b[i]]
<1>0. b \in [1 .. 2 -> Nat]
    BY LenProperties
<1>1. b[1] \in Nat /\ b[2] \in Nat
    BY <1>0
<1>2. f = [i \in 0 .. 2 |-> IF i = 0 THEN 0 ELSE 256 * f[i - 1] + b[i]]
    BY <1>1
<1>3. V = [i \in 0 .. 2 |-> IF i = 0 THEN 0 ELSE 256 * V[i - 1] + b[i]]
    <2> HIDE DEF f
    <2> QED
        BY <1>2
<1>4. BigEndian(b) = V[2]
    BY DEF BigEndian
<1> HIDE DEF V
<1>5. V[0] = 0
    BY <1>3
<1>6. V[1] = 256 * V[0] + b[1]
    BY <1>3
<1>7. V[2] = 256 * V[1] + b[2]
    BY <1>3
<1> QED
    BY <1>1, <1>4, <1>5, <1>6, <1>7

(* Eight bytes of which the first four are 0.                              *)
LEMMA BigEndianEight ==
    ASSUME NEW b \in Seq(Nat), Len(b) = 8, b[1] = 0, b[2] = 0, b[3] = 0, b[4] = 0
    PROVE  BigEndian(b) = 256 * (256 * (256 * b[5] + b[6]) + b[7]) + b[8]
<1> DEFINE v6 == 256 * b[5] + b[6]
           v7 == 256 * v6 + b[7]
           v8 == 256 * v7 + b[8]
           f == [i \in 0 .. 8 |-> IF i =< 4 THEN 0 ELSE IF i = 5 THEN b[5]
                                  ELSE IF i = 6 THEN v6 ELSE IF i = 7 THEN v7 ELSE v8]
           V == CHOOSE g : g = [i \in 0 .. 8 |-> IF i = 0 THEN 0 ELSE 256 * g[i - 1] + b[i]]
<1>0. b \in [1 .. 8 -> Nat]
    BY LenProperties
<1>1. b[5] \in Nat /\ b[6] \in Nat /\ b[7] \in Nat /\ b[8] \in Nat
    BY <1>0
<1>2. v6 \in Nat /\ v7 \in Nat /\ v8 \in Nat
    <2>1. \A x, y \in Nat : 256 * x + y \in Nat
        OBVIOUS
    <2>2. v6 \in Nat
        BY <1>1, <2>1
    <2>3. v7 \in Nat
        BY <1>1, <2>1, <2>2
    <2> QED
        BY <1>1, <2>1, <2>2, <2>3, ZenonT(60)
<1>3. f = [i \in 0 .. 8 |-> IF i = 0 THEN 0 ELSE 256 * f[i - 1] + b[i]]
    <2> SUFFICES ASSUME NEW i \in 0 .. 8
                 PROVE  f[i] = IF i = 0 THEN 0 ELSE 256 * f[i - 1] + b[i]
        OBVIOUS
    <2>1. CASE i =< 4
        BY <2>1
    <2>2. CASE i = 5
        BY <1>1, <2>2
    <2>3. CASE i = 6
        BY <1>1, <2>3
    <2>4. CASE i = 7
        <3> HIDE DEF v6
        <3> QED
            BY <1>1, <1>2, <2>4
    <2>5. CASE i = 8
        <3> HIDE DEF v7
        <3> QED
            BY <1>1, <1>2, <2>5
    <2> QED
        BY <2>1, <2>2, <2>3, <2>4, <2>5
<1>4. V = [i \in 0 .. 8 |-> IF i = 0 THEN 0 ELSE 256 * V[i - 1] + b[i]]
    <2> HIDE DEF f
    <2> QED
        BY <1>3
<1>5. BigEndian(b) = V[8]
    BY DEF BigEndian
<1> HIDE DEF V
<1>6. V[0] = 0
    BY <1>4
<1>7. V[1] = 256 * V[0] + b[1] /\ V[2] = 256 * V[1] + b[2]
    BY <1>4
<1>8. V[3] = 256 * V[2] + b[3] /\ V[4] = 256 * V[3] + b[4]
    BY <1>4
<1>9. V[5] = 256 * V[4] + b[5] /\ V[6] = 256 * V[5] + b[6]
    BY <1>4
<1>10. V[7] = 256 * V[6] + b[7] /\ V[8] = 256 * V[7] + b[8]
    BY <1>4
<1>11. V[4] = 0
    BY <1>6, <1>7, <1>8
<1> QED
    BY <1>1, <1>5, <1>9, <1>10, <1>11

(* The quotients and remainders of the length bytes.                       *)
LEMMA DivMod ==
    ASSUME NEW n \in Nat
    PROVE  /\ n % 256 \in Octet /\ (n \div 256) % 256 \in Octet
           /\ n \div 65536 \in Nat /\ n % 65536 \in Nat
           /\ 65536 * (n \div 65536) + (n % 65536) = n
           /\ 256 * ((n \div 256) % 256) + (n % 256) = n % 65536
<1>1. n % 256 \in Octet
    BY DEF Octet
<1>2. n \div 256 \in Nat
    OBVIOUS
<1>3. (n \div 256) % 256 \in Octet
    BY <1>2 DEF Octet
<1>4. n \div 65536 \in Nat /\ n % 65536 \in Nat
    OBVIOUS
<1>5. 65536 * (n \div 65536) + (n % 65536) = n
    OBVIOUS
<1>6. 256 * ((n \div 256) % 256) + (n % 256) = n % 65536
    OBVIOUS
<1> QED
    BY <1>1, <1>3, <1>4, <1>5, <1>6

(* A number in two bytes reads as the number modulo 2^16.                  *)
LEMMA TwoBytes ==
    ASSUME NEW n \in Nat
    PROVE  /\ Two(n) \in Seq(Octet) /\ Len(Two(n)) = 2
           /\ BigEndian(Two(n)) = n % 65536
<1> DEFINE x == (n \div 256) % 256
           y == n % 256
<1>1. x \in Octet /\ y \in Octet /\ 256 * x + y = n % 65536
    BY DivMod
<1>2. Two(n) = <<x, y>>
    BY DEF Two
<1> HIDE DEF x, y
<1>3. Octet \subseteq Nat
    BY DEF Octet
<1> DEFINE b == <<x, y>>
<1>4. b \in Seq(Octet) /\ b \in Seq(Nat) /\ Len(b) = 2 /\ b[1] = x /\ b[2] = y
    BY <1>1, <1>3
<1> HIDE DEF b
<1>5. BigEndian(b) = 256 * b[1] + b[2]
    BY <1>4, BigEndianTwo
<1> QED
    BY <1>1, <1>2, <1>4, <1>5 DEF b

(* A number below 2^31 in eight bytes reads as itself.                     *)
LEMMA EightBytes ==
    ASSUME NEW n \in Nat, n <= MaxLength
    PROVE  Eight(n) \in Seq(Octet) /\ Len(Eight(n)) = 8 /\ BigEndian(Eight(n)) = n
<1> DEFINE q == n \div 65536
           r == n % 65536
           b5 == (q \div 256) % 256
           b6 == q % 256
           b7 == (n \div 256) % 256
           b8 == n % 256
           e == Eight(n)
<1>1. q \in Nat /\ r \in Nat /\ 65536 * q + r = n
    BY DivMod
<1>2. q % 65536 = q
    <2>1. n <= 32767 * 65536 + 65535
        BY DEF MaxLength
    <2>2. q < 65536
        <3> HIDE DEF q, r
        <3> QED
            BY <1>1, <2>1
    <2> HIDE DEF q
    <2> QED
        BY <1>1, <2>2
<1>3. b7 \in Octet /\ b8 \in Octet /\ 256 * b7 + b8 = r
    BY DivMod
<1> HIDE DEF q
<1>4. b5 \in Octet /\ b6 \in Octet /\ 256 * b5 + b6 = q
    BY <1>1, <1>2, DivMod
<1>5. e = <<0, 0, 0, 0, b5, b6, b7, b8>>
    BY DEF Eight, q
<1> HIDE DEF r, b5, b6, b7, b8, e
<1>6. Octet \subseteq Nat /\ 0 \in Octet
    BY DEF Octet
<1>7. e \in Seq(Octet) /\ e \in Seq(Nat) /\ Len(e) = 8
    BY <1>3, <1>4, <1>5, <1>6
<1>8. /\ e[1] = 0 /\ e[2] = 0 /\ e[3] = 0 /\ e[4] = 0
      /\ e[5] = b5 /\ e[6] = b6 /\ e[7] = b7 /\ e[8] = b8
    BY <1>5
<1>9. BigEndian(e) = 256 * (256 * (256 * b5 + b6) + b7) + b8
    BY <1>7, <1>8, BigEndianEight, ZenonT(60)
<1>10. 256 * (256 * q + b7) + b8 = 65536 * q + (256 * b7 + b8)
    BY <1>1, <1>3, <1>6
<1> QED
    BY <1>1, <1>3, <1>4, <1>7, <1>9, <1>10 DEF e

(* Octets are naturals.                                                    *)
LEMMA OctetsAreNats ==
    ASSUME NEW s \in Seq(Octet) PROVE s \in Seq(Nat)
<1>1. Octet \subseteq Nat
    BY DEF Octet
<1> QED
    BY <1>1, SeqMonotonic

(* First byte and rest of a sequence put together from them.               *)
LEMMA ConsOctets ==
    ASSUME NEW c \in Nat, NEW t \in Seq(Octet)
    PROVE  (<<c>> \o t)[1] = c /\ Tail(<<c>> \o t) = t
<1>1. ASSUME NEW d \in Nat, NEW s \in Seq(Nat)
      PROVE  (<<d>> \o s)[1] = d /\ Tail(<<d>> \o s) = s
    OBVIOUS
<1> QED
    BY <1>1, OctetsAreNats

(* What read makes of the length bytes that write sends.                   *)
LEMMA WriteLengthReads ==
    ASSUME NEW n \in Nat, n <= MaxLength, NEW b, b = WriteLength(n)
    PROVE  Len(Tail(b)) = ExtBytes(b[1]) /\ Length(b[1], Tail(b)) = n
<1>1. CASE n <= 125
    <2>1. b = <<128 + n>> /\ (128 + n) % 128 = n
        BY <1>1 DEF WriteLength
    <2>2. Tail(<<128 + n>>) = <<>> /\ Len(<<>>) = 0 /\ <<128 + n>>[1] = 128 + n
        OBVIOUS
    <2>3. ExtBytes(128 + n) = 0
        BY <1>1, <2>1 DEF ExtBytes
    <2> QED
        BY <2>1, <2>2, <2>3 DEF Length
<1>2. ASSUME NEW c \in Nat, NEW t \in Seq(Octet), b = <<c>> \o t,
             ExtBytes(c) = Len(t), ExtBytes(c) # 0, BigEndian(t) = n
      PROVE  Len(Tail(b)) = ExtBytes(b[1]) /\ Length(b[1], Tail(b)) = n
    <2>1. b[1] = c /\ Tail(b) = t
        BY <1>2, ConsOctets
    <2> QED
        BY <1>2, <2>1 DEF Length
<1>3. CASE n > 125 /\ n <= 65535
    <2>1. n % 65536 = n
        BY <1>3
    <2>2. PICK t : t = Two(n)
        OBVIOUS
    <2>3. t \in Seq(Octet) /\ Len(t) = 2 /\ BigEndian(t) = n
        <3>1. t \in Seq(Octet) /\ Len(t) = 2 /\ BigEndian(t) = n % 65536
            BY <2>2, TwoBytes
        <3> QED
            BY <2>1, <3>1
    <2>4. PICK c \in Nat : c = 128 + 126
        OBVIOUS
    <2>5. b = <<c>> \o t
        BY <1>3, <2>2, <2>4 DEF WriteLength
    <2>6. ExtBytes(c) = Len(t) /\ ExtBytes(c) # 0
        BY <2>3, <2>4 DEF ExtBytes
    <2> QED
        BY <1>2, <2>3, <2>5, <2>6
<1>4. CASE n > 65535
    <2>1. PICK t : t = Eight(n)
        OBVIOUS
    <2>2. t \in Seq(Octet) /\ Len(t) = 8 /\ BigEndian(t) = n
        BY <2>1, EightBytes
    <2>3. PICK c \in Nat : c = 128 + 127
        OBVIOUS
    <2>4. b = <<c>> \o t
        BY <1>4, <2>1, <2>3 DEF WriteLength
    <2>5. ExtBytes(c) = Len(t) /\ ExtBytes(c) # 0
        BY <2>2, <2>3 DEF ExtBytes
    <2> QED
        BY <1>2, <2>2, <2>4, <2>5
<1> QED
    BY <1>1, <1>3, <1>4

-----------------------------------------------------------------------------
(* Sequences that are read piece by piece.                                 *)
LEMMA SplitEqual ==
    ASSUME NEW S, NEW a \in Seq(S), NEW b \in Seq(S), NEW c \in Seq(S), NEW d \in Seq(S),
           Len(a) = Len(c), a \o b = c \o d
    PROVE  a = c /\ b = d
<1>1. Len(a \o b) = Len(a) + Len(b) /\ Len(c \o d) = Len(c) + Len(d)
    BY ConcatProperties
<1>2. Len(b) = Len(d)
    BY <1>1
<1>3. \A i \in 1 .. Len(a) : a[i] = c[i]
    <2> SUFFICES ASSUME NEW i \in 1 .. Len(a) PROVE a[i] = c[i]
        OBVIOUS
    <2>1. (a \o b)[i] = a[i] /\ (c \o d)[i] = c[i]
        OBVIOUS
    <2> QED
        BY <2>1
<1>4. \A i \in 1 .. Len(b) : b[i] = d[i]
    <2> SUFFICES ASSUME NEW i \in 1 .. Len(b) PROVE b[i] = d[i]
        OBVIOUS
    <2>1. \A u, v \in Seq(S) : i \in 1 .. Len(v) => (u \o v)[Len(u) + i] = v[i]
        OBVIOUS
    <2>2. (a \o b)[Len(a) + i] = b[i]
        BY <2>1
    <2>3. (c \o d)[Len(c) + i] = d[i]
        BY <1>2, <2>1
    <2> QED
        BY <2>2, <2>3
<1>5. a = c
    BY <1>3, SeqEqual
<1>6. b = d
    BY <1>2, <1>4, SeqEqual
<1> QED
    BY <1>5, <1>6

-----------------------------------------------------------------------------
(* The frames of the peer, and what is left of the wire after the first k  *)
(* frames of s.                                                            *)
Wires(s) == [i \in DOMAIN s |-> WireFrame(s[i])]
Left(s) == CHOOSE w : IsLeft(w, Wires(s), Octet)

(* The length bytes of the peer's frame, in any of the three forms, are    *)
(* read as the length of its text.                                         *)
LEMMA FormBytes ==
    ASSUME NEW f \in Frames
    PROVE  /\ FormByte(f) \in Octet /\ FormByte(f) % 128 = FormByte(f)
           /\ FormExt(f) \in Seq(Octet) /\ Len(FormExt(f)) = ExtBytes(FormByte(f))
           /\ Length(FormByte(f), FormExt(f)) = Len(f.text)
<1>1. PICK n : n = Len(f.text)
    OBVIOUS
<1>2. f.form \in {7, 16, 64} /\ f.text \in Seq(Octet)
    BY WebSocketAssumption
<1>3. n \in Nat /\ n <= MaxLength /\ (f.form = 7 => n <= 125) /\ (f.form = 16 => n <= 65535)
    BY <1>1, <1>2, WebSocketAssumption
<1>4. PICK y, e : y = FormByte(f) /\ e = FormExt(f)
    OBVIOUS
<1> DEFINE Good == /\ y \in Octet /\ y % 128 = y
                   /\ e \in Seq(Octet) /\ Len(e) = ExtBytes(y) /\ Length(y, e) = n
<1>5. ASSUME f.form = 7 PROVE Good
    <2>1. y = n /\ e = <<>>
        BY <1>1, <1>4, <1>5 DEF FormByte, FormExt
    <2>2. y \in Octet /\ y % 128 = y
        BY <1>3, <1>5, <2>1 DEF Octet
    <2>3. ExtBytes(y) = 0
        BY <1>3, <1>5, <2>1, <2>2 DEF ExtBytes
    <2>4. Length(y, e) = n
        BY <2>1, <2>2, <2>3 DEF Length
    <2>5. e \in Seq(Octet) /\ Len(e) = 0
        BY <2>1
    <2> QED
        BY <2>2, <2>3, <2>4, <2>5
<1>6. ASSUME f.form = 16 PROVE Good
    <2>1. y = 126 /\ e = Two(n)
        BY <1>1, <1>4, <1>6 DEF FormByte, FormExt
    <2>2. y \in Octet /\ y % 128 = y /\ ExtBytes(y) = 2
        BY <2>1 DEF Octet, ExtBytes
    <2>3. e \in Seq(Octet) /\ Len(e) = 2 /\ BigEndian(e) = n % 65536
        BY <1>3, <2>1, TwoBytes
    <2>4. n % 65536 = n
        BY <1>3, <1>6
    <2>5. BigEndian(e) = n
        BY <2>3, <2>4
    <2>6. Length(y, e) = n
        BY <2>2, <2>5 DEF Length
    <2> QED
        BY <2>2, <2>3, <2>6
<1>7. ASSUME f.form = 64 PROVE Good
    <2>1. y = 127 /\ e = Eight(n)
        BY <1>1, <1>4, <1>7 DEF FormByte, FormExt
    <2>2. y \in Octet /\ y % 128 = y /\ ExtBytes(y) = 8
        BY <2>1 DEF Octet, ExtBytes
    <2>3. e \in Seq(Octet) /\ Len(e) = 8 /\ BigEndian(e) = n
        BY <1>3, <2>1, EightBytes
    <2>4. Length(y, e) = n
        BY <2>2, <2>3 DEF Length
    <2> QED
        BY <2>2, <2>3, <2>4
<1>8. Good
    <2> HIDE DEF Good
    <2> QED
        BY <1>2, <1>5, <1>6, <1>7
<1> QED
    BY <1>1, <1>4, <1>8

FormHead(f) == <<128 + f.op, FormByte(f)>>

(* A frame is two bytes of head, its length bytes and its text.            *)
LEMMA FrameBytes ==
    ASSUME NEW f \in Frames
    PROVE  /\ FormHead(f) \in Seq(Octet) /\ Len(FormHead(f)) = 2
           /\ FormHead(f)[1] % 16 = f.op /\ FormHead(f)[2] = FormByte(f)
           /\ f.text \in Seq(Octet) /\ FormExt(f) \o f.text \in Seq(Octet)
           /\ WireFrame(f) = FormHead(f) \o (FormExt(f) \o f.text)
           /\ WireFrame(f) \in Seq(Octet)
<1>1. PICK x, y, e, t : x = 128 + f.op /\ y = FormByte(f) /\ e = FormExt(f) /\ t = f.text
    OBVIOUS
<1>2. f.op \in Nat /\ f.op < 16 /\ t \in Seq(Octet)
    BY <1>1, WebSocketAssumption
<1>3. x \in Octet /\ x % 16 = f.op
    <2>1. PICK o : o = f.op
        OBVIOUS
    <2>2. o \in Nat /\ o < 16 /\ x = 128 + o
        BY <1>1, <1>2, <2>1
    <2>3. x \in Octet
        BY <2>2 DEF Octet
    <2>4. (128 + o) % 16 = o
        BY <2>2
    <2> QED
        BY <2>1, <2>2, <2>3, <2>4
<1>4. y \in Octet /\ e \in Seq(Octet)
    BY <1>1, FormBytes
<1>5. FormHead(f) = <<x, y>> /\ WireFrame(f) = <<x, y>> \o (e \o t)
    BY <1>1 DEF FormHead, WireFrame
<1>6. <<x, y>> \in Seq(Octet) /\ Len(<<x, y>>) = 2 /\ <<x, y>>[1] = x /\ <<x, y>>[2] = y
    BY <1>3, <1>4
<1>7. e \o t \in Seq(Octet)
    BY <1>2, <1>4, ConcatProperties
<1>8. <<x, y>> \o (e \o t) \in Seq(Octet)
    BY <1>6, <1>7, ConcatProperties
<1> QED
    BY <1>1, <1>2, <1>3, <1>5, <1>6, <1>7, <1>8

(* What is left of the stream after k frames starts with frame k + 1.      *)
LEMMA LeftOver ==
    ASSUME NEW s \in Seq(Frames)
    PROVE  /\ Left(s) \in [0 .. Len(s) -> Seq(Octet)]
           /\ Left(s)[0] = FlattenSeq(Wires(s)) /\ Left(s)[Len(s)] = <<>>
           /\ \A k \in 1 .. Len(s) : Left(s)[k - 1] = WireFrame(s[k]) \o Left(s)[k]
<1>1. DOMAIN s = 1 .. Len(s) /\ Len(s) \in Nat /\ \A i \in 1 .. Len(s) : s[i] \in Frames
    OBVIOUS
<1>2. PICK ws : ws = Wires(s)
    OBVIOUS
<1>3. ws = [i \in 1 .. Len(s) |-> WireFrame(s[i])]
    BY <1>1, <1>2 DEF Wires
<1>4. \A i \in 1 .. Len(s) : WireFrame(s[i]) \in Seq(Octet)
    BY <1>1, FrameBytes
<1>5. ws \in Seq(Seq(Octet)) /\ Len(ws) = Len(s) /\ \A i \in 1 .. Len(s) : ws[i] = WireFrame(s[i])
    BY <1>1, <1>3, <1>4
<1>6. \E w : IsLeft(w, ws, Octet)
    BY <1>5, FlattenSuffixes
<1>7. IsLeft(Left(s), ws, Octet)
    BY <1>2, <1>6 DEF Left
<1> QED
    BY <1>2, <1>5, <1>7 DEF IsLeft

-----------------------------------------------------------------------------
(* Where a connection is.  Until the handshake is over nothing was read;   *)
(* what is to come is the rest of the reply and the frames, or there is no *)
(* end of header in it.                                                    *)
BeforeFrames ==
    wpc \in {"unused", "shake"} =>
        ~lost /\ ~cut /\ msgs = <<>> /\ tmp = <<>> /\ frame = NoFrame

HeaderEnds ==
    \E p \in 1 .. Len(wire) :
        /\ \A i \in 1 .. p - 1 : wire[i] # EndOfHeader
        /\ wire[p] = EndOfHeader
        /\ SubSeq(wire, p + 1, Len(wire)) = Left(peer.frames)[0]

Handshake ==
    wpc = "shake" =>
        /\ peer.frames \in Seq(Frames) /\ wire \in Seq(Nat)
        /\ HeaderEnds \/ \A i \in 1 .. Len(wire) : wire[i] # EndOfHeader

(* The frame that is read, what is left after it, and what the current     *)
(* loop has of it: the bytes taken and those to come make up what the peer *)
(* sent from there on.  After a broken connection there is nothing to come.*)
Current == peer.frames[Len(msgs) + 1]
AfterCurrent == Left(peer.frames)[Len(msgs) + 1]

InStep ==
    \/ wpc = "idle" /\ wire = Left(peer.frames)[Len(msgs)]
    \/ /\ wpc = "head" /\ Len(tmp) < 2
       /\ tmp \o wire = Left(peer.frames)[Len(msgs)]
    \/ /\ wpc \in {"idle", "head"} /\ wire = <<>> /\ peer.end = "break"
       /\ wpc = "head" => tmp = <<>>
    \/ /\ wpc = "ext" /\ Len(msgs) < Len(peer.frames)
       /\ frame = [op |-> Current.op, len |-> FormByte(Current), text |-> <<>>]
       /\ Len(tmp) < ExtBytes(frame.len)
       /\ tmp \o wire = FormExt(Current) \o (Current.text \o AfterCurrent)
    \/ /\ wpc = "payload" /\ Len(msgs) < Len(peer.frames)
       /\ frame.op = Current.op /\ frame.len = Len(Current.text)
       /\ Len(frame.text) <= frame.len
       /\ frame.text \o wire = Current.text \o AfterCurrent

FramesTyped ==
    /\ peer.frames \in Seq(Frames)
    /\ wire \in Seq(Octet) /\ tmp \in Seq(Octet)
    /\ frame = [op |-> frame.op, len |-> frame.len, text |-> frame.text]
    /\ frame.text \in Seq(Octet)

Reading ==
    wpc \in {"idle", "head", "ext", "payload"} /\ ~lost /\ ~cut => FramesTyped /\ InStep

(* The messages are the first frames.                                      *)
Message == {[op |-> f.op, text |-> f.text] : f \in Frames}
MsgsAreFirst ==
    ~lost /\ ~cut =>
        /\ peer.frames \in Seq(Frames) /\ msgs \in Seq(Message)
        /\ Len(msgs) <= Len(peer.frames)
        /\ \A i \in 1 .. Len(msgs) : msgs[i] = [op |-> peer.frames[i].op, text |-> peer.frames[i].text]

WsInv == /\ lost \in BOOLEAN /\ cut \in BOOLEAN
         /\ BeforeFrames /\ Handshake /\ Reading /\ MsgsAreFirst

(* The invariant holds before a connection is made.                        *)
LEMMA WsInvInit == WsInit => WsInv
<1> SUFFICES ASSUME WsInit PROVE WsInv
    OBVIOUS
<1>1. <<>> \in Seq(Frames) /\ <<>> \in Seq(Message) /\ Len(<<>>) = 0
    OBVIOUS
<1>2. /\ peer.frames = <<>> /\ msgs = <<>> /\ wpc = "unused"
      /\ lost = FALSE /\ cut = FALSE
    BY DEF WsInit
<1>3. MsgsAreFirst
    BY <1>1, <1>2 DEF MsgsAreFirst
<1>4. BeforeFrames /\ Handshake /\ Reading
    BY <1>2 DEF WsInit, BeforeFrames, Handshake, Reading
<1> QED
    BY <1>2, <1>3, <1>4 DEF WsInv

(* The handshake's answer ends at its third byte.                          *)
LEMMA ReplyEnds ==
    ASSUME NEW w \in Seq(Octet)
    PROVE  LET r == HandshakeReply \o w
           IN  /\ r \in Seq(Nat) /\ 3 \in 1 .. Len(r)
               /\ r[1] # EndOfHeader /\ r[2] # EndOfHeader /\ r[3] = EndOfHeader
               /\ SubSeq(r, 4, Len(r)) = w
<1>1. PICK h : h = HandshakeReply
    OBVIOUS
<1>2. h = <<301, 301, 300>>
    BY <1>1 DEF HandshakeReply, EndOfHeader
<1>3. h \in Seq(Nat) /\ Len(h) = 3 /\ h[1] = 301 /\ h[2] = 301 /\ h[3] = 300
    BY <1>2
<1>4. w \in Seq(Nat)
    BY OctetsAreNats
<1>5. \A a, b \in Seq(Nat) : /\ a \o b \in Seq(Nat) /\ Len(a \o b) = Len(a) + Len(b)
                             /\ \A i \in 1 .. Len(a) : (a \o b)[i] = a[i]
    OBVIOUS
<1>6. PICK r : r = h \o w
    OBVIOUS
<1>7. r \in Seq(Nat) /\ Len(r) = 3 + Len(w) /\ r[1] = 301 /\ r[2] = 301 /\ r[3] = 300
    <2>1. /\ r \in Seq(Nat) /\ Len(r) = Len(h) + Len(w)
          /\ \A i \in 1 .. Len(h) : r[i] = h[i]
        <3>1. h \in Seq(Nat)
            BY <1>3
        <3> QED
            BY <1>4, <1>5, <1>6, <3>1
    <2> QED
        BY <1>3, <2>1
<1>8. 3 \in 1 .. Len(r)
    BY <1>4, <1>7
<1>9. PICK a, b : a = SubSeq(r, 1, 3) /\ b = SubSeq(r, 3 + 1, Len(r))
    OBVIOUS
<1>10. a \in Seq(Nat) /\ b \in Seq(Nat) /\ Len(a) = 3 /\ a \o b = r
    <2>1. a \in Seq(Nat) /\ b \in Seq(Nat) /\ Len(a) = 3
        BY <1>7, <1>8, <1>9
    <2>2. SubSeq(r, 1, 3) \o SubSeq(r, 3 + 1, Len(r)) = SubSeq(r, 1, Len(r))
        BY <1>4, <1>7, <1>8, ConcatAdjacentSubSeq
    <2>3. SubSeq(r, 1, Len(r)) = r
        BY <1>7, SubSeqFull
    <2> QED
        BY <1>9, <2>1, <2>2, <2>3
<1>11. b = w
    <2>1. h \in Seq(Nat) /\ Len(a) = Len(h) /\ a \o b = h \o w
        BY <1>3, <1>6, <1>10
    <2>2. a \in Seq(Nat) /\ b \in Seq(Nat)
        BY <1>10
    <2> QED
        BY <1>4, <2>1, <2>2, SplitEqual
<1> QED
    BY <1>1, <1>6, <1>7, <1>8, <1>9, <1>11 DEF EndOfHeader

(* A new connection satisfies the invariant.                               *)
LEMMA WsInvConnect ==
    ASSUME WsInv, NEW s \in Seq(Frames), NEW end, Connect(s, end)
    PROVE  WsInv'
<1>1. /\ peer'.frames = s /\ wpc' = "shake" /\ lost' = FALSE /\ cut' = FALSE
      /\ msgs' = <<>> /\ tmp' = <<>> /\ frame' = NoFrame
    <2>1. lost = FALSE /\ cut = FALSE /\ msgs = <<>> /\ tmp = <<>> /\ frame = NoFrame
        BY DEF Connect, WsInv, BeforeFrames
    <2> QED
        BY <2>1 DEF Connect
<1>2. PICK w : w = Left(s)[0]
    OBVIOUS
<1>3. w \in Seq(Octet) /\ w = FlattenSeq(Wires(s))
    <2>1. 0 \in 0 .. Len(s)
        OBVIOUS
    <2> QED
        BY <1>2, <2>1, LeftOver
<1>4. /\ wire' \in Seq(Nat)
      /\ HeaderEnds' \/ \A i \in 1 .. Len(wire') : wire'[i] # EndOfHeader
    <2>1. CASE wire' = HandshakeReply \o FlattenSeq([i \in DOMAIN s |-> WireFrame(s[i])])
        <3>1. wire' = HandshakeReply \o w
            BY <1>3, <2>1 DEF Wires
        <3>2. /\ wire' \in Seq(Nat) /\ 3 \in 1 .. Len(wire')
              /\ wire'[1] # EndOfHeader /\ wire'[2] # EndOfHeader /\ wire'[3] = EndOfHeader
              /\ SubSeq(wire', 4, Len(wire')) = w
            BY <1>3, <3>1, ReplyEnds
        <3>3. \A i \in 1 .. 3 - 1 : wire'[i] # EndOfHeader
            BY <3>2
        <3>4. SubSeq(wire', 3 + 1, Len(wire')) = Left(peer'.frames)[0]
            BY <1>1, <1>2, <3>2
        <3> QED
            BY <3>2, <3>3, <3>4 DEF HeaderEnds
    <2>2. CASE wire' = Front(HandshakeReply)
        <3>1. PICK h : h = HandshakeReply
            OBVIOUS
        <3>2. h = <<301, 301, 300>>
            BY <3>1 DEF HandshakeReply, EndOfHeader
        <3>3. h \in Seq(Nat) /\ Len(h) = 3 /\ h[1] = 301 /\ h[2] = 301
            BY <3>2
        <3>4. wire' = SubSeq(h, 1, 2)
            BY <2>2, <3>1, <3>3 DEF Front
        <3>5. wire' \in Seq(Nat) /\ Len(wire') = 2 /\ \A i \in 1 .. 2 : wire'[i] = h[i]
            BY <3>3, <3>4
        <3> QED
            BY <3>3, <3>5 DEF EndOfHeader
    <2> QED
        BY <2>1, <2>2 DEF Connect
<1>5. Handshake'
    BY <1>1, <1>4 DEF Handshake
<1>6. MsgsAreFirst'
    <2>1. <<>> \in Seq(Message) /\ Len(<<>>) = 0
        OBVIOUS
    <2> QED
        BY <1>1, <2>1 DEF MsgsAreFirst
<1>7. BeforeFrames' /\ Reading'
    BY <1>1 DEF BeforeFrames, Reading
<1> QED
    BY <1>1, <1>5, <1>6, <1>7 DEF WsInv

(* Reading the handshake's answer keeps it, with frames lost or not.       *)
LEMMA WsInvShake ==
    ASSUME WsInv, NEW n, Shake(n)
    PROVE  WsInv'
<1> DEFINE at == {i \in 1 .. n : wire[i] = EndOfHeader}
<1>1. /\ wpc = "shake" /\ n \in 1 .. Len(wire) /\ wire' = SubSeq(wire, n + 1, Len(wire))
      /\ peer' = peer /\ msgs' = msgs /\ cut' = cut /\ tmp' = tmp /\ frame' = frame
    BY DEF Shake
<1>2. IF at = {} THEN wpc' = wpc /\ lost' = lost
      ELSE wpc' = "idle" /\ lost' = (n \notin at)
    BY DEF Shake
<1>3. /\ lost = FALSE /\ cut = FALSE /\ msgs = <<>> /\ tmp = <<>> /\ frame = NoFrame
      /\ peer.frames \in Seq(Frames) /\ wire \in Seq(Nat)
    BY <1>1 DEF WsInv, BeforeFrames, Handshake
<1>4. /\ wire' \in Seq(Nat) /\ Len(wire') = Len(wire) - n
      /\ \A i \in 1 .. Len(wire') : wire'[i] = wire[n + i]
    BY <1>1, <1>3
<1>5. MsgsAreFirst'
    <2>1. Len(<<>>) = 0 /\ <<>> \in Seq(Message)
        OBVIOUS
    <2> QED
        BY <1>1, <1>3, <2>1 DEF MsgsAreFirst
<1>6. lost' \in BOOLEAN /\ cut' \in BOOLEAN
    BY <1>1, <1>2, <1>3
<1>7. ASSUME at = {}
      PROVE  WsInv'
    <2>1. wpc' = "shake" /\ lost' = FALSE /\ cut' = FALSE /\ msgs' = <<>>
        BY <1>1, <1>2, <1>3, <1>7
    <2>2. \A i \in 1 .. n : wire[i] # EndOfHeader
        BY <1>7
    <2>3. HeaderEnds' \/ \A i \in 1 .. Len(wire') : wire'[i] # EndOfHeader
        <3>1. ASSUME NEW p \in 1 .. Len(wire),
                     \A i \in 1 .. p - 1 : wire[i] # EndOfHeader,
                     wire[p] = EndOfHeader,
                     SubSeq(wire, p + 1, Len(wire)) = Left(peer.frames)[0]
              PROVE  HeaderEnds'
            <4>1. n < p
                BY <1>1, <2>2, <3>1
            <4>2. PICK q : q = p - n
                OBVIOUS
            <4>3. q \in 1 .. Len(wire')
                BY <1>1, <1>3, <1>4, <4>1, <4>2
            <4>4. wire'[q] = EndOfHeader
                BY <1>1, <1>4, <3>1, <4>2, <4>3
            <4>5. \A i \in 1 .. q - 1 : wire'[i] # EndOfHeader
                BY <1>1, <1>3, <1>4, <3>1, <4>2, <4>3
            <4>6. SubSeq(wire', q + 1, Len(wire')) = SubSeq(wire, p + 1, Len(wire))
                <5>1. PICK a, b : a = SubSeq(wire', q + 1, Len(wire')) /\ b = SubSeq(wire, p + 1, Len(wire))
                    OBVIOUS
                <5>2. /\ a \in Seq(Nat) /\ Len(a) = Len(wire') - q
                      /\ \A i \in 1 .. Len(a) : a[i] = wire'[q + i]
                    <6>1. \A v \in Seq(Nat) : \A k \in 1 .. Len(v) :
                             LET u == SubSeq(v, k + 1, Len(v))
                             IN  /\ u \in Seq(Nat) /\ Len(u) = Len(v) - k
                                 /\ \A i \in 1 .. Len(u) : u[i] = v[k + i]
                        OBVIOUS
                    <6> QED
                        BY <1>4, <4>3, <5>1, <6>1
                <5>3. /\ b \in Seq(Nat) /\ Len(b) = Len(wire) - p
                      /\ \A i \in 1 .. Len(b) : b[i] = wire[p + i]
                    BY <1>3, <5>1
                <5>4. Len(a) = Len(b)
                    BY <1>1, <1>3, <1>4, <4>2, <5>2, <5>3
                <5>5. \A i \in 1 .. Len(a) : a[i] = b[i]
                    <6> SUFFICES ASSUME NEW i \in 1 .. Len(a) PROVE a[i] = b[i]
                        OBVIOUS
                    <6>1. q + i \in 1 .. Len(wire') /\ n + (q + i) = p + i
                        <7>1. PICK m : m = Len(wire')
                            OBVIOUS
                        <7>2. m \in Nat /\ n \in Int /\ p \in Int
                            BY <1>1, <1>3, <1>4, <7>1
                        <7>3. q = p - n /\ q \in 1 .. m
                            BY <4>2, <4>3, <7>1
                        <7>4. i \in 1 .. m - q
                            BY <5>2, <7>1
                        <7>5. q + i \in 1 .. m /\ n + (q + i) = p + i
                            BY <7>2, <7>3, <7>4
                        <7> QED
                            BY <7>1, <7>5
                    <6>2. wire'[q + i] = wire[n + (q + i)]
                        BY <1>4, <6>1
                    <6> QED
                        BY <5>2, <5>3, <5>4, <6>1, <6>2
                <5> QED
                    BY <5>1, <5>2, <5>3, <5>4, <5>5, SeqEqual
            <4> QED
                BY <1>1, <3>1, <4>3, <4>4, <4>5, <4>6 DEF HeaderEnds
        <3>2. ASSUME \A i \in 1 .. Len(wire) : wire[i] # EndOfHeader
              PROVE  \A i \in 1 .. Len(wire') : wire'[i] # EndOfHeader
            <4> SUFFICES ASSUME NEW i \in 1 .. Len(wire') PROVE wire'[i] # EndOfHeader
                OBVIOUS
            <4>1. wire'[i] = wire[n + i] /\ n + i \in 1 .. Len(wire)
                BY <1>1, <1>3, <1>4
            <4> QED
                BY <3>2, <4>1
        <3>3. HeaderEnds \/ \A i \in 1 .. Len(wire) : wire[i] # EndOfHeader
            BY <1>1 DEF WsInv, Handshake
        <3> QED
            BY <3>1, <3>2, <3>3 DEF HeaderEnds
    <2>4. Handshake'
        BY <1>1, <1>3, <1>4, <2>3 DEF Handshake
    <2>5. BeforeFrames' /\ Reading'
        BY <1>1, <1>3, <2>1 DEF BeforeFrames, Reading
    <2> QED
        BY <1>5, <1>6, <2>4, <2>5 DEF WsInv
<1>8. ASSUME at # {}
      PROVE  WsInv'
    <2>1. wpc' = "idle" /\ lost' = (n \notin at)
        BY <1>2, <1>8
    <2>2. BeforeFrames' /\ Handshake'
        BY <2>1 DEF BeforeFrames, Handshake
    <2>3. ASSUME ~lost'
          PROVE  FramesTyped' /\ InStep'
        <3>1. n \in 1 .. n /\ wire[n] = EndOfHeader
            BY <2>1, <2>3
        <3>2. PICK p \in 1 .. Len(wire) :
                     /\ \A i \in 1 .. p - 1 : wire[i] # EndOfHeader
                     /\ wire[p] = EndOfHeader
                     /\ SubSeq(wire, p + 1, Len(wire)) = Left(peer.frames)[0]
            BY <1>1, <3>1 DEF WsInv, Handshake, HeaderEnds
        <3>3. PICK w : w = Left(peer.frames)[0]
            OBVIOUS
        <3>4. w \in Seq(Octet)
            <4>1. 0 \in 0 .. Len(peer.frames)
                BY <1>3
            <4> QED
                BY <1>3, <3>3, <4>1, LeftOver
        <3>5. ~(n < p)
            BY <1>1, <3>1, <3>2
        <3>6. ~(p < n)
            <4> SUFFICES ASSUME p < n PROVE FALSE
                OBVIOUS
            <4>1. n - p \in 1 .. Len(w) /\ w[n - p] = wire[n]
                <5>1. \A v \in Seq(Nat) : \A k, m \in 1 .. Len(v) : k < m =>
                           /\ m - k \in 1 .. Len(SubSeq(v, k + 1, Len(v)))
                           /\ SubSeq(v, k + 1, Len(v))[m - k] = v[m]
                    OBVIOUS
                <5> QED
                    BY <1>1, <1>3, <3>2, <3>3, <5>1
            <4>2. w[n - p] \in Octet
                BY <3>4, <4>1
            <4> QED
                BY <3>1, <4>1, <4>2 DEF Octet, EndOfHeader
        <3>7. n = p
            BY <1>1, <3>5, <3>6
        <3>8. wire' = w
            BY <1>1, <3>2, <3>3, <3>7
        <3>9. InStep'
            <4>1. Len(<<>>) = 0
                OBVIOUS
            <4> QED
                BY <1>1, <1>3, <2>1, <3>3, <3>8, <4>1 DEF InStep
        <3>10. FramesTyped'
            BY <1>1, <1>3, <3>4, <3>8 DEF FramesTyped, NoFrame
        <3> QED
            BY <3>9, <3>10
    <2>4. Reading'
        BY <2>3 DEF Reading
    <2> QED
        BY <1>5, <1>6, <2>2, <2>4 DEF WsInv
<1> QED
    BY <1>7, <1>8

(* A frame with what follows it, regrouped at the end of its head.         *)
LEMMA FrameAndRest ==
    ASSUME NEW c \in Frames, NEW l \in Seq(Octet)
    PROVE  /\ FormExt(c) \o (c.text \o l) \in Seq(Octet)
           /\ WireFrame(c) \o l = FormHead(c) \o (FormExt(c) \o (c.text \o l))
<1>1. PICK h, e, t : h = FormHead(c) /\ e = FormExt(c) /\ t = c.text
    OBVIOUS
<1>2. h \in Seq(Octet) /\ e \in Seq(Octet) /\ t \in Seq(Octet)
    BY <1>1, FrameBytes, FormBytes
<1>3. (h \o (e \o t)) \o l = h \o (e \o (t \o l)) /\ e \o (t \o l) \in Seq(Octet)
    <2>1. PICK u, v : u = e \o t /\ v = t \o l
        OBVIOUS
    <2>2. u \in Seq(Octet) /\ v \in Seq(Octet)
        BY <1>2, <2>1, ConcatProperties
    <2>3. (h \o u) \o l = h \o (u \o l)
        BY <1>2, <2>2, ConcatAssociative, SMTT(30)
    <2>4. u \o l = e \o v
        BY <1>2, <2>1, ConcatAssociative, SMTT(30)
    <2>5. e \o v \in Seq(Octet)
        BY <1>2, <2>2, ConcatProperties
    <2> QED
        BY <2>1, <2>3, <2>4, <2>5
<1>4. WireFrame(c) = h \o (e \o t)
    BY <1>1, FrameBytes
<1> QED
    BY <1>1, <1>3, <1>4

(* Two bytes read at the start of a frame are its head.                    *)
LEMMA HeadSplit ==
    ASSUME NEW s \in Seq(Frames), NEW m \in 0 .. Len(s), NEW b \in Seq(Octet),
           NEW w \in Seq(Octet), Len(b) = 2, b \o w = Left(s)[m]
    PROVE  /\ m < Len(s) /\ s[m + 1] \in Frames /\ Left(s)[m + 1] \in Seq(Octet)
           /\ b[1] % 16 = s[m + 1].op /\ b[2] = FormByte(s[m + 1])
           /\ w = FormExt(s[m + 1]) \o (s[m + 1].text \o Left(s)[m + 1])
<1>1. Len(b \o w) = Len(b) + Len(w)
    BY ConcatProperties
<1>2. m < Len(s)
    <2>1. Left(s)[Len(s)] = <<>> /\ Len(<<>>) = 0
        BY LeftOver
    <2>2. Len(b \o w) # 0
        BY <1>1
    <2> QED
        BY <2>1, <2>2
<1>3. PICK k : k = m + 1
    OBVIOUS
<1>4. k \in 1 .. Len(s) /\ k \in 0 .. Len(s) /\ k - 1 = m
    BY <1>2, <1>3
<1>5. PICK c, l : c = s[k] /\ l = Left(s)[k]
    OBVIOUS
<1>6. c \in Frames /\ l \in Seq(Octet) /\ Left(s)[m] = WireFrame(c) \o l
    <2>1. c \in Frames
        BY <1>4, <1>5
    <2>2. l \in Seq(Octet)
        BY <1>4, <1>5, LeftOver
    <2>3. Left(s)[k - 1] = WireFrame(s[k]) \o Left(s)[k]
        BY <1>4, LeftOver
    <2> QED
        BY <1>4, <1>5, <2>1, <2>2, <2>3
<1>7. PICK h, r : h = FormHead(c) /\ r = FormExt(c) \o (c.text \o l)
    OBVIOUS
<1>8. h \in Seq(Octet) /\ Len(h) = 2 /\ h[1] % 16 = c.op /\ h[2] = FormByte(c)
    BY <1>6, <1>7, FrameBytes
<1>9. r \in Seq(Octet) /\ b \o w = h \o r
    BY <1>6, <1>7, FrameAndRest
<1>10. b = h /\ w = r
    <2>1. h \in Seq(Octet) /\ Len(b) = Len(h)
        BY <1>8
    <2> QED
        BY <1>9, <2>1, SplitEqual
<1> QED
    BY <1>2, <1>3, <1>5, <1>6, <1>7, <1>8, <1>10

(* The length bytes read after it are the frame's.                         *)
LEMMA ExtSplit ==
    ASSUME NEW c \in Frames, NEW l \in Seq(Octet), NEW b \in Seq(Octet),
           NEW w \in Seq(Octet), Len(b) = ExtBytes(FormByte(c)),
           b \o w = FormExt(c) \o (c.text \o l)
    PROVE  w = c.text \o l /\ Length(FormByte(c), b) = Len(c.text)
<1>1. PICK e, r : e = FormExt(c) /\ r = c.text \o l
    OBVIOUS
<1>2. e \in Seq(Octet) /\ Len(e) = Len(b) /\ Length(FormByte(c), e) = Len(c.text)
    BY <1>1, FormBytes
<1>3. r \in Seq(Octet)
    <2>1. c.text \in Seq(Octet)
        BY FrameBytes
    <2> QED
        BY <1>1, <2>1, ConcatProperties
<1>4. b = e /\ w = r
    BY <1>1, <1>2, <1>3, SplitEqual
<1> QED
    BY <1>1, <1>2, <1>4

(* A payload that is complete is filled with no zeros.                     *)
LEMMA NoZeros == ASSUME NEW b \in Seq(Octet), NEW k, k = 0
                 PROVE  b \o Zeros(k) = b
<1>1. Zeros(k) = <<>>
    BY DEF Zeros
<1> QED
    BY <1>1, ConcatProperties

(* The call of a read keeps the invariant: it begins at a frame.           *)
LEMMA WsInvReadCall == WsInv /\ WsReadCall => WsInv'
<1> SUFFICES ASSUME WsInv, WsReadCall PROVE WsInv'
    OBVIOUS
<1>1. /\ wpc = "idle" /\ wpc' = "head" /\ tmp' = <<>> /\ frame' = NoFrame
      /\ peer' = peer /\ wire' = wire /\ msgs' = msgs /\ lost' = lost /\ cut' = cut
    BY DEF WsReadCall
<1>2. ASSUME FramesTyped, InStep
      PROVE  FramesTyped' /\ InStep'
    <2>1. FramesTyped'
        BY <1>1, <1>2 DEF FramesTyped, NoFrame
    <2>2. CASE wire = Left(peer.frames)[Len(msgs)]
        <3>1. \A w \in Seq(Octet) : <<>> \o w = w
            OBVIOUS
        <3>2. tmp' \o wire' = wire /\ Len(tmp') < 2
            BY <1>1, <1>2, <3>1 DEF FramesTyped
        <3> QED
            BY <1>1, <2>1, <2>2, <3>2 DEF InStep
    <2>3. CASE wire = <<>> /\ peer.end = "break"
        BY <1>1, <2>1, <2>3 DEF InStep
    <2> QED
        BY <1>1, <1>2, <2>2, <2>3 DEF InStep
<1>3. Reading'
    BY <1>1, <1>2 DEF WsInv, Reading
<1> QED
    BY <1>1, <1>3 DEF WsInv, BeforeFrames, Handshake, MsgsAreFirst

(* So does its return, with the frame's text as the message.               *)
LEMMA WsInvReturn == WsInv /\ WsReturn => WsInv'
<1> SUFFICES ASSUME WsInv, WsReturn PROVE WsInv'
    OBVIOUS
<1>1. /\ wpc = "payload" /\ wpc' = "idle" /\ frame.len - Len(frame.text) = 0
      /\ msgs' = Append(msgs, [op |-> frame.op, text |-> frame.text])
      /\ tmp' = tmp /\ frame' = frame
      /\ peer' = peer /\ wire' = wire /\ lost' = lost /\ cut' = cut
    BY DEF WsReturn, Return, Wanted
<1>2. ASSUME ~lost, ~cut
      PROVE  FramesTyped' /\ InStep' /\ MsgsAreFirst'
    <2>1. FramesTyped /\ InStep /\ MsgsAreFirst
        BY <1>1, <1>2 DEF WsInv, Reading
    <2>2. PICK m, c, l, t : m = Len(msgs) /\ c = Current /\ l = AfterCurrent /\ t = frame.text
        OBVIOUS
    <2>3. /\ m < Len(peer.frames) /\ frame.op = c.op /\ frame.len = Len(c.text)
          /\ t \o wire = c.text \o l
        BY <1>1, <2>1, <2>2 DEF InStep
    <2>4. /\ m \in Nat /\ peer.frames \in Seq(Frames) /\ msgs \in Seq(Message)
          /\ t \in Seq(Octet) /\ wire \in Seq(Octet)
        BY <1>2, <2>1, <2>2 DEF FramesTyped, MsgsAreFirst
    <2>5. m + 1 \in 1 .. Len(peer.frames) /\ m + 1 \in 0 .. Len(peer.frames)
        BY <2>3, <2>4
    <2>6. c = peer.frames[m + 1] /\ l = Left(peer.frames)[m + 1]
        BY <2>2 DEF Current, AfterCurrent
    <2>7. c \in Frames /\ l \in Seq(Octet) /\ c.text \in Seq(Octet)
        <3>1. c \in Frames
            BY <2>4, <2>5, <2>6
        <3>2. l \in Seq(Octet)
            BY <2>4, <2>5, <2>6, LeftOver
        <3> QED
            BY <3>1, <3>2, FrameBytes
    <2>8. t = c.text /\ wire = l
        <3>1. Len(t) = Len(c.text)
            BY <1>1, <2>2, <2>3, <2>4, <2>7
        <3> QED
            BY <2>3, <2>4, <2>7, <3>1, SplitEqual
    <2>9. PICK e : e = [op |-> c.op, text |-> c.text]
        OBVIOUS
    <2>10. e \in Message
        BY <2>7, <2>9 DEF Message
    <2>11. msgs' = Append(msgs, e)
        BY <1>1, <2>2, <2>3, <2>8, <2>9
    <2>12. /\ msgs' \in Seq(Message) /\ Len(msgs') = m + 1 /\ msgs'[m + 1] = e
           /\ \A i \in 1 .. m : msgs'[i] = msgs[i]
        BY <2>2, <2>4, <2>10, <2>11
    <2>13. MsgsAreFirst'
        <3>1. \A i \in 1 .. m : msgs[i] = [op |-> peer.frames[i].op, text |-> peer.frames[i].text]
            BY <1>2, <2>1, <2>2 DEF MsgsAreFirst
        <3>2. \A i \in 1 .. Len(msgs') : msgs'[i] = [op |-> peer.frames[i].op, text |-> peer.frames[i].text]
            <4> SUFFICES ASSUME NEW i \in 1 .. Len(msgs')
                         PROVE  msgs'[i] = [op |-> peer.frames[i].op, text |-> peer.frames[i].text]
                OBVIOUS
            <4>1. i \in 1 .. m \/ i = m + 1
                BY <2>4, <2>12
            <4>2. CASE i \in 1 .. m
                BY <2>12, <3>1, <4>2
            <4>3. CASE i = m + 1
                BY <2>6, <2>9, <2>12, <4>3
            <4> QED
                BY <4>1, <4>2, <4>3
        <3>3. Len(msgs') <= Len(peer'.frames)
            BY <1>1, <2>5, <2>12
        <3> QED
            BY <1>1, <2>4, <2>12, <3>2, <3>3 DEF MsgsAreFirst
    <2>14. InStep'
        BY <1>1, <2>6, <2>8, <2>12 DEF InStep
    <2>15. FramesTyped'
        BY <1>1, <2>1 DEF FramesTyped
    <2> QED
        BY <2>13, <2>14, <2>15
<1>3. Reading' /\ MsgsAreFirst'
    BY <1>1, <1>2 DEF Reading, MsgsAreFirst
<1> QED
    BY <1>1, <1>3 DEF WsInv, BeforeFrames, Handshake

(* So do failures, writes, closes and uses of a closed socket.             *)
LEMMA WsInvOther ==
    ASSUME WsInv, \/ ShakeFails \/ WsEnd \/ WsBreaks \/ WsClose \/ WsUseClosed
                  \/ \E n \in WriteLens : WsWrite(n)
    PROVE  WsInv'
<1>1. CASE ShakeFails
    BY <1>1 DEF ShakeFails, WsInv, BeforeFrames, Handshake, Reading, MsgsAreFirst
<1>2. CASE WsUseClosed
    BY <1>2 DEF WsUseClosed, WsInv, BeforeFrames, Handshake, Reading, MsgsAreFirst
<1>3. CASE WsClose
    BY <1>3 DEF WsClose, WsInv, BeforeFrames, Handshake, HeaderEnds, Reading, MsgsAreFirst,
                FramesTyped, InStep, Current, AfterCurrent
<1>4. CASE \E n \in WriteLens : WsWrite(n)
    BY <1>4 DEF WsWrite, WsInv, BeforeFrames, Handshake, HeaderEnds, Reading, MsgsAreFirst,
                FramesTyped, InStep, Current, AfterCurrent
<1>5. CASE WsEnd
    <2>1. cut' = TRUE /\ lost' = lost /\ wpc' \in {"idle", "ext", "payload"}
        BY <1>5 DEF WsEnd, AfterHead, AfterExt, Return
    <2> QED
        BY <2>1 DEF WsInv, BeforeFrames, Handshake, Reading, MsgsAreFirst
<1>6. CASE WsBreaks
    <2>1. /\ peer' = peer /\ wire' = wire /\ tmp' = tmp /\ frame' = frame
          /\ msgs' = msgs /\ lost' = lost /\ cut' = cut /\ wire = <<>> /\ peer.end = "break"
        BY <1>6 DEF WsBreaks
    <2>2. \/ wpc' = "wild"
          \/ wpc' = "idle" /\ wpc \in {"head", "ext", "payload"}
        BY <1>6 DEF WsBreaks, Wanted
    <2>3. CASE wpc' = "wild"
        BY <2>1, <2>3 DEF WsInv, BeforeFrames, Handshake, Reading, MsgsAreFirst
    <2>4. CASE wpc' = "idle" /\ wpc \in {"head", "ext", "payload"}
        <3>1. InStep'
            BY <2>1, <2>4 DEF InStep
        <3>2. Reading'
            BY <2>1, <2>4, <3>1 DEF WsInv, Reading, FramesTyped
        <3> QED
            BY <2>1, <2>4, <3>2 DEF WsInv, BeforeFrames, Handshake, MsgsAreFirst
    <2> QED
        BY <2>2, <2>3, <2>4
<1> QED
    BY <1>1, <1>2, <1>3, <1>4, <1>5, <1>6

(* Bytes moved from the stream to a buffer keep their order.               *)
LEMMA TakeOctets ==
    \A a, w \in Seq(Octet) : \A n \in 1 .. Len(w) :
        LET y == a \o SubSeq(w, 1, n)
            u == SubSeq(w, n + 1, Len(w))
        IN  u \in Seq(Octet) /\ y \in Seq(Octet) /\ Len(y) = Len(a) + n /\ y \o u = a \o w
<1> SUFFICES ASSUME NEW a \in Seq(Octet), NEW w \in Seq(Octet), NEW n \in 1 .. Len(w)
             PROVE  LET y == a \o SubSeq(w, 1, n)
                        u == SubSeq(w, n + 1, Len(w))
                    IN  /\ u \in Seq(Octet) /\ y \in Seq(Octet)
                        /\ Len(y) = Len(a) + n /\ y \o u = a \o w
    OBVIOUS
<1> DEFINE piece == SubSeq(w, 1, n)
           left  == SubSeq(w, n + 1, Len(w))
<1>1. piece \in Seq(Octet) /\ left \in Seq(Octet) /\ Len(piece) = n
    OBVIOUS
<1>2. piece \o left = w
    <2>1. SubSeq(w, 1, n) \o SubSeq(w, n + 1, Len(w)) = SubSeq(w, 1, Len(w))
        BY ConcatAdjacentSubSeq
    <2> QED
        BY <2>1, SubSeqFull
<1> HIDE DEF piece, left
<1>3. (a \o piece) \o left = a \o (piece \o left)
    BY <1>1, ConcatAssociative, SMTT(30)
<1>4. a \o piece \in Seq(Octet) /\ Len(a \o piece) = Len(a) + n
    BY <1>1, SMTT(30)
<1> QED
    BY <1>1, <1>2, <1>3, <1>4 DEF piece, left

(* A piece has no more bytes than are wanted and there.                    *)
LEMMA PieceSize ==
    ASSUME NEW n, WsPiece(n), NEW k, k \in Nat, NEW a, a \in Seq(Octet), wire \in Seq(Octet),
           Wanted = k - Len(a)
    PROVE  n \in 1 .. Len(wire) /\ Len(a) + n <= k /\ Len(a) + Wanted = k
<1>1. n \in 1 .. Wanted /\ n <= Len(wire)
    BY DEF WsPiece
<1>2. Len(wire) \in Nat /\ Len(a) \in Nat
    OBVIOUS
<1> QED
    BY <1>1, <1>2

(* Where a piece of the head or of the length bytes leads.                 *)
LEMMA PieceControl ==
    ASSUME NEW n, NEW k, NEW b, b \in Seq(Octet), b = tmp \o SubSeq(wire, 1, n), WsPiece(n),
           k \in Nat, Len(tmp) + Wanted = k, Len(b) <= k, wpc \in {"head", "ext"}
    PROVE  /\ msgs' = msgs
           /\ Len(b) < k => tmp' = b /\ frame' = frame /\ wpc' = wpc
           /\ Len(b) = k /\ wpc = "head" => AfterHead(b)
           /\ Len(b) = k /\ wpc = "ext" => AfterExt(b)
<1> DEFINE x == tmp \o SubSeq(wire, 1, n)
           size == Len(tmp) + Wanted
           y == x \o Zeros(size - Len(x))
<1>1. /\ ~LoopDone(x, size) => tmp' = x /\ frame' = frame /\ wpc' = wpc /\ msgs' = msgs
      /\ wpc = "head" /\ LoopDone(x, size) => AfterHead(y)
      /\ wpc = "ext" /\ LoopDone(x, size) => AfterExt(y)
    BY Zenon DEF WsPiece
<1>2. CASE Len(b) < k
    <2>1. ~LoopDone(x, size)
        BY <1>2 DEF LoopDone
    <2>2. tmp' = b /\ frame' = frame /\ wpc' = wpc /\ msgs' = msgs
        BY <1>1, <2>1
    <2> QED
        BY <1>2, <2>2
<1>3. CASE Len(b) = k
    <2>1. LoopDone(x, size)
        BY <1>3 DEF LoopDone
    <2>2. size - Len(x) = k - k
        BY <1>3
    <2>3. k - k = 0
        OBVIOUS
    <2>4. y = b
        BY <2>2, <2>3, NoZeros
    <2> HIDE DEF x, size, y
    <2>5. wpc = "head" => AfterHead(b)
        BY <1>1, <2>1, <2>4
    <2>6. wpc = "ext" => AfterExt(b)
        BY <1>1, <2>1, <2>4
    <2>7. msgs' = msgs
        BY <2>5, <2>6 DEF AfterHead, AfterExt
    <2> QED
        BY <1>3, <2>5, <2>6, <2>7
<1>4. Len(b) < k \/ Len(b) = k
    <2>1. Len(b) \in Nat
        OBVIOUS
    <2> QED
        BY <2>1
<1> QED
    BY <1>2, <1>3, <1>4

(* A piece of a head keeps the reader in step with the frames,             *)
LEMMA PieceInHead ==
    ASSUME FramesTyped, InStep, MsgsAreFirst, ~lost, ~cut, NEW n, WsPiece(n), wpc = "head"
    PROVE  FramesTyped' /\ InStep'
<1>1. PICK a, w, s, m, x : a = tmp /\ w = wire /\ s = peer.frames /\ m = Len(msgs) /\ x = frame
    OBVIOUS
<1>2. /\ a \in Seq(Octet) /\ w \in Seq(Octet) /\ s \in Seq(Frames) /\ m \in 0 .. Len(s)
      /\ x = [op |-> x.op, len |-> x.len, text |-> x.text] /\ x.text \in Seq(Octet)
    BY <1>1 DEF FramesTyped, MsgsAreFirst
<1>3. Wanted = 2 - Len(a) /\ 2 \in Nat
    BY <1>1 DEF Wanted
<1>4. PICK b, v : b = a \o SubSeq(w, 1, n) /\ v = wire'
    OBVIOUS
<1>5. /\ Len(w) # 0 /\ v \in Seq(Octet) /\ peer' = peer
      /\ b \in Seq(Octet) /\ Len(b) <= 2 /\ b \o v = a \o w /\ Len(a) + Wanted = 2
    <2>1. n \in 1 .. Len(w)
        BY <1>1, <1>2, <1>3, <1>3, PieceSize
    <2>2. a \in Seq(Octet) /\ w \in Seq(Octet)
        BY <1>2
    <2>3. SubSeq(w, n + 1, Len(w)) = v /\ peer' = peer
        BY <1>1, <1>4 DEF WsPiece
    <2>4. PICK u : u = SubSeq(w, n + 1, Len(w))
        OBVIOUS
    <2>5. u \in Seq(Octet) /\ b \in Seq(Octet) /\ Len(b) = Len(a) + n /\ b \o u = a \o w
        <3>1. PICK y : y = a \o SubSeq(w, 1, n)
            OBVIOUS
        <3>2. u \in Seq(Octet) /\ y \in Seq(Octet) /\ Len(y) = Len(a) + n /\ y \o u = a \o w
            BY <2>1, <2>2, <2>4, <3>1, TakeOctets
        <3>3. y = b
            BY <3>1, <1>4
        <3> QED
            BY <3>2, <3>3
    <2>6. Len(a) + n <= 2 /\ Len(a) + Wanted = 2
        BY <1>1, <1>2, <1>3, <1>3, PieceSize
    <2>7. Len(w) # 0
        BY <2>1
    <2> QED
        BY <2>3, <2>4, <2>5, <2>6, <2>7
<1>6. /\ msgs' = msgs
      /\ Len(b) < 2 => tmp' = b /\ frame' = x /\ wpc' = "head"
      /\ Len(b) = 2 => AfterHead(b)
    BY <1>1, <1>4, <1>5, PieceControl
<1>7. a \o w = Left(s)[m]
    <2>1. w # <<>>
        BY <1>2, <1>5
    <2> QED
        BY <1>1, <2>1 DEF InStep
<1>8. CASE Len(b) < 2
    <2>1. tmp' = b /\ frame' = x /\ wpc' = "head"
        BY <1>6, <1>8
    <2>2. tmp' \o wire' = Left(peer'.frames)[Len(msgs')]
        BY <1>1, <1>4, <1>5, <1>6, <1>7, <2>1
    <2>3. InStep'
        BY <1>8, <2>1, <2>2 DEF InStep
    <2>4. FramesTyped'
        BY <1>1, <1>2, <1>4, <1>5, <2>1 DEF FramesTyped
    <2> QED
        BY <2>3, <2>4
<1>9. CASE Len(b) = 2
    <2>1. AfterHead(b)
        BY <1>6, <1>9
    <2>2. PICK c, l : c = s[m + 1] /\ l = Left(s)[m + 1]
        OBVIOUS
    <2>3. b \o v = Left(s)[m]
        BY <1>5, <1>7
    <2>4. /\ m < Len(s) /\ c \in Frames /\ l \in Seq(Octet)
          /\ b[1] % 16 = c.op /\ b[2] = FormByte(c) /\ v = FormExt(c) \o (c.text \o l)
        BY <1>2, <1>5, <1>9, <2>2, <2>3, HeadSplit
    <2>5. /\ FormByte(c) % 128 = FormByte(c) /\ FormExt(c) \in Seq(Octet)
          /\ Len(FormExt(c)) = ExtBytes(FormByte(c))
          /\ Length(FormByte(c), FormExt(c)) = Len(c.text)
        BY <2>4, FormBytes
    <2>6. /\ frame' = [op |-> c.op, len |-> FormByte(c), text |-> <<>>] /\ tmp' = <<>>
          /\ wpc' = IF ExtBytes(FormByte(c)) > 0 THEN "ext" ELSE "payload"
        BY <2>1, <2>4, <2>5 DEF AfterHead
    <2>7. Current' = c /\ AfterCurrent' = l /\ Len(msgs') < Len(peer'.frames)
        BY <1>1, <1>5, <1>6, <2>2, <2>4 DEF Current, AfterCurrent
    <2>8. \A u \in Seq(Octet) : <<>> \o u = u
        OBVIOUS
    <2>9. tmp' \o wire' = v /\ wire' = v
        BY <1>4, <1>5, <2>6, <2>8
    <2>10. FramesTyped'
        <3>1. <<>> \in Seq(Octet)
            OBVIOUS
        <3> QED
            BY <1>1, <1>2, <1>5, <2>6, <2>9, <3>1 DEF FramesTyped
    <2>11. CASE ExtBytes(FormByte(c)) > 0
        <3>1. wpc' = "ext" /\ Len(tmp') < ExtBytes(frame'.len)
            BY <2>6, <2>11
        <3> QED
            BY <2>4, <2>6, <2>7, <2>9, <2>10, <3>1 DEF InStep
    <2>12. CASE ~(ExtBytes(FormByte(c)) > 0)
        <3>1. ExtBytes(FormByte(c)) = 0
            BY <2>12 DEF ExtBytes
        <3>2. FormExt(c) = <<>>
            BY <2>5, <3>1
        <3>3. c.text \in Seq(Octet) /\ c.text \o l \in Seq(Octet)
            BY <2>4, FrameBytes, ConcatProperties
        <3>4. v = c.text \o l
            BY <2>4, <2>8, <3>2, <3>3
        <3>5. FormByte(c) = Len(c.text)
            BY <2>5, <3>1 DEF Length
        <3>6. /\ wpc' = "payload" /\ frame'.op = c.op /\ frame'.len = Len(c.text)
              /\ frame'.text = <<>> /\ Len(frame'.text) <= frame'.len
            BY <2>6, <3>1, <3>3, <3>5
        <3>7. frame'.text \o wire' = c.text \o l
            BY <1>5, <2>8, <2>9, <3>4, <3>6
        <3> QED
            BY <2>7, <2>10, <3>6, <3>7 DEF InStep
    <2> QED
        BY <2>11, <2>12
<1>10. Len(b) < 2 \/ Len(b) = 2
    <2>1. Len(b) \in Nat /\ Len(b) <= 2
        BY <1>5
    <2> QED
        BY <2>1
<1> QED
    BY <1>8, <1>9, <1>10

(* so does one of the length bytes,                                        *)
LEMMA PieceInExt ==
    ASSUME FramesTyped, InStep, MsgsAreFirst, ~lost, ~cut, NEW n, WsPiece(n), wpc = "ext"
    PROVE  FramesTyped' /\ InStep'
<1>1. PICK a, w, s, m : a = tmp /\ w = wire /\ s = peer.frames /\ m = Len(msgs)
    OBVIOUS
<1>2. PICK c, l : c = Current /\ l = AfterCurrent
    OBVIOUS
<1>3. /\ a \in Seq(Octet) /\ w \in Seq(Octet) /\ s \in Seq(Frames) /\ m \in 0 .. Len(s)
    BY <1>1 DEF FramesTyped, MsgsAreFirst
<1>4. /\ m < Len(s) /\ frame = [op |-> c.op, len |-> FormByte(c), text |-> <<>>]
      /\ Len(a) < ExtBytes(FormByte(c)) /\ a \o w = FormExt(c) \o (c.text \o l)
    <2>1. /\ Len(msgs) < Len(peer.frames)
          /\ frame = [op |-> Current.op, len |-> FormByte(Current), text |-> <<>>]
          /\ Len(tmp) < ExtBytes(frame.len)
          /\ tmp \o wire = FormExt(Current) \o (Current.text \o AfterCurrent)
        BY DEF InStep
    <2>2. frame.len = FormByte(c)
        BY <1>2, <2>1
    <2> QED
        BY <1>1, <1>2, <2>1, <2>2
<1>5. c \in Frames /\ l \in Seq(Octet)
    <2>1. m + 1 \in 1 .. Len(s) /\ m + 1 \in 0 .. Len(s) /\ c = s[m + 1] /\ l = Left(s)[m + 1]
        BY <1>1, <1>2, <1>3, <1>4 DEF Current, AfterCurrent
    <2>2. c \in Frames
        BY <1>3, <2>1
    <2> QED
        BY <1>3, <2>1, <2>2, LeftOver
<1>6. PICK k : k = ExtBytes(FormByte(c))
    OBVIOUS
<1>7. k \in Nat
    BY <1>6 DEF ExtBytes
<1>8. Wanted = k - Len(a)
    BY <1>1, <1>4, <1>6 DEF Wanted
<1>9. PICK b, v : b = a \o SubSeq(w, 1, n) /\ v = wire'
    OBVIOUS
<1>10. /\ v \in Seq(Octet) /\ peer' = peer
       /\ b \in Seq(Octet) /\ Len(b) <= k /\ b \o v = a \o w /\ Len(a) + Wanted = k
    <2>1. n \in 1 .. Len(w)
        BY <1>1, <1>3, <1>8, <1>7, PieceSize
    <2>2. a \in Seq(Octet) /\ w \in Seq(Octet)
        BY <1>3
    <2>3. SubSeq(w, n + 1, Len(w)) = v /\ peer' = peer
        BY <1>1, <1>9 DEF WsPiece
    <2>4. PICK u : u = SubSeq(w, n + 1, Len(w))
        OBVIOUS
    <2>5. u \in Seq(Octet) /\ b \in Seq(Octet) /\ Len(b) = Len(a) + n /\ b \o u = a \o w
        <3>1. PICK y : y = a \o SubSeq(w, 1, n)
            OBVIOUS
        <3>2. u \in Seq(Octet) /\ y \in Seq(Octet) /\ Len(y) = Len(a) + n /\ y \o u = a \o w
            BY <2>1, <2>2, <2>4, <3>1, TakeOctets
        <3>3. y = b
            BY <3>1, <1>9
        <3> QED
            BY <3>2, <3>3
    <2>6. Len(a) + n <= k /\ Len(a) + Wanted = k
        BY <1>1, <1>3, <1>8, <1>7, PieceSize
    <2>7. Len(w) # 0
        BY <2>1
    <2> QED
        BY <2>3, <2>4, <2>5, <2>6, <2>7
<1>11. /\ msgs' = msgs
       /\ Len(b) < k => tmp' = b /\ frame' = frame /\ wpc' = "ext"
       /\ Len(b) = k => AfterExt(b)
    BY <1>1, <1>7, <1>9, <1>10, PieceControl
<1>13. Current' = c /\ AfterCurrent' = l /\ Len(msgs') < Len(peer'.frames)
    BY <1>1, <1>2, <1>4, <1>10, <1>11 DEF Current, AfterCurrent
<1>14. CASE Len(b) < k
    <2>1. tmp' = b /\ frame' = frame /\ wpc' = "ext"
        BY <1>11, <1>14
    <2>2. tmp' \o wire' = FormExt(c) \o (c.text \o l)
        BY <1>4, <1>9, <1>10, <2>1
    <2>3. InStep'
        BY <1>4, <1>6, <1>13, <1>14, <2>1, <2>2 DEF InStep
    <2>4. FramesTyped'
        BY <1>1, <1>3, <1>9, <1>10, <2>1 DEF FramesTyped
    <2> QED
        BY <2>3, <2>4
<1>15. CASE Len(b) = k
    <2>1. AfterExt(b)
        BY <1>11, <1>15
    <2>2. v = c.text \o l /\ Length(FormByte(c), b) = Len(c.text)
        <3>1. Len(b) = ExtBytes(FormByte(c)) /\ b \o v = FormExt(c) \o (c.text \o l)
            BY <1>4, <1>6, <1>10, <1>15
        <3> QED
            BY <1>5, <1>10, <3>1, ExtSplit
    <2>3. /\ frame' = [op |-> c.op, len |-> Len(c.text), text |-> <<>>] /\ tmp' = <<>>
          /\ wpc' = "payload"
        BY <1>4, <2>1, <2>2 DEF AfterExt
    <2>4. c.text \in Seq(Octet) /\ <<>> \in Seq(Octet) /\ Len(<<>>) = 0
        BY <1>5, FrameBytes
    <2>5. wire' = v
        BY <1>9
    <2>6. frame'.text \o wire' = c.text \o l
        <3>1. \A u \in Seq(Octet) : <<>> \o u = u
            OBVIOUS
        <3> QED
            BY <1>10, <2>2, <2>3, <2>5, <3>1
    <2>7. Len(frame'.text) <= frame'.len /\ frame'.op = c.op /\ frame'.len = Len(c.text)
        BY <2>3, <2>4
    <2>8. InStep'
        BY <1>13, <2>3, <2>6, <2>7 DEF InStep
    <2>9. FramesTyped'
        BY <1>1, <1>3, <1>10, <2>3, <2>4, <2>5 DEF FramesTyped
    <2> QED
        BY <2>8, <2>9
<1> QED
    BY <1>7, <1>10, <1>14, <1>15

(* and one of the payload.                                                 *)
LEMMA PieceInPayload ==
    ASSUME FramesTyped, InStep, MsgsAreFirst, ~lost, ~cut, NEW n, WsPiece(n), wpc = "payload"
    PROVE  FramesTyped' /\ InStep'
<1>1. PICK a, w, x : a = frame.text /\ w = wire /\ x = frame
    OBVIOUS
<1>2. PICK c, l : c = Current /\ l = AfterCurrent
    OBVIOUS
<1>3. /\ a \in Seq(Octet) /\ w \in Seq(Octet) /\ tmp \in Seq(Octet)
      /\ peer.frames \in Seq(Frames) /\ x = [op |-> x.op, len |-> x.len, text |-> a]
    BY <1>1 DEF FramesTyped
<1>4. /\ Len(msgs) < Len(peer.frames) /\ x.op = c.op /\ x.len = Len(c.text)
      /\ Len(a) <= x.len /\ a \o w = c.text \o l
    BY <1>1, <1>2 DEF InStep
<1>5. c.text \in Seq(Octet)
    <2>1. Len(msgs) + 1 \in 1 .. Len(peer.frames)
        BY <1>3, <1>4 DEF MsgsAreFirst
    <2>2. c \in Frames
        BY <1>2, <1>3, <2>1 DEF Current
    <2> QED
        BY <2>2, FrameBytes
<1>6. x.len \in Nat
    BY <1>4, <1>5
<1>7. Wanted = x.len - Len(a)
    BY <1>1 DEF Wanted
<1>8. PICK b, v : b = a \o SubSeq(w, 1, n) /\ v = wire'
    OBVIOUS
<1>9. /\ v \in Seq(Octet) /\ peer' = peer
      /\ b \in Seq(Octet) /\ Len(b) <= x.len /\ b \o v = a \o w
    <2>1. n \in 1 .. Len(w)
        BY <1>1, <1>3, <1>7, <1>6, PieceSize
    <2>2. a \in Seq(Octet) /\ w \in Seq(Octet)
        BY <1>3
    <2>3. SubSeq(w, n + 1, Len(w)) = v /\ peer' = peer
        BY <1>1, <1>8 DEF WsPiece
    <2>4. PICK u : u = SubSeq(w, n + 1, Len(w))
        OBVIOUS
    <2>5. u \in Seq(Octet) /\ b \in Seq(Octet) /\ Len(b) = Len(a) + n /\ b \o u = a \o w
        <3>1. PICK y : y = a \o SubSeq(w, 1, n)
            OBVIOUS
        <3>2. u \in Seq(Octet) /\ y \in Seq(Octet) /\ Len(y) = Len(a) + n /\ y \o u = a \o w
            BY <2>1, <2>2, <2>4, <3>1, TakeOctets
        <3>3. y = b
            BY <3>1, <1>8
        <3> QED
            BY <3>2, <3>3
    <2>6. Len(a) + n <= x.len /\ Len(a) + Wanted = x.len
        BY <1>1, <1>3, <1>7, <1>6, PieceSize
    <2>7. Len(w) # 0
        BY <2>1
    <2> QED
        BY <2>3, <2>4, <2>5, <2>6, <2>7
<1>10. /\ msgs' = msgs /\ tmp' = tmp /\ wpc' = "payload"
       /\ frame' = [op |-> x.op, len |-> x.len, text |-> b]
    <2>1. /\ msgs' = msgs /\ tmp' = tmp /\ wpc' = "payload"
          /\ frame' = [x EXCEPT !.text = b]
        BY <1>1, <1>8 DEF WsPiece
    <2> QED
        BY <1>3, <2>1
<1>11. Current' = c /\ AfterCurrent' = l /\ Len(msgs') < Len(peer'.frames)
    BY <1>2, <1>4, <1>9, <1>10 DEF Current, AfterCurrent
<1>13. FramesTyped'
    BY <1>3, <1>8, <1>9, <1>10 DEF FramesTyped
<1>14. /\ frame'.op = c.op /\ frame'.len = Len(c.text) /\ Len(frame'.text) <= frame'.len
       /\ frame'.text \o wire' = c.text \o l
    BY <1>4, <1>8, <1>9, <1>10
<1>15. InStep'
    BY <1>10, <1>11, <1>14 DEF InStep
<1> QED
    BY <1>13, <1>15

(* Every piece keeps the invariant.                                        *)
LEMMA WsInvPiece ==
    ASSUME WsInv, NEW n, WsPiece(n)
    PROVE  WsInv'
<1>1. /\ wpc \in {"head", "ext", "payload"} /\ wpc' \in {"head", "ext", "payload"}
      /\ peer' = peer /\ msgs' = msgs /\ lost' = lost /\ cut' = cut
    BY DEF WsPiece, AfterHead, AfterExt
<1>2. ASSUME ~lost, ~cut
      PROVE  FramesTyped' /\ InStep'
    <2>1. FramesTyped /\ InStep /\ MsgsAreFirst
        BY <1>1, <1>2 DEF WsInv, Reading
    <2> QED
        BY <1>1, <1>2, <2>1, PieceInHead, PieceInExt, PieceInPayload
<1>3. Reading'
    BY <1>1, <1>2 DEF Reading
<1> QED
    BY <1>1, <1>3 DEF WsInv, BeforeFrames, Handshake, MsgsAreFirst

(* Every step of the websocket keeps it; so does a step of another kind of *)
(* connection, which leaves these variables alone.                         *)
LEMMA WsInvNext == WsInv /\ [WsNext]_wsVars => WsInv'
<1> SUFFICES ASSUME WsInv, [WsNext]_wsVars PROVE WsInv'
    OBVIOUS
<1>1. ASSUME NEW s \in UNION {[1 .. n -> Frames] : n \in 1 .. MaxFrames}, NEW end, Connect(s, end)
      PROVE  WsInv'
    <2>1. PICK n \in 1 .. MaxFrames : s \in [1 .. n -> Frames]
        OBVIOUS
    <2>2. n \in Nat
        BY WebSocketAssumption
    <2>3. s \in Seq(Frames)
        BY <2>1, <2>2
    <2> QED
        BY <1>1, <2>3, WsInvConnect
<1>2. CASE UNCHANGED wsVars
    BY <1>2 DEF wsVars, WsInv, BeforeFrames, Handshake, HeaderEnds, Reading, MsgsAreFirst,
                FramesTyped, InStep, Current, AfterCurrent
<1> QED
    BY <1>1, <1>2, WsInvShake, WsInvPiece, WsInvReadCall, WsInvReturn, WsInvOther DEF WsNext

(* A sequence that agrees with a longer one is its prefix.                 *)
LEMMA PrefixOf ==
    ASSUME NEW S, NEW a \in Seq(S), NEW b \in Seq(S), Len(a) <= Len(b),
           \A i \in 1 .. Len(a) : a[i] = b[i]
    PROVE  IsPrefix(a, b)
<1>1. PICK c, d : c = SubSeq(a, 1, Len(a)) /\ d = SubSeq(b, 1, Len(a))
    OBVIOUS
<1>2. c \in Seq(S) /\ Len(c) = Len(a) /\ \A i \in 1 .. Len(c) : c[i] = a[i]
    BY <1>1
<1>3. d \in Seq(S) /\ Len(d) = Len(a) /\ \A i \in 1 .. Len(d) : d[i] = b[i]
    BY <1>1
<1>4. c = d
    BY <1>2, <1>3, SeqEqual
<1> QED
    BY <1>1, <1>4 DEF IsPrefix

(* The invariant says what MessagesAreFrames says of the first frames.     *)
LEMMA WsInvFrames == WsInv => MessagesAreFrames
<1> SUFFICES ASSUME WsInv, ~lost, ~cut
             PROVE  IsPrefix(msgs, [i \in DOMAIN peer.frames |->
                            [op |-> peer.frames[i].op, text |-> peer.frames[i].text]])
    BY DEF MessagesAreFrames
<1>1. PICK m, s, t : m = msgs /\ s = peer.frames
                     /\ t = [i \in DOMAIN peer.frames |->
                                 [op |-> peer.frames[i].op, text |-> peer.frames[i].text]]
    OBVIOUS
<1>2. /\ s \in Seq(Frames) /\ m \in Seq(Message) /\ Len(m) <= Len(s)
      /\ \A i \in 1 .. Len(m) : m[i] = [op |-> s[i].op, text |-> s[i].text]
    BY <1>1 DEF WsInv, MsgsAreFirst
<1>3. DOMAIN s = 1 .. Len(s) /\ Len(s) \in Nat /\ \A i \in 1 .. Len(s) : s[i] \in Frames
    BY <1>2
<1>4. t = [i \in 1 .. Len(s) |-> [op |-> s[i].op, text |-> s[i].text]]
    BY <1>1, <1>3
<1>5. t \in Seq(Message)
    BY <1>3, <1>4 DEF Message
<1>6. Len(t) = Len(s) /\ \A i \in 1 .. Len(s) : t[i] = [op |-> s[i].op, text |-> s[i].text]
    BY <1>3, <1>4
<1>7. Len(m) <= Len(t) /\ \A i \in 1 .. Len(m) : m[i] = t[i]
    <2>1. Len(m) \in Nat
        BY <1>2
    <2>2. \A i \in 1 .. Len(m) : i \in 1 .. Len(s)
        BY <1>2, <1>3, <2>1
    <2> QED
        BY <1>2, <1>6, <2>2
<1>8. IsPrefix(m, t)
    <2>1. m \in Seq(Message)
        BY <1>2
    <2> QED
        BY <1>5, <1>7, <2>1, PrefixOf
<1> QED
    BY <1>1, <1>8

(* What was written is a length and its bytes.                             *)
WroteInv == /\ wrote.len \in Nat /\ wrote.len <= MaxLength
            /\ wrote.bytes = WriteLength(wrote.len)

(* Nothing is written before a connection is made.                         *)
LEMMA WroteInvInit == WsInit => WroteInv
<1>1. 0 \in Nat /\ 0 <= MaxLength /\ WriteLength(0) = <<128>>
    BY DEF MaxLength, WriteLength
<1> QED
    BY <1>1 DEF WsInit, WroteInv

(* Every step keeps what was written in its form.                          *)
LEMMA WroteInvNext == WroteInv /\ [WsNext]_wsVars => WroteInv'
<1> SUFFICES ASSUME WroteInv, [WsNext]_wsVars PROVE WroteInv'
    OBVIOUS
<1>1. ASSUME NEW n \in WriteLens, WsWrite(n)
      PROVE  WroteInv'
    <2>1. n \in Nat /\ n <= MaxLength
        BY WebSocketAssumption
    <2> QED
        BY <1>1, <2>1 DEF WsWrite, WroteInv
<1>2. CASE wrote' = wrote
    BY <1>2 DEF WroteInv
<1> QED
    BY <1>1, <1>2 DEF WsNext, wsVars, Connect, Shake, WsPiece, ShakeFails, WsReadCall, WsReturn,
                     WsEnd, WsBreaks, WsClose, WsUseClosed

(* The lengths that were written read back.                                *)
LEMMA WroteInvReads == WroteInv => WrittenLengthReads
<1> SUFFICES ASSUME WroteInv PROVE WrittenLengthReads
    OBVIOUS
<1>1. PICK n, b : n = wrote.len /\ b = wrote.bytes
    OBVIOUS
<1>2. n \in Nat /\ n <= MaxLength /\ b = WriteLength(n)
    BY <1>1 DEF WroteInv
<1>3. Len(Tail(b)) = ExtBytes(b[1]) /\ Length(b[1], Tail(b)) = n
    BY <1>2, WriteLengthReads
<1> QED
    BY <1>1, <1>3 DEF WrittenLengthReads
=============================================================================
