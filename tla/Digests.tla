------------------------------ MODULE Digests -------------------------------
(***************************************************************************)
(* The incremental hashes that work on blocks: md5, sha0/1, sha224/256,    *)
(* sha384/512, blake224/256/384/512, blake2s and blake2b.  What they share *)
(* with their standards, the round functions, is a free constructor: an    *)
(* object's chain is the sequence of what was given to the round function  *)
(* (block, counter, final flag), and two states are equal when these are.  *)
(* The buffering, the padding and the counters are the code's.  How the    *)
(* state is printed once the blocks are hashed is left out: the words of   *)
(* sha0, sha1, sha224 and sha256 are printed without leading zeros (%x and *)
(* %02x), so that some of their digests are shorter than the standard's    *)
(* although the same blocks were hashed.                                   *)
(*                                                                         *)
(* Byte number n of a message is -n; Outside is a byte read from behind an *)
(* argument.  Other bytes are the numbers they are.                        *)
(***************************************************************************)
EXTENDS Integers, Sequences

CONSTANTS Algorithms,   \* the hashes to check
          PieceLens,    \* lengths of the arguments of update and +
          MaxUpdates    \* bound on the number of updates

VARIABLES
    alg,      \* the hash in use
    objs,     \* "a", made by the init function, and "b", the result of +
    updates,  \* updates so far
    lossy,    \* objects that lost bytes: see Straddles and ShortClone
    out       \* the object whose final was called last, and the blocks it hashed

digestVars == <<alg, objs, updates, lossy, out>>

Outside == -1000000
KeyByte == 1000
None == [none |-> TRUE]
Crash == <<"crash">>
-----------------------------------------------------------------------------
Hash(bs, iv) == [iv |-> iv, chain |-> <<>>, buffer |-> [i \in 1 .. bs |-> 0],
                 bufflen |-> 0, total |-> 0, compressed |-> 0]
BlockSize(h) == Len(h.buffer)

\* memset(buffer, 0, n) and memcpy(buffer + at, byte(from) ..., n)
Clear(buf, n) == [i \in DOMAIN buf |-> IF i <= n THEN 0 ELSE buf[i]]
Put(buf, at, n, byte(_), from) ==
    [i \in DOMAIN buf |-> IF i > at /\ i <= at + n THEN byte(from + i - at) ELSE buf[i]]

Absorb(h, block, count, last) ==
    [h EXCEPT !.chain = Append(@, [block |-> block, count |-> count, last |-> last])]

\* The mutant forgets what is in the buffer.
BytesThereNew(h, len) == len

\* size_t total_add = len + hash->bufflen;
BytesThere(h, len) == len + h.bufflen

\* The loop that every update function has.  With bytes in the buffer the first
\* block takes bs - bufflen bytes of the argument, and `read' advances by bs.
BlockUpdate(Round(_), h, len) ==
    LET bs == BlockSize(h)
        input(j) == IF j <= len THEN -(h.total + j) ELSE Outside
        all == BytesThere(h, len)
        n == all \div bs
        Blocks[k \in 0 .. n] ==
            IF k = 0 THEN [h EXCEPT !.total = @ + len]
            ELSE LET p == Blocks[k - 1]
                 IN Round([p EXCEPT !.bufflen = 0,
                                    !.buffer = Put(@, p.bufflen, bs - p.bufflen,
                                                   input, (k - 1) * bs)])
    IN IF all < bs
       THEN [h EXCEPT !.total = @ + len, !.bufflen = all,
                      !.buffer = Put(@, h.bufflen, len, input, 0)]
       ELSE [Blocks[n] EXCEPT !.buffer = Put(Clear(@, bs), 0, all % bs, input, n * bs),
                              !.bufflen = all % bs]

\* An argument of which bytes are skipped, and others read from behind it.
Straddles(h, len) == h.bufflen > 0 /\ len + h.bufflen > BlockSize(h)

\* The two bytes of the bit length that a short message has.
High(h) == (8 * h.total) \div 256
Low(h) == (8 * h.total) % 256

\* Padding: 0x80, and when there are more than limit bytes in the buffer a block
\* of their own for them, after which More is applied.  That the memset in it
\* also clears the byte behind the buffer, which is on the heap, is left out.
PadByte(h, limit, Round(_), More(_)) ==
    LET p == [h EXCEPT !.buffer[h.bufflen + 1] = 128]
        zero == [p EXCEPT !.buffer = [i \in DOMAIN @ |-> IF i > h.bufflen + 1 THEN 0 ELSE @[i]]]
    IN IF h.bufflen > limit THEN More(Round(zero)) ELSE p

ClearAll(h) == [h EXCEPT !.buffer = Clear(@, BlockSize(h))]

\* The bit length in the last bytes, big endian.
PutLength(h) == [h EXCEPT !.buffer[BlockSize(h) - 1] = High(h), !.buffer[BlockSize(h)] = Low(h)]
\* The same with lf bytes, which are zero but for the last two.
PutWideLength(h, lf) ==
    PutLength([h EXCEPT !.buffer = [i \in DOMAIN @ |-> IF i > Len(@) - lf THEN 0 ELSE @[i]]])
-----------------------------------------------------------------------------
\* md5.c
md5_init == Hash(64, "md5")
md5_round(h) == Absorb(h, h.buffer, 0, FALSE)
md5_update(h, len) == BlockUpdate(md5_round, h, len)
md5_final(h) ==
    LET p == PadByte(h, 55, md5_round, ClearAll)
    IN md5_round([p EXCEPT !.buffer[57] = Low(h), !.buffer[58] = High(h)])
md5_clone(h) == h
-----------------------------------------------------------------------------
\* sha01.c: sha0 and sha1 differ in a rotation of the round.
sha01_init(ver) == Hash(64, ver)
sha01_round(h) == Absorb(h, h.buffer, 0, FALSE)
sha01_update(h, len) == BlockUpdate(sha01_round, h, len)

\* The mutant keeps one byte too many in the block.
sha01_finalOffByOne(h) ==
    sha01_round(PutWideLength(PadByte(h, 56, sha01_round, ClearAll), 8))

sha01_final(h) == sha01_round(PutWideLength(PadByte(h, 55, sha01_round, ClearAll), 8))
sha01_clone(h) == h
-----------------------------------------------------------------------------
\* sha2xx.c: "bufflen > bs - 8" lets the length overwrite 0x80 at 56 bytes.
sha256_init(iv) == Hash(64, iv)
sha256_round(h) == Absorb(h, h.buffer, 0, FALSE)
sha256_update(h, len) == BlockUpdate(sha256_round, h, len)
sha256_final(h) == sha256_round(PutWideLength(PadByte(h, 64 - 8, sha256_round, ClearAll), 8))
sha256_clone(h) == h
-----------------------------------------------------------------------------
\* sha2-256.c, which has sha512, sha384 and sha512_t.  The round swaps the bytes
\* of each word of the buffer in place; "bufflen > bs - 16" is as above.
Swap64(buf) == [i \in DOMAIN buf |-> buf[8 * ((i - 1) \div 8) + 8 - ((i - 1) % 8)]]
sha512_t_init(iv) == Hash(128, iv)
sha512_round(h) == [Absorb(h, h.buffer, 0, FALSE) EXCEPT !.buffer = Swap64(@)]
sha512_update(h, len) == BlockUpdate(sha512_round, h, len)
sha512_t_final(h) == sha512_round(PutWideLength(PadByte(h, 128 - 16, sha512_round, ClearAll), 16))
sha512_t_clone(h) == h
-----------------------------------------------------------------------------
\* blake.c: the counter of the bytes hashed goes into each round.  The marker at
\* bs - 9 is put before 0x80, which replaces it at 55 bytes; with more it
\* replaces a byte of the message.
blake256_init(iv) == Hash(64, iv)
blake256_round(h) == Absorb(h, h.buffer, h.compressed, FALSE)
Counted256(h) == blake256_round([h EXCEPT !.compressed = @ + 64])
blake256_update(h, len) == BlockUpdate(Counted256, h, len)
Forget(h) == [ClearAll(h) EXCEPT !.compressed = 0]
BlakePad256(h) ==
    LET c == [h EXCEPT !.compressed = @ + h.bufflen]
    IN blake256_round(PutWideLength(PadByte(c, 55, blake256_round, Forget), 8))
blake256_final(h) == BlakePad256([h EXCEPT !.buffer[56] = 1])
blake224_final(h) == BlakePad256([h EXCEPT !.buffer[56] = IF h.bufflen = 55 THEN 128 ELSE 0])
blake256_clone(h) == h

\* "64 - hash->bufflen" with more than 112 bytes is a huge size for memset.
blake512_init(iv) == Hash(128, iv)
blake512_round(h) == Absorb(h, h.buffer, h.compressed, FALSE)
Counted512(h) == blake512_round([h EXCEPT !.compressed = @ + 128])
blake512_update(h, len) == BlockUpdate(Counted512, h, len)
BlakePad512(h) ==
    IF h.bufflen > 128 - 16 THEN [h EXCEPT !.chain = Crash]
    ELSE blake512_round(PutWideLength([h EXCEPT !.compressed = @ + h.bufflen,
                                                !.buffer[h.bufflen + 1] = 128], 8))
blake512_final(h) == BlakePad512([h EXCEPT !.buffer[112] = 1])
blake384_final(h) == BlakePad512([h EXCEPT !.buffer[112] = IF h.bufflen = 111 THEN 128 ELSE 0])
blake512_clone(h) == h
-----------------------------------------------------------------------------
\* blake2.c: a key is hashed as the first block.  blake2b counts 64 for a block
\* of 128, and its clone copies 64 bytes of the buffer.
Key(h, keylen, Round(_), count) ==
    IF keylen = 0 THEN h
    ELSE LET buf == [i \in 1 .. BlockSize(h) |-> IF i <= keylen THEN KeyByte + i ELSE 0]
         IN ClearAll(Round([h EXCEPT !.buffer = buf, !.compressed = count]))

blake2b_round(h) == Absorb(h, h.buffer, h.compressed, FALSE)
blake2b_last(h) == Absorb(h, h.buffer, h.compressed, TRUE)
blake2b_init(keylen) == Key(Hash(128, keylen), keylen, blake2b_round, 128)
Counted2b(h) == blake2b_round([h EXCEPT !.compressed = @ + 64])
blake2b_update(h, len) == BlockUpdate(Counted2b, h, len)
blake2b_final(h) == blake2b_last([h EXCEPT !.compressed = @ + h.bufflen])
blake2b_clone(h) == [h EXCEPT !.buffer = [i \in DOMAIN @ |-> IF i <= 64 THEN @[i] ELSE 0]]

blake2s_round(h) == Absorb(h, h.buffer, h.compressed, FALSE)
blake2s_last(h) == Absorb(h, h.buffer, h.compressed, TRUE)
blake2s_init(keylen) == Key(Hash(64, keylen), keylen, blake2s_round, 64)
Counted2s(h) == blake2s_round([h EXCEPT !.compressed = @ + 64])
blake2s_update(h, len) == BlockUpdate(Counted2s, h, len)
blake2s_final(h) ==
    LET c == [h EXCEPT !.compressed = @ + h.bufflen]
    IN blake2s_last(IF h.bufflen > 55 THEN Forget(blake2s_round(c)) ELSE c)
blake2s_clone(h) == h
-----------------------------------------------------------------------------
\* The functions of crypto_function_list.
init(a) ==
    CASE a = "md5" -> md5_init
      [] a \in {"sha0", "sha1"} -> sha01_init(a)
      [] a \in {"sha224", "sha256"} -> sha256_init(a)
      [] a \in {"sha384", "sha512", "sha512_t"} -> sha512_t_init(a)
      [] a \in {"blake224", "blake256"} -> blake256_init(a)
      [] a \in {"blake384", "blake512"} -> blake512_init(a)
      [] a = "blake2b" -> blake2b_init(0)
      [] a = "blake2b_key" -> blake2b_init(3)
      [] a = "blake2s" -> blake2s_init(0)
      [] a = "blake2s_key" -> blake2s_init(3)

update(a, h, len) ==
    CASE a = "md5" -> md5_update(h, len)
      [] a \in {"sha0", "sha1"} -> sha01_update(h, len)
      [] a \in {"sha224", "sha256"} -> sha256_update(h, len)
      [] a \in {"sha384", "sha512", "sha512_t"} -> sha512_update(h, len)
      [] a \in {"blake224", "blake256"} -> blake256_update(h, len)
      [] a \in {"blake384", "blake512"} -> blake512_update(h, len)
      [] a \in {"blake2b", "blake2b_key"} -> blake2b_update(h, len)
      [] a \in {"blake2s", "blake2s_key"} -> blake2s_update(h, len)

final(a, h) ==
    CASE a = "md5" -> md5_final(h)
      [] a \in {"sha0", "sha1"} -> sha01_final(h)
      [] a \in {"sha224", "sha256"} -> sha256_final(h)
      [] a \in {"sha384", "sha512", "sha512_t"} -> sha512_t_final(h)
      [] a = "blake224" -> blake224_final(h)
      [] a = "blake256" -> blake256_final(h)
      [] a = "blake384" -> blake384_final(h)
      [] a = "blake512" -> blake512_final(h)
      [] a \in {"blake2b", "blake2b_key"} -> blake2b_final(h)
      [] a \in {"blake2s", "blake2s_key"} -> blake2s_final(h)

clone(a, h) ==
    CASE a = "md5" -> md5_clone(h)
      [] a \in {"sha0", "sha1"} -> sha01_clone(h)
      [] a \in {"sha224", "sha256"} -> sha256_clone(h)
      [] a \in {"sha384", "sha512", "sha512_t"} -> sha512_t_clone(h)
      [] a \in {"blake224", "blake256"} -> blake256_clone(h)
      [] a \in {"blake384", "blake512"} -> blake512_clone(h)
      [] a \in {"blake2b", "blake2b_key"} -> blake2b_clone(h)
      [] a \in {"blake2s", "blake2s_key"} -> blake2s_clone(h)

\* A clone of blake2b with more than 64 bytes in its buffer.
ShortClone(a, h) == a \in {"blake2b", "blake2b_key"} /\ h.bufflen > 64
-----------------------------------------------------------------------------
DigestInit ==
    /\ alg = "none"
    /\ objs = [a |-> None, b |-> None]
    /\ updates = 0
    /\ lossy = {}
    /\ out = None

\* crypto.md5() and the others
New(a) ==
    /\ alg = "none"
    /\ alg' = a
    /\ objs' = [objs EXCEPT !["a"] = init(a)]
    /\ UNCHANGED <<updates, lossy, out>>

\* obj:update(piece)
Update(o, len) ==
    /\ objs[o] # None /\ updates < MaxUpdates
    /\ objs' = [objs EXCEPT ![o] = update(alg, @, len)]
    /\ lossy' = lossy \cup {x \in {o} : Straddles(objs[o], len)}
    /\ updates' = updates + 1
    /\ out' = None
    /\ UNCHANGED alg

\* obj + piece
Plus(len) ==
    /\ objs["a"] # None /\ objs["b"] = None /\ updates < MaxUpdates
    /\ objs' = [objs EXCEPT !["b"] = update(alg, clone(alg, objs["a"]), len)]
    /\ lossy' = lossy \cup {x \in {"b"} : \/ "a" \in lossy
                                          \/ Straddles(objs["a"], len)
                                          \/ ShortClone(alg, objs["a"])}
    /\ updates' = updates + 1
    /\ out' = None
    /\ UNCHANGED alg

\* obj:final() works on the object and then puts the saved one back.
Final(o) ==
    /\ objs[o] # None /\ out = None
    /\ out' = [of |-> o, blocks |-> final(alg, objs[o]).chain]
    /\ UNCHANGED <<alg, objs, updates, lossy>>

DigestNext ==
    \/ \E a \in Algorithms : New(a)
    \/ \E o \in {"a", "b"} : Final(o) \/ \E len \in PieceLens : Update(o, len)
    \/ \E len \in PieceLens : Plus(len)
-----------------------------------------------------------------------------
\* What the standards give to the round function for a message of n bytes
\* (RFC 1321, FIPS 180-4, the BLAKE submission, RFC 7693).
Ceil(n, d) == (n + d - 1) \div d
Padded(n, bs, lf, marker, little) ==
    LET size == bs * Ceil(n + 1 + lf, bs)
        low == IF little THEN size - lf + 1 ELSE size
        high == IF little THEN low + 1 ELSE low - 1
    IN [p \in 1 .. size |->
          CASE p <= n -> -p
            [] p = n + 1 -> IF p = size - lf THEN 128 + marker ELSE 128
            [] p = low -> (8 * n) % 256
            [] p = high -> (8 * n) \div 256
            [] p = size - lf /\ p > n + 1 -> marker
            [] OTHER -> 0]
StandardBlocks(bytes, bs, Count(_), last) ==
    [k \in 1 .. Len(bytes) \div bs |->
        [block |-> SubSeq(bytes, (k - 1) * bs + 1, k * bs), count |-> Count(k),
         last |-> last /\ k * bs = Len(bytes)]]

MerkleDamgard(n, bs, lf, little) == StandardBlocks(Padded(n, bs, lf, 0, little), bs, LAMBDA k : 0, FALSE)
Blake(n, bs, lf, marker) ==
    StandardBlocks(Padded(n, bs, lf, marker, FALSE), bs,
           LAMBDA k : IF (k - 1) * bs >= n THEN 0 ELSE IF k * bs <= n THEN k * bs ELSE n, FALSE)
Blake2(n, bs, keylen) ==
    LET skip == IF keylen = 0 THEN 0 ELSE bs
        all == n + skip
        size == IF all = 0 THEN bs ELSE bs * Ceil(all, bs)
    IN StandardBlocks([p \in 1 .. size |-> CASE p <= keylen -> KeyByte + p
                                     [] p > keylen /\ p <= skip -> 0
                                     [] p > skip /\ p <= all -> -(p - skip)
                                     [] OTHER -> 0],
              bs, LAMBDA k : IF k * bs <= all THEN k * bs ELSE all, TRUE)

Standard(a, n) ==
    CASE a = "md5" -> MerkleDamgard(n, 64, 8, TRUE)
      [] a \in {"sha0", "sha1", "sha224", "sha256"} -> MerkleDamgard(n, 64, 8, FALSE)
      [] a \in {"sha384", "sha512", "sha512_t"} -> MerkleDamgard(n, 128, 16, FALSE)
      [] a = "blake224" -> Blake(n, 64, 8, 0)
      [] a = "blake256" -> Blake(n, 64, 8, 1)
      [] a = "blake384" -> Blake(n, 128, 16, 0)
      [] a = "blake512" -> Blake(n, 128, 16, 1)
      [] a = "blake2b" -> Blake2(n, 128, 0)
      [] a = "blake2b_key" -> Blake2(n, 128, 3)
      [] a = "blake2s" -> Blake2(n, 64, 0)
      [] a = "blake2s_key" -> Blake2(n, 64, 3)

\* The lengths at which the code does not follow them.
Deviates(a, n) ==
    CASE a \in {"md5", "sha0", "sha1"} -> FALSE
      [] a \in {"sha224", "sha256"} -> n % 64 = 56
      [] a \in {"sha384", "sha512", "sha512_t"} -> n % 128 = 112
      [] a = "blake224" -> n % 64 >= 56 \/ (n % 64 = 0 /\ n > 0)
      [] a = "blake256" -> n % 64 >= 55 \/ (n % 64 = 0 /\ n > 0)
      [] a = "blake384" -> n % 128 >= 112 \/ (n % 128 = 0 /\ n > 0)
      [] a = "blake512" -> n % 128 >= 111 \/ (n % 128 = 0 /\ n > 0)
      [] a = "blake2b" -> n >= 128
      [] a = "blake2b_key" -> n = 0 \/ n >= 128
      [] a = "blake2s" -> n % 64 >= 56 \/ (n % 64 = 0 /\ n > 0)
      [] a = "blake2s_key" -> n % 64 >= 56 \/ n % 64 = 0

Whole(a, n) == update(a, init(a), n)

\* The types; a buffer is never full between two calls, and what is not used of
\* it is zero, which every final function relies on when it pads.
DigestTypeOK ==
    /\ alg \in Algorithms \cup {"none"} /\ lossy \subseteq {"a", "b"}
    /\ \A o \in {"a", "b"} : objs[o] # None =>
          /\ objs[o].bufflen \in 0 .. BlockSize(objs[o]) - 1
          /\ \A i \in objs[o].bufflen + 1 .. BlockSize(objs[o]) : objs[o].buffer[i] = 0

\* What final hashes is what the standard hashes for the message, but for the
\* lengths Deviates names: the limits, markers and counters of each final
\* function (md5.c 117-129, sha01.c 125-137, sha2xx.c 144-157, sha2-256.c
\* 162-175, blake.c 193-257 and 423-493, blake2.c 243-245 and 367-377).
BlocksAreStandard ==
    out # None /\ out.of \notin lossy /\ ~Deviates(alg, objs[out.of].total) =>
        out.blocks = Standard(alg, objs[out.of].total)

\* "incremental", and "the + operator clones the hash" (docs/crypto.md): the
\* object, or the sum, is in the state of one that got the message at once.
HashedLikeWhole(o) == objs[o] # None => objs[o] = Whole(alg, objs[o].total)

\* That holds of every object that no piece took over the end of a block which
\* other pieces began (the loop of the update functions), and that does not
\* come from a blake2b with more than 64 bytes in its buffer.
PiecesMakeMessage == \A o \in {"a", "b"} : o \notin lossy => HashedLikeWhole(o)

\* The documents make no exception: every hash of this module is marked "y" in
\* the column "incremental" (docs/crypto.md 11-64).
HashIsIncremental == \A o \in {"a", "b"} : HashedLikeWhole(o)
=============================================================================
