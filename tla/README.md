# A TLA+ model of lullaby

lullaby is a C library for Lua: threads and objects shared between them, an
HTTP server and client, hashes, encoders, sorts and table helpers. This
directory models the parts that carry state, checks them with TLC on small
instances and proves their main properties with TLAPS for every instance.
`PROJECT.json` lists components, runs, mutants, the map from definitions to
source lines, findings, hazards and theorems.

## 1. Inventory

| Part | State | Operations | Talks to | What makes it correct |
|---|---|---|---|---|
| larray (`types/larray.c`) | slots, `len`, `size` | set, geti, get, expand | used by locks and routes | a dictionary; lookups end |
| locks (`thread.c` 23-86) | `thread_locks`, `thread_lock_lock`, `thread_priority_lock`, one mutex per id | lock, unlock | larray; all threads | mutual exclusion per id; lock returns |
| async threads (`thread.c` 13-19, 147-288) | `thread_info`: Lua state, lock, `return_count`, `done`, `tid` | async, await, clean/`__gc`, close, res | pthreads, deep copy | await gives the worker's result; no use after free |
| buffers (`thread.c` 290-471) | a Lua state and a mutex per buffer, global `used` | get, set, mod, index, `__gc` | deep copy; all threads | atomic shared cells |
| mutex objects (`thread.c` 88-145) | a pthread mutex | lock, unlock, free/`__gc` | deep copy shares the pointer | no use after free |
| HTTP server (`net.c` 700-1004, `net/lua.c`) | `threads`, descriptors, `res`, `req`, `_stop` | accept, 503, handler, write, send, close, sendfile, stop, roll | kernel descriptors, routes | limit kept; each connection closed once, by its own handler |
| header, path, routes (`net/util.c`, `net.c` 661-698, 1006-1042) | pure, but for the global `paths` | recv_header, parse_header, percent_decode, path_parse, match_param, route_match | larray, parray | what the bytes mean, however they are split |
| request bodies (`net/luai.c`) | `file_parse` | rolling_file_parse | roll | parts found however the body is split |
| HTTP client, websocket (`net.c` 60-660) | `request_state`, chunk state, frame state | request, read, chunk decoding, ws read/write | streams | content is what was sent |
| streams (`lua.c` 28-146) | `_read`, `_free`, `_state`, `more` | read, file, close/`__gc` | request | reads end; state freed once |
| copies between Lua states (`lua.c` 165-465) | registry of copied tables | deepcopy, copyvars, upvalues | threads, buffers, server | a copy equals its source |
| containers (`types/map.c`, `parray.c`, `str.c`) | arrays | set, get, remove, push, pop | everything | dictionaries, strings |
| sorts, tables, math, encoders | none | pure functions | | sorted permutation, round trip |
| hashes (`hash/`) | a context per hash | init, update, final | crypto | `update` in pieces equals one update |
| config, registration, logging, io | settings | set-up, printing, JSON | | |

What is hard here: real threads share mutexes, tables and memory without a
common discipline; state is read before a wait and used after it; a Lua error
leaves C code by a long jump; `__gc` runs when it pleases; numbers that name
threads and descriptors are reused by the system; and network input arrives in
arbitrary pieces. Buffers have limits at which an off-by-one hides from tests.
Section 7 says what of this is not modelled.

## 2. Modules

| Module | Models |
|---|---|
| `LArray` | the tables of `types/larray.c` and what one round of a function does to them |
| `LArraySet` (extends `LArray`) | a call of `larray_set` with the calls of `larray_expand` it makes, as steps |
| `Dictionary`, `LArrayTable` | a dictionary, and one larray under any sequence of sets, shown to implement it |
| `ThreadLocks` (extends `LArraySet`) | `l_tlock`, `l_tunlock` and their table |
| `AsyncThread` | `l_async`, the handle's methods, `handle_thread`, `l_res` |
| `SharedCell`, `ThreadBuffer` | atomic shared cells, and the buffers shown to implement them |
| `NetServer` | `start_serv`, `handle_client`, the methods of `res` and `req` |
| `Bytes` | `memmem` and `strchr` on sequences of bytes |
| `HttpClient` | `_request`, `chunked_encoding_round`, `_srequest_read`/`_free` and the stream object around them |
| `WebSocket` | `l_wss`, `i_ws_read`, `i_ws_write`, `i_ws_close` |
| `RequestReader` | `recv_header`, `l_roll`, `rolling_file_parse` |
| `Connections` | the three side by side, one chosen at the start of a behaviour |
| `Program` | `Connections` and `ThreadBuffer` side by side |
| `Threads` | `ThreadLocks` and `AsyncThread` side by side |
| `Server` | `NetServer` and `LArrayTable` side by side |
| `DeepCopy` | `luaI_deepcopy` and its registry, between changes of the source program |
| `Digests` | the sixteen incremental block hashes and their objects |
| `Sorts`, `Tables`, `Encoders` | `sort.c`, `table.c`, `encode/` as operators |
| `Texts`, `StringMap` | the parsers of `net/util.c`, `net.c` and `util.c` with `parray`; `map.c` with `parse_mimetypes` |
| `Library` | calls of the operators, and what they return against references |
| `Utilities` | `DeepCopy`, `Digests` and `Library` side by side |
| `AsyncThreadProofs`, `ThreadBufferProofs`, `NetServerProofs` | the theorems about the three modules |
| `LArraySetProofs`, `LArrayTableProofs`, `ThreadLocksProofs` | the invariant of `larray_set`, and the theorems about the table and the locks that rest on it |
| `WebSocketProofs`, `ConnectionsProofs` | the invariants of the websocket, and the theorems about connections |
| `MC...` | instances for TLC |

The parts that stand side by side in a module share no state (a lock id is no
handle, a connection no buffer), so interleaving them would show nothing more:
a behaviour follows one of them, and one run of TLC checks them all.

Definitions called "Mutant" are wrong variants of the definition that follows
them; no specification uses them. They show that each property can fail.

**larray.** A table is a record with `arr` (a function from 0 .. size-1), `len`
and `size`. A probe is described by the displacements it visits, so that "the
first stop" is a minimum; `larray_geti` stops one slot early exactly where the
code does (`initial - 1` wraps to 2^64-1 when the probe starts at slot 0). In C
`larray_set` and `larray_expand` call each other: `LArraySet` has the calls of
`larray_expand` on a stack, each with the table it copies and the slot its loop
has come to, and takes one step per load test, probe, copied slot and return.
`Outer` is the table as the caller of the outermost `larray_set` has it.

**Locks.** A step is what a thread does between two points at which it may
block. `TLockCall` and `TUnlockCall` are the calls. The branch for an unknown
id is `TLockNew` (the mutex is made and locked, and `larray_set` called),
`TLockSet` (the steps of `larray_set`) and `TLockMade`, all with
`thread_lock_lock` held. The branch for a known id is `TLockFound` (line 56, with `thread_lock_lock` kept), `TLockPriority`
(57-59), `TLockMutex` (60) and `TLockRetake` (61-68, the write to the saved
index included). A thread does not lock an id it holds nor unlock one it does
not hold; the C mutexes leave both undefined.

**Async threads.** One caller and one worker per handle. `Res` and `Return` end
the worker's function, `Unlock` is its last use of its info, `Exit` frees its
pthread_t for the next thread. `PthreadCancel` reaches whichever worker has the
number; `Die` is the asynchronous cancellation. `UseFreed` is any step of a
worker whose info was freed; undefined behaviour, so the process is "wild" from
there on. `Uses` says what the program does with its handles. A result is
copied as it is; that `luaI_deepcopy` may give an older table instead (lua.c:203)
is in `DeepCopy`.

**Buffers.** A buffer's Lua state is its stack. `SetClear`/`SetPush` are the parts
of `set` between which other threads can see the state. A `mod` has one step per
line that others can see: it takes the buffer's mutex and finds `used` 0
(`ModAssert`) or aborts (`ModAbort`), stores 1 (`ModUse`), copies the value
(`ModCopy`), and when the function returns stores nothing (`ModNil`) or empties
the stack (`ModClear`) and pushes (`ModPush`), stores 0 and unlocks (`ModEnd`).
The test and the store of `used` are two steps under a mutex that is the
buffer's own, so two mods of different buffers may both pass the assertion;
`raced` remembers it. `calls` are the calls a thread is in: the function of a mod
may itself call get, set and mod and index buffers, to any depth, and hangs on a
buffer its thread has locked (`Stuck`). `Index...` is `l_buffer_index`, which takes
no mutex. The Lua API is taken to be atomic per call although two threads on one
state are a data race: the model shows what goes wrong even so. Copies are
exact (the deep copy's own defects are a hazard of their own). The metamethod
proxies, which the source marks "not thread safe yet", are left out.

**Server.** A descriptor is a number that goes to the next connection once it is
closed. `fd` is the descriptor in `handle_client` and in `req`, `res` the one in
`res`. `Reach` records which connection a handler's `send` or `recv` arrives at.
`Spawn` covers a `pthread_create` that fails, `Fatal`, `SendfileFails` and
`AcceptFails` are the calls of `p_fatal`, which end the process. Which routes
match is a number of route functions; what they do is any sequence of calls.

**HTTP client and streams.** A request has a header, a body sent plainly or in
chunks, and an end: the peer closes or the connection breaks. `HeaderPiece` and
`BodyPiece` take any number of the bytes still to come, so every split is
explored. A length line has any number of hexadecimal digits and perhaps a chunk
extension, and is read as `strtoll` reads it. The chunk decoder is the code's byte loop (`LengthByte` until a line
ends, `DataBytes` for as much as there is) with its state in `chunk`. `ReadCall`
and `FileCall` are `stream:read` and `stream:file`; `BodyEnd` is the end of
`_srequest_read` with what the caller does with the answer: it returns, or
`file` goes round again because 1 is not 0. A failed read is -1 in a
`uint64_t`, that is a huge length: without a decoder the process is "wild".
`StreamClose`, `StreamGc` and `ReadFreed` are the uses of the freed state.

**Websocket.** `Shake` reads the handshake's answer and forgets what came with
it (`lost`). A read goes through "head", "ext" and "payload", each a loop of
`SSL_read` that takes any number of the wanted bytes; `WsEnd` is the end of the
connection in one of them, after which the code goes on with zeros (`cut`).
Bytes are numbers, so that the length forms are computed as in C.

**Requests.** `RecvHeader` is a round of `recv_header` with its look-back, the
limit included. `RollPiece` is a `req:roll` that got n bytes: one call of
`rolling_file_parse`, which goes through the buffer in rounds of `ParseRound`,
each of which does what the status asks for (its `goto` is the next round) and
leaves fewer bytes. `sliced` says that a read ended inside a boundary line. A boundary is a
sequence of bytes, of which the parser drops the dashes; any other parameter of
the Content-Type ("text/plain; charset=utf-8") makes it parse a form with that
parameter's value for the boundary, as in the code. Leaving the
buffer is the status "wild", `abort()` is "abort".

**Copies.** The source program makes any graph of up to three tables with
fields and metatables, copies one of them, changes a field or drops a table
and gets its address again, and copies another. The destination's tables are
numbered, `reg` is its registry.

**Hashes.** The round functions are free constructors: an object's chain is the
list of blocks, counters and final flags it has hashed. Message bytes are
numbered, so that the blocks show which byte of which piece they depend on, and a
byte from behind an argument is `Outside`. `Standard` is the padding of RFC
1321, FIPS 180, BLAKE and RFC 7693; lengths at which the code hashes other blocks
are in `Deviates`. The digest as text is not modelled: what is compared are the
blocks that were hashed. The text is not the standard's at any length when a word
of the result is small, since `%x` (sha2xx.c:167, 180) and `%02x` (sha01.c:139) drop
leading zeros. The byte that the padding's `memset` writes behind the buffer
(md5.c:121 and the same line elsewhere) is not modelled either.

**Pure functions.** Loops are folds or recursive operators with the code's
bounds. What the code does outside its contract is a value of its own: `Error`
(a Lua error), `Fatal` (`p_fatal`), `Hangs`, `Wild` and `OffTheEnd` (it leaves
its buffer). Texts are sequences of characters from a small alphabet in which
each separator occurs. Route patterns have parameters as single symbols. The
hash of a `map` key is the constant `HashOf`, chosen to have collisions modulo
the table's size and equal hashes.

## 3. Runs

| Run | Shows | Bounds |
|---|---|---|
| `threads` | locks: exclusion and the right mutex unless the table is copied under a waiting thread, and a sole waiter gets the lock; async threads: await's result, memory safety after an await, awaits return | 3 threads, 2 ids that share slot 0, a table that grows from 2 slots, 1 call each and 2 of one thread; 2 handles, 2 pthread_t values, 2 results, all uses |
| `server` | handlers: counter, limit, descriptors; the table: it is a dictionary, every stored key is found, lookups end | 2 accept loops, 3 connections, 2 descriptors, `max_con` 1, up to 2 routes; 3 keys that collide and wrap round, 2 values, tables of 2 (instead of 4), 8, 32 and 128 slots; `ProbeLimit` 0 instead of 10, so that a probe gives up within a small table and an expansion expands again |
| `program` | decoders and parsers give what was sent in every split, calls return, what is freed once; buffers: mutex and `used` follow the calls, undisturbed buffers are cells | bodies of up to 2 chunks, of 1 to 3 bytes and of 16 (two digits), with bytes that look like line ends and lengths, leading zeros and extensions; 2 frames in each length form; forms of 2 parts with a boundary of 2 bytes, contents that look like boundaries; 2 threads, 2 buffers, 2 values, 2 functions, nested calls, indexes on stacks up to 2 |
| `utilities` | copies, hashes and pure functions against references | 3 tables and 2 copies; 16 hashes, 3 pieces of 9 lengths around each limit; all arrays of 3 numbers of 4 and of 4 numbers of 3, all orders of 5; all texts up to 5 characters of small alphabets; `MapProbeLimit` 0 instead of 10 |
| `locks_three` (violation) | a third caller blocks everyone | 3 threads, 1 id, 1 call each |
| `locks_grow` (violation) | the stale index breaks exclusion | 2 threads, 4 ids: the 4-slot table grows while one thread waits |
| `async_reuse` (violation) | clean cancels another worker | 2 handles, await and clean only |
| `buffer_assert` (violation) | mods of two buffers fail the assertion | 2 threads, 2 buffers, get, set and mod only |
| `net_cross` (violation) | the 500 goes to another client | 1 loop, 2 connections, 1 descriptor |
| `form_split` (violation) | a boundary split over two reads aborts the server | the forms of `program` |
| `pieces` (violation) | md5 of two pieces is not md5 of the message | pieces of 1 and 64 bytes |
| `tables` (violation) | sorts and table functions against their documents | the table {2, 4, 8} of docs/table.md |

The bounds are the smallest at which every case happens: a table that grows
while somebody waits, two waiters and a holder, a pthread_t or a descriptor that
is reused while the old number is still kept, a nested expansion, a mod that
passes the assertion beside another, a read that ends inside a boundary. Larger
instances repeat these cases; where section 4 has a theorem it removes the
bounds. Symmetric sets (loops, connections and descriptors in `server`, addresses
in `utilities`) are used in runs without liveness properties only. Deadlock is not
reported as such: a program that has made all its calls stops, and the lock runs
state what must not hang as liveness instead.

The violations are recorded under "findings":

* `lock` holds the table's mutex while it waits for the priority mutex, so a
  second waiter locks out the `unlock` it waits for. (Two threads suffice when
  one of them locks an id, unlocks it and locks another that is held.)
* `lock` writes through a table index that it read before it waited.
* `clean` cancels a pthread_t that may belong to another thread by now.
* `mod` asserts on a flag shared by all buffers.
* a route function that fails after `res:send` makes the server write to a
  descriptor that may belong to another client.
* docs/net/listen.md (205-206) says that what may be a boundary is buffered until
  it ends; the parser calls `abort` when a read ends inside one (luai.c:163).
* docs/crypto.md marks the block hashes "incremental"; a piece that crosses the
  end of a block begun before loses bytes (md5.c:95, and the same loop elsewhere).
  A sum of blake2b hashes with more than 64 bytes buffered loses bytes as well
  (blake2.c:406).
* docs/table.md and sort.h say that the esoteric sorts go from greatest to least
  (they go the other way, bogosort too), that `reverse` returns all entries (it
  loses the last), that `index` counts from 1 (from 0) and that `sindex` searches an
  ascending table (a descending one).

Each has a passing counterpart that says how far the code does go:
`LockReturnsToSoleWaiter`; `ExclusiveUnlessCopied` with `OwnedUnlessCopied` (no
table is copied while a thread waits); `AwaitReturnsUnlessCancelled`;
`UsedMatchesMods`; `CrossTalkOnlyAfterClose`; `ParserFailsOnlyIfSliced`;
`PiecesMakeMessage`; `SortsOrder` and `TablesAnswer`, which claim only what the
documents say as well.

In `program` and `utilities` a property is the conjunction of named parts, one per
operation. Many have a condition, since the code does not always do what it is
for. The condition says where the property makes no claim:

* a hash given in pieces is that of the whole message if no piece crosses the end
  of a block that was begun before, and no sum was made of a blake2b with more
  than 64 bytes buffered (`PiecesMakeMessage`);
* the blocks hashed are the standard's at all lengths but those of `Deviates`
  (`BlocksAreStandard`): 56 modulo 64 in sha224/256 (sha2xx.c:146), 112 modulo 128
  in sha384/512 (sha2-256.c:164), and several in blake and blake2;
* a form is parsed if no read ends inside a boundary line, and even then its
  second and later parts lose their first header line;
* `stream:file` returns if it asks for no more than there is; the stream's
  memory is safe if the program does not call `close` and no plain connection
  breaks;
* messages of a websocket are the peer's frames if none came with the
  handshake's answer and the connection did not end inside a frame;
* a table that a copy meets for the first time is copied exactly; one whose
  address was met before is not copied again, whatever it holds now
  (`CopiesEqualSource`), and metatables are dropped below metatables;
* `split` is compared for delimiters of one byte, and for the pieces that are not
  empty. (library/lullaby/table.lua:9-10 shows which empty ones it should return;
  l_split returns others. With a longer delimiter it skips one byte only.)
* `threads` counts a connection whose thread could not be created as a handler:
  its place under the limit is lost (net.c:997), which no property excludes.

One more is exact: base64 comes back if and only if no group has the sextets 62
or 0 in the wrong place.

### Fairness

`ThreadLocks` assumes weak fairness of each thread inside the library (a thread
that is not blocked runs on; a mutex that stays free is acquired) and that
programs unlock what they have locked. `AsyncThread` assumes that worker
functions end and that a blocked await goes on once the lock is free.
`HttpClient` assumes that the network goes on (delivers a byte, closes or
breaks) while a read waits for it: the read is blocked in the kernel, and
`CallReturns` is about peers that close. Nothing is assumed about callers. No strong fairness is used, since pthread mutexes
promise none.

## 4. Proofs

Every theorem holds for all values of the constants under the ASSUMEs of the
modules. They say which special values differ from ordinary ones, which sets are
finite and what the inputs are: keys and ids are naturals, headers, bodies and
frames are sequences of bytes. Four of them are restrictions:

* `WebSocketAssumption`: lengths are below 2^31. From there on `i_ws_read` shifts
  a byte into the sign bit of an `int` (net.c:234) and reads another length. A
  frame of the peer has a length that its form can hold.
* `RequestAssumption`: a request's header has at least eight bytes, which every
  request line has, and ends at its first CR LF CR LF (what comes later is body).
  `recv_header` does not search the first four bytes again after a short read.
* `ClientAssumption`: a response's header, too, ends at its first CR LF CR LF; the
  length lines say the lengths of the chunks, which are above 0 and below 2^31 as
  the decoder keeps them in an `int` (net.c 81-103). The lines have any number of
  digits, leading zeros and extensions.
* `ByteNames`: the names used for bytes are elements of `Byte`. It only tells
  the provers that string literals are strings. The name "none", which stands for
  a null pointer, is no byte.

Several lemmas are about functions defined by recursion on a number (what
`FlattenSeq` joins, what `BigEndian` adds up). The provers cannot instantiate
induction theorems, so these argue by the least number at which the claim fails:
`LeastOfNaturals` gives it, and the recursion carries the claim to it from the
number before.

**AsyncThreadProofs.** `AwaitGivesResult` is not inductive: that `ret` is final
when `await` reads it rests on the lock. `LockInv` says that the lock is open,
or was taken by an await, only after the worker has settled; `RetInv` that `ret`
is written once, before that; `GotInv` that an await returned `ret`. With them
follow `AwaitCorrect` and `CleanAfterAwaitSafe`: a handle that was awaited is
freed only when its worker has no use for it.

**ThreadBufferProofs.** `MutexMatchesCalls` is inductive with the types and with
`CallsDiffer` (no thread is in two calls on one buffer). `UsedMatchesMods` says of
`used` what is left once two mods may pass the assertion together: 1 is never
stale, and 0 is right unless that has happened. `Flag` is its invariant.
`CopyCurrent` says that the copy given to a mod's function is still the buffer's
value when the function returns, unless an index disturbed it, whatever the
function itself calls; it rests on the mutex alone, not on `used`, so it holds
when mods of several buffers overlap. The refinement `BuffersRefineCells` maps a
buffer to the value being stored while its stack is empty and to the bottom of the
stack otherwise, and shows step by step that a set is `Set`, a mod `Mod` on the
current value, a push `Done`, a get `Get`, and everything else a stuttering step.

**NetServerProofs.** `LoopInv` (an accept loop has its own connection),
`HolderInv` (what a handler will close is its connection's) and `OwnerInv` (an
open descriptor is held by a handler that will close it) are mutually
inductive: that nobody else closes a connection needs that no two handlers hold
one number, which is `OwnerInv`. The limit needs `LimitInv`, which counts the
loops that have passed the test and not yet incremented: `threads` plus these
stay below `max_con` plus the number of loops.

**LArraySetProofs.** `SetInv` is the inductive invariant of `larray_set`, for a
first size, a probe limit and keys of any value. Its core is `Sound`: a used slot
is reached from its key's first slot over used slots with other keys, and before
the last slot of the probe (`PlacedAt`); `len` bounds the number of used slots,
which it may exceed because it also counts overwritten keys, and stays below
`size`. From it follow that a key is in one slot only, and that `larray_geti` decides whether a key is stored (`GetiDecides`) and ends
(`GetiEnds`), although its own loop bound fails at slot 0. For a table that is
being copied `Copies` says that the copy has exactly the keys and values of the
slots passed so far, and no more entries than slots passed; with four times the
slots it never passes the load test during a copy (`CopyHasRoom`), so that a
nested expansion comes from a long probe only. A nested copy that replaces a
half-built copy is again a copy of what was passed (`CopiesNested`): this is
where no key can be lost.

**LArrayTableProofs.** Adds which keys and values the slots hold (`TableInv`), and
proves the type invariant, `GetiAlwaysEnds`, `StoredKeysFound` and the refinement
of `Dictionary`: the abstract dictionary is what `larray_get` answers on the
caller's table; a call is `Ask`, the last store `Set`, and every other step,
nested expansions included, stutters.

**ThreadLocksProofs.** `TypeInv` joins `SetInv` with who holds `thread_lock_lock`
at which line; it shows that the stale index stays inside the table, whatever
happens to it. Exclusion does not hold in general (`locks_grow`), so the second
invariant, `LockInv`, is carried along behaviours in which no table is copied
while a thread waits (`CopiesUnwatched`): the waiting thread's index is still its
id's slot (`WaitersFindSlot`), no two ids share a mutex (`MutexesUnshared`), and
who holds an id owns its mutex (`HoldersOwn`). `LocksExclude` and
`HoldersOwnTheirMutex` have the condition in their statement; a set that needs no
copy may happen under a waiting thread at any time.

**WebSocketProofs, ConnectionsProofs.** `WsInv` says where the reader is in the
peer's stream. `Left(s)[k]` are the bytes after the first k frames; in each of the
three loops the bytes taken and the bytes to come make up what the peer sent
from the beginning of that part on (`InStep`), whatever the pieces. At the end of
a loop `SplitEqual` identifies the bytes taken with the head, the length bytes or
the text, and `FormBytes` what the code computes from them with the length of the
text. The invariant is claimed only while no frame was lost with the handshake
and no end of the connection was taken for data, as the property is.
`MessagesAreFramesRead` follows. `WrittenLengthsRead` needs the same arithmetic
for the lengths that are written. `MemoryFreedOnce` rests on `FreeInv`: a stream's
state that was freed was freed by `close`, or nobody has the stream any more.
`HeadersAreFound` rests on `HeadInv` and `ReqInv`: what has been read before the
end is found has no end in it, for which the look-back must be at least three
bytes, and on the server's side the first four bytes must be excluded.

`ContentIsDelivered` needs to know where the chunk decoder is in the response.
`IsPlan` gives, for each number of chunks, the bytes of the wire and of the
content that follow; the decoder is in step (`Dec`) when it is in the line before
chunk k (`InLine`: what it has in its buffer and what is to come are the line it
wants and the rest), in the data of chunk k (`InData`), or behind the last
line (`AtEnd`). One round of the loop keeps it in step (`RoundStep`), wherever the
read ends, and the least-number argument carries it through the rounds of a read
(`PieceDecoded`). This is where bytes of the content that look like digits or
line ends could do harm; and the byte after the data of a chunk, the CR, is
skipped (net.c:107) only when it is in the same read, so that the next line comes
with or without it. `DeliverInv`
joins it with the way a stream takes: before the end of the header what was read
and what is to come are a header and a body, or a header that was cut off
(`HeaderPart`), from then on the stream is in order (`StreamPart`), whatever the
encoding. `PlainBodiesCollected` is the same for the server (`CollectInv`), whose
plain bodies are not decoded.

`ParserFailsOnlyOnSlices` and `BodiesAreParsed` are about forms. `IsForm` gives the
bytes that follow each part and each header line. The parser of a recognisable
form is at a `Place` in it: in a header, with the lines that it has (`InHeader`),
in a content (`InContent`), in a boundary line together with the header line that
is lost with it (`AtBoundary`), or behind the last (`AtLast`); the files before
are those sent (`Filled`). One round keeps it at a place (`FormRound`) provided
that no boundary line lies on both sides of the read's end (`CutOk`), and so
does a whole read (`FormParsed`). `CutOutside` shows that this proviso is what the
property says, that the read did not end inside a line (`InsideLine`), by finding
each boundary line where `memmem` finds it. `FormInv` has this for the server: the
parser has not started before the header's end, and from then on, while no read
was cut so, it is at a place. At a place it has not failed, and with nothing to
come it is behind the last boundary, with all files. The header is needed as well:
what the last read of it brings is the first part of the body (`HeaderRead`).

What makes a form `Recognisable` is what this proof needs: no dash in the boundary,
which may otherwise be of any length, no boundary in a content, no colon or line end in a key or value
and no blank at its beginning, a value that is not empty, and a header line in
each part after the first. The assumptions on the constants do not say it: it is
a condition in the two properties.

`ConnectionsTyped` uses all of these. That a file is given no more than the
content needs the decoder in step; that a frame has no more than its length must
hold also where `WsInv` claims nothing, after bytes were lost or the end was taken
for data (`WsTyped`); that the parser of a form has a file whenever it writes to
one holds for any bytes at all, also in a form that is cut anywhere
(`ParseFormTyped`).

Only model-checked:

* all liveness (outside the prover's reach), and the violations;
* all of `utilities`: the copies, hashes, sorts, encoders and text parsers use
  recursive operators, about which nothing can be proved here.

## 5. Hazards

`PROJECT.json` lists them at their lines with the properties aimed at them.
Those without a property are undefined behaviour that a model can show but not
rule out, or need sizes beyond any bound a check can hold.

## 6. Plan

Done: the concurrent core, the table and the connections with their proofs, the
decoders and the parser of forms, the copies, the hashes and the pure functions.
Left, in this order:

1. Lemmas about single operators of `utilities` that need no recursion.
2. Mutex objects as copied pointers, with the copies of userdata.
3. The byte-wise checksums at their word widths.

## 7. Not modelled

* The round functions of the hashes (constant arithmetic, covered by test
  vectors), the byte-wise checksums (one-line recurrences), digests as text.
* The TLS library and the name resolution: a connection is a byte stream.
* Printing, JSON, configuration, module registration, `math.c`, the Lua stubs.
* Mutex objects, numbers and functions in copies, upvalues and environments.
* `http_build` and `i_write_header`, which compose a response's text; route
  registration in `l_req_com`.
* Functions without a caller: `recv_full_buffer`, `content_disposition`,
  `luaI_deepcopy2`, `map_remove`, `lib_thread_clean`.
* Memory exhaustion, and Windows.
