# libmondai, specified

libmondai is the data library of PANDA/MONTSUQI: it describes records in a small language, keeps their
values as trees, packs and parses those trees in several wire formats, and gives its users byte strings,
named memory pools, hash tables and a reader/writer lock. This directory holds TLA+ models of it, TLC
configurations that check them on small instances, and proofs that TLAPS checks. Paths below are relative to
the repository.

Run `tlc -config MCRWLock.cfg MCRWLock` (and the same for the other configurations) and `tlapm RWLockProofs.tla`
(and the same for `LBSProofs`, `LexProofs`, `PoolProofs`, `RecParserProofs`, `StartupProofs`, `ValueTreeProofs` and `LeastNumber`). `PROJECT.json` lists the runs, the mutants that show each
property to depend on the code, the lines behind every definition, the findings, the hazards and the theorems.

## 1. The system

| Component | Source | State | Operations | What is hard about it | What makes it correct | Model |
|---|---|---|---|---|---|---|
| Reader/writer lock | `src/lock.c` | `rwlock`, `wwrite`, a mutex, two condition variables | `LockRead`, `LockWrite`, `UnLock`, `_WaitLock` | signals sent after the mutex is given up; woken writers leaving and rejoining the count; spurious wake-ups | writers alone; counters exact; no wake-up lost; somebody enters | `RWLock` |
| Memory pools | `src/memory.c` | table of named pools under a lock; per pool a list of areas, under none | `NewPool`, `GetPool`, `GetArea*`, `ReleaseArea*`, `ReleasePool*`, `SetFinalizer`, `InitPool`, `ReleaseAllPool` | threads racing for a name; pointers used after the lock is gone; relinking; finalizers; a nested lock | table and pools agree; each area on one list, and there for as long as a client has it; one finalizer run per area; nothing used after it is freed; the lock held where the table is used and nowhere else | `Pool` |
| Large byte strings | `src/LBSfunc.c` | body, `ptr`, `size`, `asize` | functions that emit, fetch, seek, trim, convert, duplicate | any order of calls; growth, failed growth, `size_t` wrapping | cursor in the used part, used part in the buffer; behaves as a stream of bytes | `LBS`, `ByteStream` |
| Value trees | `src/value.c` | heap of `ValueStruct`s: parents, items, names, member tables, prototypes, attributes | build, name, duplicate, expand, copy, initialise, fill, move, assign, compare, free | ownership across long call sequences; look-ups that enlarge arrays; three views of one record; buffers and lengths copied type by type | a forest; long names lead back; duplicates equal and separate; moves to wider types lose nothing; an order | `ValueTree`, `TypedValue` |
| Hash tables, chunks | `src/hash.c` | a lazily initialised mutex around GLib | new, destroy | the mutex initialised while held | exclusive once the first callers are through | `Startup` (the mutex) |
| Record parser, cache | `src/RecParser.c` | stack of open records, the last token, an error flag; the table of parsed files, one tree per file | `RecParseValue`, `RecParseValueNoCache`, `RecParseValueMem` | parsing goes on behind errors; modifiers come after what they modify; failures entered as NULL | what is returned is whole; everyone gets the same tree; calls end | `RecParser` |
| Lexer, include stack | `src/Lex.c` | stack of inputs, who owns each file and body, a position, a pushed-back character | push, drop, include, `Lex` | loops with different ideas of the end; a failing include; push-backs across includes | files held once; positions in step; calls end | `Lex` |
| Getters, setters | `src/getset.c` | none of their own | `SetValue*`, `ValueTo*` | narrowing; signs and points; the NIL attribute | what a value shows sets another to show the same | `Strings`, `TypedValue`, `Conversions` |
| Fixed-point numbers | `src/fixed.c`, `src/numerici.c` | none | rescale, to and from int, float, `Numeric` | signs in the zone bits of the first digit | agrees with arithmetic | `Fixed` |
| Native codec | `src/Native.c` | none | pack, size, unpack | NULL strings and items | size = packed length; unpack inverts pack | `NativeCodec` |
| COBOL codecs | `src/OpenCOBOL.c`, `src/dotCOBOL.c`, `src/cobolvalue.c` | none | pack, size, unpack in fixed widths | signs, dates, consecutive fields | the same, fields in step | `Cobol` |
| Text codecs | `src/Text.c` | none | CSV, SQL, RFC822, CGI | quotes and escapes; names; items left out; counting | fields kept apart; sizes suffice | `TextCodecs` |
| JSON codec | `src/json.c` | none | pack, size, unpack, with and without what is empty | what is left out and put back | unpack inverts pack, whatever the receiver held | `JSONCodec` |
| Encodings | `src/others.c` | none | URL, Base64, backslash | boundaries | decoding inverts encoding | `Encodings` |
| Choice of a codec | `src/valueconv.c` | three function pointers, a table of codecs | `GetConvFunc`, `ConvSetLanguage` | a table published before it is filled, and by several threads; globals set one after the other | a codec is missed only while a table is being filled | `Startup` (but for the three function pointers) |
| Strings | `src/monstring.c` | none | `StrToInt`, `HexToInt`, copies | – | – | `Strings` (the conversions) |
| XML codec | `src/XML.c` | while reading, a long name as a cursor into a tree | pack, size, SAX callbacks | the cursor follows nested elements | each text reaches its item | `XMLCodec` |
| Arbitrary precision | `src/numeric.c` | none | arithmetic | carried over from PostgreSQL | – | no |
| PHP | `src/php.c` | none | packs only | – | – | no |
| Files, logging, types | `src/misc.c`, `src/fileutils.c`, `src/debug.h`, `src/types.h` | none | directories, messages | – | – | no |
| Tools, tests | `tools/*.c`, `src/test*.c` | none | drivers that print | – | read for what the authors expect | no |

How they interact. A pool's table is a name hash (`hash.c`) guarded by one `RWLock` (`memory.c:45-118`), the only use
of that lock inside the library. The record parser reads tokens from the lexer, builds value trees with
`ParValueDefine` and `ValueAddRecordItem`, and keeps them in its cache. The codecs walk value trees and are
reached through the function pointers of `valueconv.c`, in a table made by `hash.c`. An `LBS` holds the text the lexer collects, what
`Text.c` writes and what `getset.c` converts. `getset.c` is below the codecs and `DuplicateValue`. There are no messages, no files
that survive a crash and no timers: the hazards of this library are threads (lock, pools, lazily initialised globals), ownership
of memory over long call sequences (values, pools, inputs, the cache), loops that meet an end they do not expect (lexer, parser), and
boundaries (buffers, numbers, codecs). `PROJECT.json` lists forty of them, each at its line.

## 2. The modules and the code

How the modules build on one another:

    AbstractRWLock <- RWLock <- RWLockProofs          ByteStream <- LBS <- LBSProofs
    AbstractRWLock <- Pool <- PoolProofs              Startup <- StartupProofs
    Lex <- LexProofs                                  RecParser <- RecParserProofs
    ValueTree <- ValueTreeProofs
    LeastNumber <- PoolProofs, LexProofs, RecParserProofs, ValueTreeProofs
    Strings <- Fixed, TypedValue <- Codec <- Conversions, NativeCodec, Cobol, JSONCodec <- Codecs
    Strings <- Encodings; Encodings, Codec <- TextCodecs <- XMLCodec <- Codecs

### RWLock, AbstractRWLock

The code between taking the mutex and giving it up (or sleeping on a condition, which gives it up atomically) is one
action. `Call` enters `_Lock`; `LockRead` and `LockWrite` are one turn of its loop, from the first test or from a wake-up;
a writer that wakes takes itself out of `wwrite` and may put itself back in the same step (`StillQueued`). `UnLock` is
`_UnLock` up to `pthread_mutex_unlock`, and `SendSignal` the rest: the flags it acts on are as old as the unlock. `WaitLock` is
`_WaitLock` up to its `pthread_cond_wait`, with the mutex held throughout, and `CondWake` the caller's condition being signalled.
`SpuriousWake` is what POSIX allows. `AbstractRWLock` is a lock with readers, a writer and a set of queued writers, and
no mutex, counter or signal; `ImplementsAbstractLock` maps the threads inside to its holders.

Two things a reader of `lock.c` may stumble on: `_UnLock` signals one reader where `_WaitLock` broadcasts to all
(`NoLostWakeup` and `SomeoneEnters` hold all the same, since every reader that leaves signals the next); and nothing checks that
an unlocker holds the lock: an extra `UnLock` of a free lock would leave `rwlock` at -1. Clients of the model unlock only
what they hold.

### Pool

Threads call by name or by pool. `LockWrite(t)` is the abstract lock's two steps (queue, be admitted), which `Refinement` shows
`lock.c` to provide; the actions at the places `new`, `get`, `unname` and `all` are the code between `LockWrite(PoolTable)` and
`UnLock`. Everything after that runs without a lock and is cut where another thread's step can matter: `_GetArea` reads
`pool->head` (`GetArea`) and writes it (`Link`); `_ReleasePool` unnames, frees area by area (`SweepArea`) and frees the pool
(`FreePool`). `ReleaseArea` is one step: its list walk is not interleaved. `GoWild` is the step that touches freed memory;
its thread is not followed further. The history variables `user`, `given`, `armed` and `runs` say what clients have been given
and how often finalizers ran; `CallByName` and `CallByPool` use them to let clients release what they have, once.

`Shared` chooses the client. FALSE: each thread uses the pools it made, and only the names are contended. TRUE: threads use each
other's named pools (but release only their own), which the header does not forbid. Assumptions: finalizers do not call back into pools; malloc does not
return an area's address a second time (a pool's it may).

Observed, and modelled as it is: with `Shared` two `GetArea`s in one pool can lose an area; `ReleaseArea` never releases the newest
area of a list; `_ReleasePool` of a named pool takes the lock that `ReleaseAllPool` holds (finding 1).

### Startup

The first calls of the library, by threads that may all be first. Each read and each write of a global (`need_init_lock`, the mutex,
`FuncTable`) is a step, in the order of the code; `InsertRule` enters one codec. A mutex that is initialised while it is held is free (`InitLock`), so
that two threads are in GLib at once; a late first caller publishes its own table over one in use, and fills whatever `FuncTable` then is. What
two threads do to one `GHashTable` at once is undefined: an insertion may be lost (`InsertRule`), a codec missed (`LookUp`), the process end (`Crash`).
`ConvSetLanguage` is a look-up that ends the process for a codec that is missed (`End`); the three globals that it sets
are left out, as nothing in the code orders them and `docs/api.tex:38` says that it is not thread safe.

Observed, and modelled as it is: exclusion is lost while first callers are under way, and two threads that fill tables at once may leave one
incomplete for good. What holds is how far the damage goes: `InitialisedForGood` and `KnownFound`.

### LBS, ByteStream

An LBS is a record; each C function is an operator from LBS to LBS, so functions that call others compose as the
code does (`EmitInt` is four `Emit`s, `LBS_String` is `EmitStart`, `EmitString`, `EmitEnd`). `body` is a function on
`0..asize-1` whose unwritten bytes are `Junk`, so reading one is visible. A seek's position wraps modulo `Word` (`size_t`); a growth
beyond `Limit` is a failed `realloc`, upon which `MonErrorPrintf` ends the process (`up = FALSE`). What iconv and the
normalisations make of a text is any pair of a declared size and a result that does not exceed what is reserved. `ByteStream` is
the promise: bytes and a position, no buffer. `LBS_FetchInt` ORs in the -1 of a missing byte, so the end of the stream is an int of
-1 (`FetchedInt`). `LBS_Trim` clears the n bytes before the cursor and takes n off both cursor and size, wherever the cursor is, and does nothing if
fewer than n bytes precede it (`MayTrim`); `ByteStream` says so in `CutBack`, where the bytes behind the cursor keep their places
and the last n of the stream are lost.

### ValueTree

A heap maps addresses to `ValueStruct`s; each function of `value.c` is an operator on heaps and an action calls it on any
value. "INT" stands for scalars that `DuplicateValue` copies with a setter of `getset.c`, which makes the copy non-nil, and
"CHAR" for those that `value.c` copies itself; `Data` stands for all contents. `ParValueDefine` is how `RecParser.c` makes arrays: the
value becomes the prototype and the items are duplicates of it, none if the array is of variable size. A NULL that is dereferenced
is `Crash`. Clients hold the roots, attach only roots, never below themselves, and put array items only where there is none
(an item that is replaced would be lost).

Observed, and modelled as it is: `DuplicateValue` and `InitializeValue` make integers non-nil; of two items with
one name `ValueAddRecordItem` finds the first and a duplicate the last; items made by expansion get no parent; `CopyValue`
leaves alone what a nil source corresponds to. Outside of the bounds: an index that is negative, for which `GetArrayItem` allocates nothing and
copies the old items there; long names that `snprintf` cuts off.

### Strings, Fixed, TypedValue, Conversions

Here characters matter, and a text is a sequence of codes. `TypedValue` has the operators of `getset.c` and the scalar half of
`value.c`, one per C function: the setters of each type (`SetValueString`, `SetValueInteger`, ...), the readers (`ValueToString`, ...),
`NewValue`, `InitializeValue`, `FillValue`, `MoveValue`, `AssignValue` and `CompareValue`. A value is a type, its attributes and a body: buffer
size and text, digits with length and scale, a date of six fields. `Fixed` is the arithmetic of digits in which the sign is bit 6
of the first; floats and `Numeric`s are multiples of a unit, ints are `Bits` wide and wrap. `Conversions` is the life of one value: declared, set
by any setter, filled, cleared, made nil, moved to another declaration.

Observed, and modelled as it is: `FixedToInt` stops at the sign of a negative number; a minus zero does not survive a float;
`CompareValue` ignores DESC for OBJECTs, takes FLOATs that differ by less than 1 for equal, lets the difference of INTs wrap and puts nil first
even with DESC. Each is an exception that the property names.

### Codec, NativeCodec, Cobol, Encodings, TextCodecs, JSONCodec, XMLCodec, Codecs

`Codec` has the trees (records and arrays of scalars) and what all codecs share; each other module has one family, an operator for
each packing, sizing and unpacking function. A packet is a sequence of bytes, for JSON a tree of json-c with the length
of its text, for XML what libxml2 reports of the document, in order, with the length of each part. `Codecs` composes
them with `Conversions`: a value that has been through anything is packed, alone and in records and arrays, sized, and
unpacked into another of its declaration (`SendNative`, ..., `SendXML`), so that what one codec makes of a value is what the next one packs.

Observed, and modelled as it is:

- Native: a string that is NULL is packed as a length only, and its reader takes what follows for its text; INT, BOOL and OBJECT lose NIL.
- COBOL: OpenCOBOL loses the sign of a one-digit number and does not clear the field of a TEXT, so that one whose length leaves no room for its
  terminator, an empty one too, shows what the caller's buffer held (`stale`); dotCOBOL reads two digits of the year and, to size an array without items, looks at its item 0.
- Sizes: the packet that is modelled is what is written. Behind the size that they return CSV, SQL, RFC822 and XML leave a terminator, COBOL does if a date comes last; JSON
  counts it, the native codec and CGI write none. `SizesSuffice` therefore is about one byte more than `SizeValue`, which `testjson.c:68` reserves and
  `testNativePack.c:72` does not need. Not enough even so, and left out of it by name: a TIMESTAMP or DATE with its type in XML (two bytes), and the codec
  named XML1, which writes the first kind of markup and is registered with the size of the second (`valueconv.c:81`): any INT is counted too small.
- CSV and SQL: escapes are read again, which mangles texts with a backslash or an end of line; the last quoted field is read past its terminator; rows
  packed with `fNewLine` are never read back, and a first item that is NULL then writes before the buffer; CSV counts more than it writes;
  SQL packs a nil record as a single `null`, and nil values come back as the text "null".
- RFC822: a line that names nothing loses the rest of the packet; a named text that is empty takes the next line; the backslash encodings
  that `EncodeString` lacks are not offered here.
- JSON: with what is empty left out, a receiver keeps the contents of nested arrays that are sent empty; a record item that is NULL crashes packing.
- XML: `startElement1_`, `endElement1_`, `startElement2_`, `endElement2_` and `characters_` are steps of a reader [value, cursor, long name, `fStart`].
  An array inside a record inside the record that is sent loses the cursor in the first kind of markup, because its start pushes nothing and its end pops (so
  `XMLTree` has arrays at the top only); arrays of the second kind are written under one name and not read back; of a text with `<`, `>` or `&` only the last
  piece that libxml2 reports is kept; an empty text becomes nil. The size of a TIMESTAMP's or DATE's type is counted without its quotes. The codec named XML1 also
  reads with the function of XML2. A nil item that is NULL crashes the second kind.

### Lex

A step reads one character with `GetChar`. Texts are not fixed beforehand: what `Found` allows next is chosen when it is read. `in` is what
is being read, `ftop` the interrupted inputs. `DoInclude` finds a file, `Missing` does not: `ExitInclude` is then called while `in->body` is still
the including text's, which is freed (`text = "freed"`) and read on. Left out: `cLine` (messages), reserved words, and the difference between stdin
and any other stream. Includes of includes end in the model when no further file can be opened; in the code, when `fopen` fails.

### RecParser

A step goes to the next call of `Lex`, over tokens; those that the parser does not tell apart are one token. `stack` is the recursion of
`ParValueDefines`, `dims` the recursion over dimensions. `ErrorIf` sets `fError` and parsing goes on, which is why a value may be missing
(`NoTree`) where another dimension dereferences it (`crashed`). `left` bounds the tokens, `ends` counts how often the end was read; behind
the second end a text in memory is read on (`Overrun`), as any tokens within the bound. A value is a tree, and a tree a function from paths: the place of an item in its
record, the place of an item in that, and so on, place 0 being the prototype of an array. So `SetValueAttribute`, `DuplicateValue`, `MakeValueArray` and
`ValueAddRecordItem`, recursive in the code, are functions on paths: what is below place `i` is what was below `<<>>` before (`Under`). `RecParseValueHit` returns what the table holds; a failed parse is entered as NULL, is not found
and is parsed again.

Observed, and modelled as it is: a hit leaves the caller's `*ValueName` empty; behind an error sized types make no value, and a dimension
behind one (`char(5)[3]`) dereferences NULL; prototypes do not get the attributes of their arrays.

## 3. What the runs show

| Run | Question | Instance | States |
|---|---|---|---|
| `lock` (`MCRWLock.cfg`) | exclusion, exact counters, no lost wake-up, `_WaitLock`'s mode, refinement, progress | 4 threads, no symmetry | 67 thousand |
| `pool_safety` (`MCPool.cfg`) | clients with their own pools: names lead to their makers' pools, areas, finalizers, no use after free | 2 threads, 2 names, 2 pools, 3 areas, symmetric | 178 thousand |
| `pool_shared` (`MCPoolShared.cfg`) | clients that use each other's pools and are lost in freed memory: the table and its lock all the same | 2 threads, 1 name, 2 pools, 2 areas, symmetric | 85 thousand |
| `pool_release_all` (`MCPoolReleaseAll.cfg`) | finding: `ReleaseAllPool` sleeps on its own lock | 2 areas | violated |
| `startup` (`MCStartup.cfg`) | threads in `hash.c` and `valueconv.c` that may all be first: the mutex initialised for good, codecs found | 3 threads, 2 codecs, 1 hash each, symmetric | 408 thousand |
| `lbs_calls` (`MCLBS.cfg`) | every sequence of calls: bounds, no junk shown, ints, refinement | 2 bytes, growth 2, memory 6 | 34 thousand |
| `lbs_conversion` (`MCLBSFull.cfg`) | finding: a conversion that fits exactly | same, one text of full length | violated |
| `value_structure` (`MCValueTree.cfg`) | forest, long names, expansion, and duplicates of every value of every heap | 4 values, 2 roots, 2 items, 2 names | 274 thousand |
| `value_expand_duplicate` (`MCValueTreeExpand.cfg`) | finding: a duplicated array of variable size grows by NULLs | 4 values | violated |
| `conversions` (`MCConversions.cfg`) | every setter, move and codec: shape, text form, numbers, order, sizes, packing and unpacking | 17 declarations, 7 texts, 8-bit ints, one move | 9 thousand |
| `lexer` (`MCLex.cfg`) | files and texts held once, positions in step, `Lex` returns | 2 files, lengths 0, 2 and 7, 13 characters | 764 thousand |
| `records` (`MCRecParser.cfg`) | definitions right and wrong: whole values, modifiers, one answer for all, calls return | 13 tokens in memory, 7 in files, 3 behind an error, 3 parses | 751 thousand |

Properties that are conjunctions (`WellFormed`, `NumbersAgree`, `BinaryRestores`, `TextsRestore`, `SizesSuffice`, `InputsHeld`, `ValuesWhole`)
join named parts, each with its own comment; TLC names the conjunction when a part fails.

Why the bounds are enough to mean something:

- Lock: four threads give two sleeping writers beside a holder and an unlocker whose signal is pending, or readers and writers
  asleep together while a woken writer looks again. The proofs cover every finite number of threads.
- Pools: two threads race for one name while the loser still works; two names let a thread hold pools under both; two pools let a
  name be reused while the old pool of that name is being swept; three areas give a list with a head, a middle and a tail.
- Startup: two first callers and a third thread that holds the mutex, or looks into a table that the others are making; two codecs make a table that can be half full.
- LBS: memory of six bytes with growth by two has room for three growths, for an int behind one or two bytes, and for a
  growth that fails at every place a growth occurs. Offsets 0, 1 and 3 and `Word - 1` make seeks that stay, grow and wrap.
- Values: four values make a record in an array, an array with prototype and two items, a value beside it; `Addresses` is
  twice `MaxHeap` so that `DuplicateIsFaithful` can duplicate anything in any heap. One kind of scalar and one content suffice
  for structure; the contents of every type go through `Conversions`.
- Conversions: eight bits make ints wrap at three digits; the declarations have numbers of one, three (one behind the point)
  and fourteen digits, the length at which a date becomes a number; texts meet signs, points, escapes, quotes, commas, the byte that means nil and
  lengths beyond their field. The inputs of the setters are few (an edge on either side of what they distinguish), because each is combined with
  every declaration, every mover and every codec. Numbers are checked up to six digits (`MaxDigits`), so that hundredths stay countable.
- Lexer: seven characters are a directive with the name of a file, a push-back on either side and one character more; lengths 0 and 2
  are includes that are empty or end in a token; two files are an include in an include.
- Records: thirteen tokens are a record in a record, each with a sized type and a dimension, or modifiers behind two dimensions;
  three parses are a failure, a success and a hit.

All bounds are guards of the calls that allocate or begin (`MorePools`, `MoreAreas`, `MaxItems`, `Room`, `MayHold`, `MaxHashes`, `MaxMoves`,
`MaxParses`, `left`), or the `Limit` of memory itself, never state constraints.

Deadlock is checked except where the system does end: an LBS whose process ran out of memory, a value heap after a crash,
`pool_release_all`, whose finding is a thread asleep forever, a lexer at the end of a text in a loop that does not look for it, and a
parser that has crashed or used up its parses.

Fairness. `RWLock!Fairness` says that a thread that can take the mutex does (`Lock`), that an unlocker sends its signal
(`SendSignal`), and that a holder leaves (`UnLock` or `WaitLock`); weak fairness for each thread, which a scheduler and a fair mutex
justify. Nobody is obliged to call, to signal a caller's condition, or to wake spuriously. That holders leave is not left as a belief:
`LockHeldInside` says of the lock's user in the library, the pools, that the lock is held only between two neighbouring steps of a call. Under it
`SomeoneEnters` holds. That each thread enters does not hold (readers starve behind writers) and is not claimed. `Pool!FairSpec` lets a
thread inside a call run on. `Lex` and `RecParser` are sequential: `WF_vars(Reading)` and `WF_vars(Parsing)` say only that a call in
progress runs on. Texts are finite there by construction, so `LexReturns` and `CallsReturn` are about loops that meet the end; the loops that do
not look for it are named in the property.

## 4. Findings

The runs that end in a violation, with the texts they disagree with, are quoted in `PROJECT.json`:

1. `ReleaseAllPool` deadlocks as soon as one named pool exists (`pool_release_all`).
2. A conversion that fills its reservation puts its terminator behind the buffer, and is no "buffer size error" (`lbs_conversion`).
3. The duplicate of an array of variable size cannot grow; the next duplication of it dereferences NULL (`value_expand_duplicate`).

What else disagrees with a reader's expectation, but with no text of the repository, is under "Observed" in section 2, and is what the code does in
the models.

## 5. What is proved

`RWLockProofs`, from the one assumption that the set of threads is finite: `TypeCorrect`, `CountersAlwaysExact`, `MutualExclusion`, `NoWakeupIsLost`, the
invariants of the run for any number of threads; `WaitLockKeepsMode`, the action property; and `Refinement`: every step of the lock is a step of the
abstract lock or a stutter. None of the invariants is inductive by itself. `IInv` joins types, `CountersExact`, `Exclusion` and
`NoLostWakeup`: the guards read counters, so exclusion needs `CountersExact` to turn counters into threads, and `CountersExact`
needs exclusion to know that the thread that leaves with `rwlock = -1` is the only one inside. Counting steps rest on lemmas
about the cardinality of a crowd that one thread joins or leaves. `NoLostWakeup` survives an unlock because a signal is pending, a signal because
it wakes a sleeper or there is none, and the failed look of a woken thread because the lock is then not free or a writer is queued.

`LBSProofs`, from the assumptions on the constants of `LBS` and the hypothesis `Fits`: `TypeCorrect`, `CursorStaysInside`, `NoByteUnwritten`, `IntsComeBack` and
`StreamImplemented`, for every growth unit, limit of memory, set of texts and offsets. `Fits` says that a conversion leaves a byte for its terminator.
Finding 2 is its negation: without it `CursorInside` is false, and the run `lbs_conversion` shows how. That `NUL` and `Top` are two bytes is an assumption
since the refinement needs it: otherwise a trim could not tell an end from a byte. The invariant is soundness of the structure
(types, domain of `body`, `0 <= ptr <= size <= asize`) together with "unless reserved, everything in the used part is
written". Each function has a lemma of the form "takes a sound LBS to a sound LBS", so that functions that call others cite
the lemmas of those they call. For the refinement each function has a second one, which says what it does to the bytes that are shown (`Shows`,
`Emitted`, `Appended`, `Filled`, `Trimmed`), whether or not the buffer grew; a step that runs out of memory is the stream's end.

`PoolProofs`, from `~ReleaseAllNamed` (finding 1) and for both values of `Shared`, any threads, names, pools and areas: `TableAlwaysAgrees`,
`LockIsHeldInside`, `PoolsAreReleasedByOne`. `IInv` joins types, `CallAtPlace` (which call is at which place), `LockHeldInside`, `TableAgrees`, `TakenDown` (while
the table is taken down, or is not there, it has no entry) and `ReleasedByOne`. The table needs the lock to know that nobody else changes it between a
look-up and an entry; it needs `ReleasedByOne` because the pool whose name is taken down must still be the one in the table.

Its second part, from `~Shared` (with it the four are false: two `GetArea`s in one pool lose an area), `~ReleaseAllNamed` and a finite set of areas:
`MakersFindTheirPools`, `FreedMemoryIsLeftAlone`, `FinalizersRunOnce`, `EveryAreaIsHeld`. `AreaInv` stands on `IInv` and joins types, `OwnPools` (who works on a
pool is the client who made it, by the table before the look-up and by the pointer behind it), `NoUseAfterRelease`, `Finals` (an area knows of its finalizer as
long as it is there), `GivenBack` and `GivenOwned` (below) and the lists. The list of a pool cannot be followed in an invariant: `Chained` says instead that there are three functions, the first area of
each pool, the pool of each area and a rank of the areas, such that an area leads to one of its own pool with a smaller rank, one leads to it at most, and
none to it just when it is the first. During a sweep the first area is what the sweeper holds; an area between `GetArea` and `Link` is loose: it leads to the head,
and nothing leads to it. Each of the five writes to a list (allocate, link, unlink, sweep, mark) has a lemma on heaps that gives the new functions. That nothing is
lost follows by the largest rank: the newest area of a pool that its list missed would be led to by a newer one. `ListFrom` itself, a recursive
function, is shown to be closed and to be within every closed set. `AreasHeld` also says that an area a client got stays allocated and on the list of its pool until the client
gives it, or the pool, up (`GivenStays`). `GivenOwned` ties it to the lists: what a client has is linked, and its pool is the one it came from; `GivenBack` says that an area
on its way to `_ReleaseArea` is one no client has any more. A sweep frees only areas of a pool that was given back, and `_ReleaseArea` only the one it was called for. Of constants it is assumed that `Free`, `Unused` and the record of an area are told apart
(`FreeIsNoArea`), which the model means by them.

`LexProofs`, from `LexAssumption`, for any set of files, any lengths and any longest word: `FilesAndTextsHeld` and `PositionKeepsStep`. `IInv` says of what is read and of each
interrupted input that it is in step with its FILE, no two of them with the same one, that the end is pushed back only at the end, and where the loops of `Lex` may be. The position may run
ahead of the end (`GetChar` counts on), so being in step is claimed up to the size only; that needs the place where a push-back takes a character back from behind the end.

`LeastNumber` has the induction that these proofs need: a set of numbers that is not empty has a least element, and a largest if it is finite (`LeastElement`,
`LargestElement`). The library's induction theorems take an operator as a parameter, which the provers here cannot instantiate; a proof that looks at the least counterexample does without.

`ValueTreeProofs`, from `HeapAssumption`, for any finite set of addresses, names, contents and any bounds: `ValuesAreAForest`, `LongNamesLeadBack`,
`ExpansionsKeepNames` and, with addresses for a duplicate, `DuplicatesAreFaithful`. `WellFormed` is not
inductive: that no value is among what it owns says nothing of what a call that joins two trees would do. `TreeInv` says instead that there is a rank
such that every slot of a value (its items, and its prototype as slot 0) leads to a value that is allocated, ranks lower and is in no other slot, and
that a parent has its child in a slot; and that names, members and items of each value belong together (`NodeShape`). The rank takes the place of
following items to their end: when a root is attached to a value that it does not own, all that it does not own can be ranked above it (`RaisedTree`),
and a duplicate takes over the ranks of its original (`DuplicateTree`). The recursive functions of the model are dealt with once: `Reached` gives the
least closed set (`ClosingCloses`, by the largest set for which it did not), `Duplicates` the values of a sequence of single duplicates
(`DuplicatesMultiply`, by the least number for which it did not), and `Duplicate` finds an address for each value below, as the k-th free address
exists if there are more than k (`RanksCover`). From there each call has a lemma "takes a well-made heap to a well-made heap" (`NewTree`, `FreedTree`,
`RecordTree`, `ArrayTree`, `DefineTree`, `ExpandTree`, `DuplicateMade`, `RewrittenTree`).

The other three follow from `TreeInv` in every state, without an invariant of their own but one. A duplicate is faithful if the allocations inside it succeed:
`DuplicatesAreFaithful` assumes `2 * MaxHeap <= Cardinality(Addresses)`, which the run meets as well and which stands for memory that does not run out
(where it does, `xmalloc` ends the program), and needs that no more than `MaxHeap` values are ever allocated (`BoundKept`, from what
`DefineFits`, `ExpandFits` and `DuplicateFits` count). For long names, the way down from the top that `LongName` collects (`UpperLinked`) is put beside the
way that `GetItemLongName` takes (`LookUpIs`): by `NameLeads` each part leads from a parent to the child that it was written for, where `NamesFound` says
that the member table of a record has what its names say, and `NamesDistinct` that the first item of a name is the only one. `StepsStay` carries
this from one part to the next. For `ExpansionsKeepNames` the two ways, before and after the array has grown, go side by side
(`NextItemKept`): they are equal until the first may end in NULL. `GetItemLongName` and `Chain`, which `LongName` follows, are recursive functions for this; `IterationExists` says that such a
function on a finite range of numbers exists.

`RecParserProofs`, from `RecParserAssumption`, for any set of tokens and numbers, texts of any length and any number of parses: `WholeAlways`, `AttributesReach`,
`SameAnswers`, and `EndRead`, the action property. A returned tree must have its items and their modifiers, but modifiers are read last, and of a value that is already in
arrays. `IInv` therefore says of every tree that the parser holds that it is whole (`Whole`): nothing in it is NULL, each item that a size counts is there, and has the
modifiers of what it is in. `StackInv` says so of the open records, with their types, and that there is one where the parser relies on it; `ValueInv` of the value
being made, which may instead be missing behind an error, and that its modifiers will include those of its record (`Made` takes them over): without that,
`AddItem` would put an item with fewer into a record with more. `ResultInv` has the returned tree, and that a crash is behind an error and ends the call. A tree keeps being whole
through each of the functions on it (`AttributeWhole`, `ArrayWhole`, `ItemAdded`), and arrays around arrays by `StepsStay` (`ArraysWhole`), the recursion over dimensions being a
recursive function (`ArraysAre`, by `IterationExists`); around a missing value they are whole if the innermost has no items, which is what `NoItems` excludes. `TableInv` says that
the table holds a value only if it is the one that was answered, and that a parse for the table runs only while it holds none: so `Return` cannot replace one. `EndInv` says where the
end may have been read twice (`AtEnd`): each step that meets the end goes there (`EndsIn`), and there only an alias and the parenthesis behind the digits read on (`ReadsAgain`).

`StartupProofs`, from `StartupAssumption`, for any set of threads and list of codecs, without a first thread that is alone: `TypeCorrect`, `MutexSettles` (the action property
`InitialisedForGood`) and `CodecsAreFound`. `IInv` joins types, `CallInv` (a call has come to its place with a hash to make or destroy), `LockInv` (nobody comes to the mutex, or holds a hash, while
`need_init_lock` is set) and `TableInv`. A late first caller has read `need_init_lock` before it was cleared and is at `init` or `clear`: by `LockInv` nobody can come there any more once a hash
has been made, so that an empty `init` stays empty, and with it the mutex stays with who locks it. `TableInv` says that a table in use or looked into is complete unless its maker fills it, for which
it needs that who fills alone fills its own table (`FillsItsOwn`), as long as no two have filled at once (`clash`).

Only model-checked: liveness under fairness (`SomeoneEnters`, `LexReturns`, `CallsReturn`), which is out of this prover's reach, and the conversions and the codecs. Those
compute with digits and bytes: what a fold over a text or a number to the power of its digits gives is an induction over data, which the installed provers cannot
do, and `Codec` and what extends it have `RECURSIVE` operators, where tlapm loses its SMT solver, because their trees are walked by operators that take operators.

## 6. Plan

1. Proofs: the shape of a value through every setter (`Conversions!TypeOK`), for which `Conversions` would have to stand on `TypedValue` instead of `Codec`, with folds written as recursive functions.
2. Aliases and `GL_TYPE_VALUES` in `ValueTree` and the getters; PHP beside JSON; the options of a converter (`NewConvOpt`, `DuplicateConvOpt`); documents of XML without a record name.
3. `LBS_ToWcs` and the conversions of `LBSfunc.c` by character.

## 7. Not modelled

`numeric.c` is PostgreSQL's arithmetic: what this library asks of it is a number. `php.c` only writes. Files, logging,
tools and tests keep no state worth a model. Within modelled components: the tracing allocator and statistics of `memory.c` (`#ifdef TRACE`), the
characters iconv and the normalisations produce, wide strings (`LBS_ToWcs`), hash functions and chunks, aliases, `GL_TYPE_VALUES`, character widths and
the dumps of `value.c`, `cLine` and reserved words of the lexer, the names and sizes of parsed records, codesets other than the program's
own, json-c's text, and of XML the layout, the encoding, documents without a record name and elements that the codec does not write.
