# bbip in TLA+

bbip resolves IPv4 addresses to places. An exporter turns a database table into
one binary data file; a small C library looks addresses up in the mapped file;
a Lua module, a PHP extension and a thrift server use it (the PHP extension by
a copy of its code). This directory holds a specification of that system, the
TLC runs that check it on small instances, and TLAPS proofs of its core.

Paths below are relative to the repository.

## 1. The system

| part | source | state | operations |
|---|---|---|---|
| data file | written by `bbip_export/main.cpp:228-272` | version byte, record count, words of range starts, ends and blob pointers, blobs | written once, then mapped read-only |
| C library | `bbip.c`, `bbip.h` | `bbip_t`: mapping, cursor `ptr`, `nCount`, arrays `index_start/end/ptr` with slot 0 unused | `bbip_init`, `bbip_preload`, `bbip_query`, `bbip_search`, `bbip_getstr`, `rangeToCidrSize` |
| Lua module | `lua/lua_bbip.cpp` | one `bbip_t` per userdata | `new`, `preload`, `count`, `query`, `query_table` |
| PHP extension | `php/sinaip.c` | one `php_sinaip` per resource | `sinaip_init`, `_preload`, `_count`, `_search`, `_close`, destructor |
| thrift server | `thrift/gen-cpp/bbip_server.cpp` | one `bbipHandler` with one `bbip_t`, two function statics | `query`, `query_long`, `query_string`, `GetAreaFlag`, `GetZoneID`, `count`, `ping` |
| thrift stubs | `thrift/gen-cpp/bbip.cpp`, `bbip_types.cpp` | generated: structs with `__isset`, a map of methods, the concurrent client's `sync_` | processor, client, concurrent client |
| exporter | `bbip_export/main.cpp`, `ip_geo_records.sql` | bitmap of taken addresses, list of ranges | connect, query, scan, sort, write |

How they interact: the exporter and the readers share only the file. The
library's caller gets a *key* (a slot of the index) from `bbip_query` and reads
the record's strings itself, with the handle's cursor `ptr` (Lua, PHP, server)
or with one of its own (`bbip_search`). The server runs one thread per
connection (`TThreadedServer`) over a single handle and locks nothing.

What makes the parts correct, and what is hard about them:

* **Lookup.** A slot that holds 0 counts as "not loaded" and is read on demand;
  the binary search works on positions 1..n and looks at slot *position* - 1, so
  it probes slot 0, which is no record, and never slot n. Its correctness
  depends on which slots earlier calls have loaded.
* **Server.** Every load of a missing word and every string goes through the one
  `ps->ptr`. The questions are which damage a race can do (strings), which it
  cannot (index, search), and which stays (slot 0).
* **Zone numbers.** Results are handed over in function statics.
* **Exporter.** Three cursors (address, byte, shift) must stay in step while whole
  bytes are skipped; each row gets what narrower rows have left of it.
* **Publishing.** The file is truncated and overwritten in place under running
  readers: header, blobs, then the index; the exporter may crash on the way, a
  preload may come short. What may a handle remember of that?
* **Remote calls.** A reply belongs to the call with its sequence number: the
  concurrent client's threads hand headers over to each other, the plain client
  does not look at the number. Results are read into an object of the caller.
* **PHP resources.** `sinaip_init` registers the resource first and then tries the
  file; what a failure leaves is destroyed all the same, and may name a stream
  that belongs to another resource by then.

`PROJECT.json` lists every hazard at its line with the properties about it, and
notes what those properties accept or leave out.

## 2. The modules

| module | models | notes |
|---|---|---|
| `BbipFile` | the data file | cells, not bytes (below) |
| `Cidr` | `rangeToCidrSize` | unsigned subtraction modulo 2^W |
| `GeoLookup` | nothing in the code: the abstract lookup service | what one caller is promised |
| `BbipHandle` | one `bbip_t` and one caller: `bbip_init`, `bbip_preload`, `bbip_query`, `bbip_search`, `lua_bbip_query_all` | refines `GeoLookup` |
| `BbipFileFacts` | | lemmas about data files that the proofs below share |
| `BbipHandleProofs` | | theorems about `BbipHandle`, and that it implements `GeoLookup` |
| `BbipPublish` | exporter and reader on one file: `main` from `fopen` to `fclose`, the handle's calls of `bbip.c` or `sinaip.c` | composes with `BbipHandle`, whose lookup steps it takes (INSTANCE) |
| `BbipPublishProofs` | | theorems about the handle on a file that is being written |
| `BbipServer` | the handlers of `bbip_server.cpp` on concurrent threads | one step per load or store of a shared field |
| `BbipServerProofs` | | theorems about the threads of the server |
| `ZoneData` | `_getCountryData`, `_getProvinceData`, the packing in `GetZoneID` | one step per load or store |
| `ZoneDataProofs` | | theorems about the threads on the statics |
| `BbipTypes` | the structs of `bbip.thrift`, their `read` and `write` | operators on fields |
| `BbipRpc` | processor, plain client, concurrent client and one connection | one step per message, per take or release of the read mutex |
| `BbipRpcProofs` | | theorems about the calls over a connection |
| `BbipExport` | `main` of the exporter | one step per iteration of the scan |
| `BbipExportProofs` | | theorems about the scan and the file |
| `SinaIp` | the five functions and the destructor of `sinaip.c`, and what PHP does with the variables | one step per call |
| `SinaIpProofs` | | theorems about the resources |
| `MC...` | | values for TLC |

**BbipFile.** The code computes positions as `BASE_PTR + 4*(j-1)`. With
`BASE_PTR = 5` and the count at byte 1, cell c < 3n+1 is the word at byte 1+4c:
cell 0 is the count, cells 1..n the starts, n+1..2n the ends, 2n+1..3n the
pointers; cell 3n+k stands for the blob of record k. The probe of position 1
reads `BASE_PTR-4`, cell 0: that the count is what lands in slot 0 is a
consequence of the layout, not an assumption. Byte order is left out (`htonl` on
both sides). `IsDataFile` is what the exporter writes; `NarrowestRowWins` of
`BbipExport` shows that it does.

**BbipHandle.** `Probe` is one iteration of the loop of `bbip_query`, `Decide` the
code behind the loop, `ReturnNothing`, `SearchReturn` and `LuaReturn` what the
two callers do with the key; `BbipInitFails` has the three error codes. The
locals `i_s`, `i_e` and `key` are variables of the same name. In the Lua way
the handle's own cursor moves.

**BbipServer.** The server is built without optimisation
(`thrift/gen-cpp/Makefile`), so that each use of a shared field is a memory
access: `ps->ptr = ...` (`Aim`), the read through it with `ps->ptr` loaded again
(`Load`), the store into the slot (`Save`), the two halves of `ps->ptr++` (`GetLen`,
`Bump`) and of `ps->ptr += *len` (`Add`, `GetString`). The accesses are taken as
atomic and in program order. The cursor is a symbolic position: an index
word, the length byte or the data of a string, or *wild*, a byte at which none
of these starts. What is read at a wild position is anything (`WordsAt`, a junk
string, a dead process: `Die`), and a length of one string applied to another one
may or may not fit. Words, lengths and texts thus cover what the bytes could give.
The history variable `alone` says that no other call has overlapped a thread's
last one.

**ZoneData.** The functions are straight-line code but for one test, so a thread
carries the list of stores, tests and copies it has still to do. `ZoneOf` states the
intended result on its own, from the tables. The tables are constants;
their bounds (`TablesAssumption`) are those of the arrays in `bbip_server.cpp:214-301`
(the longest has 23 names). `sizeof(array)/sizeof(void *)` (line 187) is taken to be
the number of names, which holds where a `std::string` is one pointer.

**BbipExport.** `rows` is the result of the query in the order it came; equally wide
rows come in any order. The bitmap is the set of addresses whose bit is set,
addressed through `ip_hash_p` and `h_s_ptr` as in the code (`Address`), so that a
cursor out of step would mark the wrong addresses. `Skips` is the inner `while`,
as the set of the numbers of bytes it may skip (there is one). `myData` is the
connection: a database that cannot be selected leaves a closed handle and no error
(`SelectFails`), and the query on it crashes.
When `h_s` passes the last address the unsigned variable wraps and the scan
leaves the bitmap: that is the end of the modelled behaviour (`pc = "overrun"`).
The strings of a row are one value (`data`), the blob's layout is left out.

**BbipPublish.** The exporter's output is a sequence of cells in the order of its
`fwrite` calls (`Position`), and the disk has the first halves of it (`flushed`), so
that stdio may cut the file anywhere and a word may be there by half (`Torn`). Cells
that are not there read as 0 in the hole behind the header and are missing behind
the end. `view` is the file as the mapping shows it at each step, and the reader's lookup is
`BbipHandle`'s, instantiated on it. A touch behind the mapping or the file may kill the
process (`Killed`); a string taken from where none starts may lead anywhere (`Astray`).
A preload is one step per `fread` and one for the conversion, because a short
read leaves words in the byte order of the file (`raw`); there `bbip_preload` returns
and `sinaip_preload` goes on and converts what was not read.

**BbipTypes, BbipRpc.** The generated functions repeat a few patterns for each struct and
method. The patterns are operators, and what a struct or a method puts into them is
data: `Always`, `Optional` and `Struct` fields; the fields a `recv_` function tests. A message
is a record; a message on the wire maps field numbers to typed values. `Process` is
`process_*`, `dispatchCall` the server thread with one connection. `Called`, `Send` and `PlainRecv` are
the plain client, with calls one after the other; `ConcurrentCall` to `Woken` the
concurrent one: `Lock` takes the read mutex, `GetPending`, `ReadHeader`, `RecvOwn` and `HandOver` are the
loop of `recv_*`, `Leave` is the destructor of the sentry, committed or not. The thrift
library (`TConcurrentClientSyncInfo`, protocol, transport) is external and modelled
from its use. Every message to a client is a reply or an exception, and every reply is sent with a result: the
concurrent client's branches for others (`bbip.cpp:2387-2391`, 2416) are not reached. A server that looks `Ahead` in its queue stands for one that answers out
of order, which the concurrent client is made for. A `plain` client whose call timed out may call
again, its reply still under way (`late`).

**SinaIp.** A resource is its stream, whether arrays and mapping are there, and its
references; `stream` says which addresses of streams are open, so that `fopen` may
give an address out again that a failed `sinaip_init` has closed and kept. PHP's part
(counting references, dropping variables, emptying the list of resources from its
end) is external. `mmap` is taken to succeed, as the code does. A destructor dies in
`fclose(NULL)`, and may die of a stream that is closed twice; the uninitialised
mapping of a half-built resource is part of that.

## 3. The runs

| run | instance | shows |
|---|---|---|
| `handle_small` | every file of 0 to 3 records over 7 addresses; any lookups and preloads | `TypeOK`, `IndexCache` (a slot is empty or right), `SearchWindow` (the search never loses the record), `AnswerSound`, `FindsCovered` (answers), `BlockFitsRange` (prefix length), `CacheOnlyGrows`, `EveryQueryReturns`, `ImplementsGeoLookup` |
| `server` | 2 threads, 2 strings, `query` and `GetAreaFlag`, on three files: a search that loads slot 0 beside one that does not, one that finds its record behind slot 0, and one whose slots hold 0 for good | `TypeOK`, `IndexIntact`, `LookupRight`, `AloneRight`: what races cannot do; `CallsReturn` |
| `zones` | 2 threads on the statics, a Chinese and a Canadian record | `AloneRight`, `NothingOfThePast`, `IdDecodes`, `TypeOK` (bit widths) |
| `rpc` | 3 threads, 3 calls of the seven methods and one of another service, 2 messages looked ahead, a connection that may break | `OwnAnswer` (a result is that of the call, unless a plain call gave up before), `PendingIsNext` (the header left over is that of the next message), `KeepsOnlyOptional` (what an object keeps of earlier calls), `CallsEnd` |
| `export_small` | every table of up to 3 ranges below address 9, 3 addresses to a byte, 4 bytes; no server, no database, a failed query | `CursorInStep`, `BitmapExact`, `RangesDisjoint`, `NeverEnlarged`, `NarrowestRowWins`, `NoDatabaseNoFile`, `ExportEnds` |
| `publish` | two records written over two others, or where no file was; C and PHP readers | `CacheHeals` (what a slot may hold), `RightAfterwards` (a handle opened too early is right once the file is done), `RawOnlyOld` (unconverted words), `WholeIsSafe` (no access behind the mapping) |
| `sinaip` | 2 variables, 3 addresses of streams, 3 calls of `sinaip_init` | `HeldIsUsable`, `StreamIsOwn`, `EndsClean` |

Runs that TLC must refute, each a claim of the repository's text:

| run | claim | what happens |
|---|---|---|
| `last_record` | "ip library have no data for this IP" only when it has none (`bbip_server.cpp:390`) | even with a preloaded index, an address behind the first one of the last record is never found: slot n is only a neighbour (`bbip.c:95`) |
| `cidr` | "convert an ip Range to CIDRSize" (`bbip.c:194`) | a range that is a block of two addresses gets 32, one of 256 addresses 25: to-from, one less than the size, is compared with powers of two (`bbip.c:213`) |
| `strings` | the server resolves addresses (`README.md:3`) | overlapping calls exchange strings |
| `lost` | as `last_record`, for a call that no other overlaps | a race for slot 0 leaves a word of some string there for good; a record then disappears |
| `last_address` | `end` is any unsigned int (`ip_geo_records.sql:19`) | with 2^32-1 the scan of a row does not end |

More deviations are exceptions written into the properties:

* The first record is hidden from addresses not above the record count when the
  search passes slot 0, and without a preload the record before the last one is
  found by its first address only, since `index_start[i_e]` is tested but not loaded
  (`bbip.c:95`), although `README.md:57` says of `bbip_preload` only that it increases
  performance (`Reachable`, used by `FindsCovered`).
* An answer for a range's first address has end 0 when that slot was never loaded
  (`AnswerSound`, `KeyFits`); `BlockFitsRange` and `CidrSizeOfRange` do not look at its prefix length.
* Overlapping calls of `GetZoneID` may exchange fields (`NothingOfThePast`).
* A plain client whose call failed may take that call's reply for the next one's (`late`
  in `OwnAnswer`), and an object that is used again keeps `lat` and `lng` of an earlier
  answer that had them (`KeepsOnlyOptional`).
* A half-written word that a reader caches stays in its handle (`Torn` in `CacheHeals`;
  `RightAfterwards` is about the other handles). A handle of the old file gets words of
  both files, and after a short preload unconverted ones.
* What a race caches in a slot whose word in the file is 0 (`IndexIntact`), and what a call
  with an argument of 2^32 or more should get (`Call` truncates it, `bbip_server.cpp:386`), is not
  judged. A later call that runs alone gets its own record's strings (`AloneRight`), but what a race has
  left in slot 0 may keep it from finding the record (`lost`).
* The exporter may crash on the query behind a database that could not be selected, and
  an export whose query failed replaces the file by an empty one (`ExportEnds`).
* After a failed `sinaip_init` the end of a request is undefined (`EndsClean`), and only then.

**Bounds.** Three records are the smallest file with a record that is neither the
first nor the last nor the one before it, with searches of two levels in both
directions; the proofs cover every size. Two threads suffice for every pair of
accesses; three strings are those GetZoneID uses (the two it skips are left out).
Two threads may make any number of calls. For the exporter 3 rows give all
nestings, overlaps and neighbourhoods, ranges of up to 9 addresses skip
two whole bytes. `MaxIP`, `W` and `B` stand for 2^32-1, 32 and 8. In
`strings` and `lost` all threads are alike and the invariant names none, so the
states are reduced by symmetry; `server` checks liveness too and has no symmetry.
Its calls take a load of a slot, a cursor in the middle of a string and the answer of
the other call through every interleaving. Records that start at address 0 are in a
file of their own whose lookups find nothing: with strings to read it would have
millions of states and no further kind of load.
Deadlock is not checked: callers may stop calling, the exporter exits, a failed
`bbip_init` is final, and a script ends.

`BbipPublish`: two records give a word behind and before every other one, and a search of
two levels; the new file has as many records as the old one (with another number a handle
of the old file goes by the old count). One run of the exporter is followed. Lookups
that use unconverted words are not (`Query`): they are as wrong as any word can be. A write that
fails is not modelled. `BbipRpc`: with three threads the one that reads can wake the wrong
one and a third can wait; three calls are one each, or one thread's second with the
object of the first. `SinaIp`: two variables share or do not share a resource; three
calls make one whole resource behind a failed one that kept its stream's address, and
one that replaces it.

**Fairness.** `BbipHandle`: weak fairness of `Lookup`, straight-line code of the
caller, and none of new calls. `BbipServer`: weak fairness of each thread's `Step`;
the kernel schedules runnable threads and nothing blocks. `BbipExport`: weak
fairness of its only process. `BbipRpc`: weak fairness of each client thread's steps, the failures
among them once the connection is broken, and of the server thread's; no fairness of `Break`,
of timeouts or of new calls. `CallsEnd` thus says that the handing over of headers loses no wake-up. `ZoneData`, `BbipPublish` and `SinaIp` make
no liveness claim: a reader need not look anything up, an exporter may stop.

Every property of a passing run has a mutant of the code's model (a definition
marked *Mutant* in the module) under which TLC finds it violated.

## 4. The proofs

`BbipHandleProofs` proves, for every `MaxIP`, `W`, set of payloads and set of data
files that satisfy the named assumptions (`MaxIPAssumption`, `WAssumption`,
`FilesAssumption`, `WidthAssumption`, `NullAssumption`, and for the prefix length `PowersAssumption`,
what the provers are told of powers of two: `2^0` is 1 and `2^(m+1)` is twice `2^m`):

| theorem | property |
|---|---|
| `TypeCorrect` | `TypeOK` |
| `CachesMatchFile` | `IndexCache` |
| `WindowCorrect` | `SearchWindow` |
| `KeyCorrect` | `KeyFits` (what `bbip_query` hands over, before a caller uses it) |
| `AnswersSound` | `AnswerSound` |
| `ReachableFound` | `FindsCovered` |
| `SlotsAreStable` | `CacheOnlyGrows` |
| `PrefixFitsRange` | `BlockFitsRange` |

The inductive invariant `IInv` is the conjunction of the first six. None of the answers'
properties is inductive alone: that an answer is right needs the key to be
right, and that the key is right needs two facts when the loop ends: where the
window has closed (`SearchWindow`), and that cached words are the file's
(`IndexCache`). The odd case is position 1, where slot 0 holds 0 or the record
count and the order of the slots is broken: `SearchWindow` therefore claims
nothing about record 1 when `i_e` is 0, but that the address is below the
count; `Reachable` leaves out exactly those addresses. `Words` says what is
read at each cell, `StartsAscend` that the starts of a data file grow (both in `BbipFileFacts`); `Facts`
collects what each action's lemma needs; there is one lemma per action, and `NextInv`
puts them together. For the prefix length `FirstWide` shows that the chain of tests has a first one that
holds, and `CidrOfWidth` between which powers the width then is. Induction over the tests is not
needed: `Largest` (`BbipFileFacts`), that a bounded set of numbers has a largest one, stands in for it
here and in the proofs about the exporter.

`BbipHandleProofs` proves `HandleImplementsGeoLookup` too: with the refinement mapping of
`BbipHandle` (`Database`, `Committed`, `Phase`, `Reply`) the initial states map to initial states and every
step to a step of `GeoLookup` or to none; `Committed` grows with a preload only, and
`CommittedIsReachable` ties what the specification promises to what `FindsCovered` gives.

`BbipServerProofs` proves, for every number of threads, address width and set of data files
(`MaxIPAssumption`, `FilesAssumption`, `RequestsAssumption`, and for the strings `FieldsAssumption` and
`NamesAssumption`: a record has the strings that a handler picks out by name), what the races on the shared
cursor cannot do:

| theorem | property |
|---|---|
| `IndexStaysIntact` | `IndexIntact` |
| `LookupsAreRight` | `LookupRight` |
| `TypeCorrect` | `TypeOK` |
| `AloneIsRight` | `AloneRight` |

The invariant of the index and the search, `IInv`, has two parts. `Shared` is about the index: it is intact, and the cursor, when it is at a
word, is inside the file. `InHandler` is about one thread, and speaks of the file and of the thread's own
locals only, so that no step of another thread disturbs it (`MovesInv`): that is the argument for the
interleavings. It holds because of `Miss`: a thread loads a slot only if it is slot 0 or if the slot's
word in the file is 0, so that what a moved cursor makes it store lands in no slot that matters
(`SaveInv`). What is in slot 0 is then anything at all, and the search is still right: `SlotZero` says
that it is compared only when no record between the first and the last covers the address.

The strings do depend on the cursor. `SInv` adds to `IInv` where the cursor and its copies may be
(`InFile`, `Kept`), and of a call that no other has overlapped (`alone`) that nobody else is in a call
(`Solitary`) and that the cursor, or its copy, is at the next string of its record (`Ours`); `Solitary` is
what makes `Ours` survive the others' steps, because the cursor moves in calls only (`OneSteps`). The steps of
the search do not touch any of it but by leaving the cursor in the file (`PlainInv`).

`BbipExportProofs` proves, for every table the query may return, every last address and every number of
addresses to a byte that divides the address space (`BAssumption`, `TablesAssumption`, `MaxIPAssumption`):

| theorem | property |
|---|---|
| `TypeCorrect` | `TypeOK` |
| `CursorCorrect` | `CursorInStep` |
| `BitmapCorrect` | `BitmapExact` |
| `RangesAreDisjoint` | `RangesDisjoint` |
| `FileGivesNarrowest` | `NarrowestRowWins` |
| `ListIsLargeEnough` | `NeverEnlarged` |
| `NoDatabaseLeavesTheFile` | `NoDatabaseNoFile` |

The invariant `IInv` of the scan adds to them that a stretch is open exactly when the address before was
free (`Scanning`) and that all that was found, and what is open, are marked addresses and
share none (`Found`); disjointness follows, since only unmarked addresses are ever
added to the open stretch. `BytesBehind` says that the bytes a skip jumps over are the
addresses behind the scanned one, `ScanStep` what one iteration does, and `ScanInv` that the
invariant survives it.

For the file, `Owned` says that every range has an owner, a row whose strings it has and which was the first to
have its addresses, and that every taken address is in a range. `qsort` is any order that `Compare` allows
(`Sorted`); ranges that are disjoint make a data file in each of them (`OutputIsDataFile`), and an owner is then
the first row that has the address (`OwnerIsFirst`). For the length of the list, `Count` weighs ranges against holes: the ranges
found, the open stretch and the *ends* of the blocks of taken addresses (`NEnds`) are together at most two per
scanned row. A range that is found at a taken address closes a hole, which takes an end away; `EndsAfter` says
what marking a stretch does to the ends. The ranges alone have no such bound that is inductive.

`SinaIpProofs` proves, for every number of variables, streams and calls (`HoldersAssumption`,
`StreamsAssumption`, `MaxInitsAssumption`):

| theorem | property |
|---|---|
| `TypeCorrect` | `TypeOK` |
| `HeldUsable` | `HeldIsUsable` |
| `StreamsOwn` | `StreamIsOwn` |
| `RequestEndsClean` | `EndsClean` |

Two facts carry it. `Counted`: the references of a whole resource that was not closed
are the variables that have its number, a half-built one is in no variable. `Life`: a
resource is destroyed once, the open streams are those of the whole resources in the list,
and whatever is registered behind a resource in the list has another stream's
address; so a half-built resource that shares an address stands before its owner, and
the list, emptied from its end, comes to it when the owner is gone.

`ZoneDataProofs` proves, for every number of threads, every set of records and all tables
whose numbers and indices fit the fields (`TablesAssumption`, which the arrays in
`bbip_server.cpp:214-301` meet):

| theorem | property |
|---|---|
| `TypeCorrect` | `TypeOK` |
| `AloneIsRight` | `AloneRight` |
| `NothingStale` | `NothingOfThePast` |
| `IdsDecode` | `IdDecodes` |

A thread carries the code it has still to run, so what is known of a field is said of that code
(`CodeOf`: what it stores is of its own record). `Alone`, for a thread that has met nobody: its code
leads each field to the value of the record (`Leads`: the last store before the last copy delivers it,
or the struct, or the copy, has it already). `Past`, for every thread: the copy of a field will come
from a store that its code has still to do, or else the struct, or the copy, holds what one of the overlapping
calls may put there. A call begins with code that renews every field (`Renews`), so that nothing
of an earlier call can come through; that is where the order of stores and copies is needed. `Overlap`:
calls under way know of each other, which keeps `Past` when one of them stores. The lemmas before
the steps say what taking the first instruction off a list, or putting two lists together, does to
these predicates. `IdsDecode` is arithmetic on six fields within their widths, and follows from
`TypeOK`.

`BbipRpcProofs` proves, for every number of threads and calls, every handler, and a server that answers
in any order (`ProgramsAssumption`, `MaxCallsAssumption`, `ThreadsAssumption`, `CallsAssumption`,
`HandlerAssumption`: a handler gives what `bbip.thrift` declares, and a record's `__isset` has bits for
`lat` and `lng` only):

| theorem | property |
|---|---|
| `TypeCorrect` | `TypeOK` |
| `PendingStays` | `PendingIsNext` |
| `AnswersAreOwn` | `OwnAnswer` |
| `OnlyOptionalKept` | `KeepsOnlyOptional` |

There are two invariants. `IInv` is about the threads: the read mutex belongs to the one
that reads (`Reading`), the calls of a concurrent client have different numbers and each number that is
waited for belongs to a call (`Numbers`), whatever is under way with the number of a call is
that call's request or the answer to it (`Underway`), and a header left as pending is
the next message's, with its thread on the way (`PendingNext`). `Goes` collects what a step of a thread
does to all of these, so that a step's lemma has to show `Goes` and `PendingNext` only. `AInv` adds what is
needed for the answers: no two messages under way have the same number (`Apart`); while somebody
listens, each message's number is waited for (`Expected`), so that no reader comes upon a header that is nobody's;
and before a plain client has given up on a call, the connection carries no more than the message
of the call that waits (`PlainWire`). The other half of the argument is about data: `ArgumentsArrive`,
`ReturnArrives` and `ThrowArrives` follow a call's argument, value and exception through `write` and `read` of the
generated structs, method by method (`MethodFacts` shows that the processor's and both
clients' tables agree), and `RecordTrip` what the caller's object holds afterwards.

`BbipPublishProofs` proves, for files of any size and address width, any old files with as many records, and
any place where stdio may cut the output (`PublishAssumption`, `MaxIPAssumption`, `WAssumption`,
`PowersAssumption`):

| theorem | property |
|---|---|
| `TypeCorrect` | `TypeOK` |
| `CachesHeal` | `CacheHeals` |
| `LookupsRightAfterwards` | `RightAfterwards` |
| `RawIsOfTheOld` | `RawOnlyOld` |
| `WholeSafe` | `WholeIsSafe` |

The invariant `IInv` has five parts. `Common` is the types and what the exporter's progress implies
(`LengthFacts`: the file has no words, the header, or everything from the blobs on, behind the hole).
`Cached` says that a slot is empty, final or torn, and that the arrays fill in the order of the writes in a
`fread`, so that a filled last slot means that those before it are final (`Held`). `Unread` says that in a handle of
the new file exactly the words that a running preload has read so far are in the byte order of the file: a `fread`
of such a file finds all of its words or none (`ReadsAllOrNone`), and the conversion leaves none. `WholeIsSafe` is inductive with these. `Right` is about a lookup that began when the
exporter was done: it satisfies the inductive invariant of `BbipHandle`, with `file` the view of the disk and
`preloaded` that the index is full (`Full`). The step lemmas of `BbipHandleProofs` are therefore taken over by INSTANCE
and not proved again, `HandleAssumptions` showing that its assumptions hold here; what is left to show is
that a step of the lookup is one of theirs (`StepIsHandles`), which needs that no lookup completes the index:
the last slot is filled by a preload only (`Completes`).

Only model-checked: liveness (`EveryQueryReturns`, the promise of `GeoLookup` that a question is answered,
`CallsReturn`, `CallsEnd`, `ExportEnds`), since fairness is out of TLAPS's reach, and the runs that find a
disagreement.

## 5. Not modelled, and what is left

Not modelled: `bbipNull`, `bbipMultiface`, `swap` and `printTo` of the generated code, which only forward
or print; the PHP client stub, which repeats the plain client; the server's option
parsing and start; argument checks and the life of a userdata in the Lua module; the
conversion of strings to addresses and of coordinates to doubles (`atof_length`); out
of memory; build files and demo programs. `ping` and `count` of the server touch no state that changes.

Left, in this order:

1. `Pipeline`: table -> `BbipExport` -> file -> `BbipHandle`, with the abstract specification "an
   address gets the data of its narrowest row". `NarrowestRowWins` ends where `IsDataFile`
   starts, so the two halves meet in that predicate already.
2. A write of the exporter that fails, and the publication of a file with another number
   of records.
