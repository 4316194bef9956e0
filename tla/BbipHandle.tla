----------------------------- MODULE BbipHandle -----------------------------
(***************************************************************************)
(* One bbip_t handle and one caller: bbip_init, bbip_preload, bbip_query,  *)
(* and the two ways to turn its key into an answer, bbip_search (C) and    *)
(* lua_bbip_query_all (Lua).  The index arrays have n+1 slots; slot 0 is a *)
(* sentinel, slot k caches record k.  A slot that holds 0 is taken as "not *)
(* loaded yet" and is read from the mapped file when it is needed.         *)
(*                                                                         *)
(* Each iteration of the binary search is a step of its own: position p of *)
(* the search, in 1..n, looks at slot p-1.                                 *)
(***************************************************************************)
EXTENDS BbipFile, Cidr

CONSTANT Files  \* the data files the handle may be opened on

ASSUME FilesAssumption == \A f \in Files : IsDataFile(f)
ASSUME WidthAssumption == MaxIP < 2^W
ASSUME NullAssumption == "NULL" \notin Payloads

VARIABLES
    fp,          \* what fopen gave: "null", "short" (no whole header) or "data"
    file,        \* the content of the mapped file
    index_start, index_end, index_ptr,  \* the cached index, slots 0..n
    ptr,         \* the handle's cursor ps->ptr, as a cell
    preloaded,   \* bbip_preload has returned 0
    pc,          \* where the caller is
    bbip_errno,  \* the error bbip_init reported
    ip, i_s, i_e, key,  \* the locals of bbip_query and its result
    answer       \* what the last lookup returned

opened == <<fp, file, bbip_errno>>
index == <<index_start, index_end, index_ptr>>
search == <<ip, i_s, i_e, key>>
vars == <<opened, index, ptr, preloaded, pc, search, answer>>

NoAnswer == [start |-> 0, end |-> 0, cidr |-> 0, data |-> "NULL"]

Slots == 0..file.n

Ready == pc \in {"idle", "answered"}
Opened == pc \notin {"new", "failed"}

Init ==
    /\ fp \in {"null", "short", "data"}
    /\ file \in Files
    /\ index_start = <<>> /\ index_end = <<>> /\ index_ptr = <<>>
    /\ ptr = 0
    /\ preloaded = FALSE
    /\ pc = "new"
    /\ bbip_errno = 0
    /\ ip = 0 /\ i_s = 0 /\ i_e = 0 /\ key = 0
    /\ answer = NoAnswer

\* Mutant: an empty file is not refused.
InitErrorNotEmpty(e) ==
    \/ e = 1 /\ fp = "null"
    \/ e = 2 /\ fp = "short"

\* An error of bbip_init, and the error number it reports.
InitError(e) ==
    \/ e = 1 /\ fp = "null"
    \/ e = 2 /\ fp = "short"
    \/ e = 3 /\ fp = "data" /\ file.n = 0

BbipInitFails ==
    /\ pc = "new"
    /\ \E e \in 1..3 : InitError(e) /\ bbip_errno' = e
    /\ pc' = "failed"
    /\ UNCHANGED <<fp, file, index, ptr, preloaded, search, answer>>

BbipInit ==
    /\ pc = "new"
    /\ \A e \in 1..3 : ~InitError(e)
    /\ index_start' = [s \in Slots |-> 0]
    /\ index_end' = [s \in Slots |-> 0]
    /\ index_ptr' = [s \in Slots |-> 0]
    /\ pc' = "idle"
    /\ UNCHANGED <<opened, ptr, preloaded, search, answer>>

\* Mutant: the words go to slots 0..n-1.
FilledFromSlot0(array, cell) ==
    [s \in Slots |-> IF s = file.n THEN array[s] ELSE Word(file, cell + s + 1)]

\* An array read in bulk behind a cell; slot 0 is not part of it.
Filled(array, cell) ==
    [s \in Slots |-> IF s = 0 THEN array[0] ELSE Word(file, cell + s)]

BbipPreload ==
    /\ Ready
    /\ index_start' = Filled(index_start, StartCell(file, 0))
    /\ index_end' = Filled(index_end, EndCell(file, 0))
    /\ index_ptr' = Filled(index_ptr, PtrCell(file, 0))
    /\ preloaded' = TRUE
    /\ pc' = "idle"
    /\ UNCHANGED <<opened, ptr, search, answer>>

Query(a) ==
    /\ Ready
    /\ ip' = a
    /\ i_s' = 1
    /\ i_e' = file.n
    /\ pc' = "search"
    /\ UNCHANGED <<opened, index, ptr, preloaded, key, answer>>

\* Mutant: the word behind the right one.
LoadedNext(array, s, cell) ==
    IF array[s] = 0 THEN [array EXCEPT ![s] = Word(file, cell + 1)] ELSE array

\* Slot s of a cached array, read from its cell when it holds 0.
Loaded(array, s, cell) ==
    IF array[s] = 0 THEN [array EXCEPT ![s] = Word(file, cell)] ELSE array

\* Mutants: the window's upper end does not move, or moves too far.
HighStays(mid) == mid
HighSkips(mid) == mid - 2

\* The window left of position mid, and right of it.
HighAfter(mid) == mid - 1
LowAfter(mid) == mid + 1

\* One iteration of the loop.  For position 1 the cell is 0, the header.
Probe ==
    /\ pc = "search"
    /\ i_s <= i_e
    /\ LET mid  == (i_s + i_e) \div 2
           slot == mid - 1
       IN  /\ index_start' = Loaded(index_start, slot, StartCell(file, slot))
           /\ ptr' = IF index_start[slot] = 0 THEN StartCell(file, slot) ELSE ptr
           /\ \/ /\ index_start'[slot] = ip
                 /\ key' = slot
                 /\ pc' = "keyed"
                 /\ UNCHANGED <<i_s, i_e>>
              \/ /\ index_start'[slot] > ip
                 /\ i_e' = HighAfter(mid)
                 /\ UNCHANGED <<i_s, key, pc>>
              \/ /\ index_start'[slot] < ip
                 /\ i_s' = LowAfter(mid)
                 /\ UNCHANGED <<i_e, key, pc>>
    /\ UNCHANGED <<opened, index_end, index_ptr, preloaded, ip, answer>>

\* Mutants: no test of the range's end, or one that excludes it.
NoEndTest(a, start, end) == start < a
EndExcluded(a, start, end) == start < a /\ a < end

\* The test of the range; its first address was found by the loop.
InRange(a, start, end) == start < a /\ a <= end

\* After the loop: the range of slot i_e - 1 decides.
Decide ==
    /\ pc = "search"
    /\ i_s > i_e
    /\ LET slot == i_e - 1
           start == IF i_e > 1 THEN Loaded(index_start, slot, StartCell(file, slot))
                    ELSE index_start
           end == IF i_e > 1 THEN Loaded(index_end, slot, EndCell(file, slot))
                  ELSE index_end
       IN  /\ index_start' = start
           /\ index_end' = end
           /\ ptr' = IF i_e > 1 /\ index_end[slot] = 0 THEN EndCell(file, slot)
                     ELSE IF i_e > 1 /\ index_start[slot] = 0 THEN StartCell(file, slot)
                     ELSE ptr
           /\ key' = IF /\ i_e >= 1
                        /\ start[i_e] # 0
                        /\ InRange(ip, start[slot], end[slot])
                     THEN slot ELSE 0
    /\ pc' = "keyed"
    /\ UNCHANGED <<opened, index_ptr, preloaded, ip, i_s, i_e, answer>>

ReturnNothing ==
    /\ pc = "keyed"
    /\ key = 0
    /\ answer' = NoAnswer
    /\ pc' = "answered"
    /\ UNCHANGED <<opened, index, ptr, preloaded, search>>

\* The answer made of slot key, and the blob its pointer leads to.
ReturnRecord ==
    /\ pc = "keyed"
    /\ key # 0
    /\ index_ptr' = Loaded(index_ptr, key, PtrCell(file, key))
    /\ answer' = [start |-> index_start[key], end |-> index_end[key],
                  cidr |-> RangeToCidrSize(index_start[key], index_end[key]),
                  data |-> Strings(file, index_ptr'[key])]
    /\ pc' = "answered"
    /\ UNCHANGED <<opened, index_start, index_end, preloaded, search>>

\* bbip_search walks the strings with a cursor of its own ...
SearchReturn == ReturnRecord /\ UNCHANGED ptr

\* ... lua_bbip_query_all with the handle's, left behind the last string.
LuaReturn == ReturnRecord /\ ptr' = index_ptr'[key] + 1

Lookup == Probe \/ Decide \/ ReturnNothing \/ SearchReturn \/ LuaReturn

Next ==
    \/ BbipInitFails
    \/ BbipInit
    \/ BbipPreload
    \/ \E a \in Addr : Query(a)
    \/ Lookup

\* A lookup is straight-line code of the caller's thread: it goes on running.
Spec == Init /\ [][Next]_vars /\ WF_vars(Lookup)
-----------------------------------------------------------------------------
\* The types of the handle's fields and of the locals of a lookup.
Slot == [Slots -> Nat]

TypeOK ==
    /\ fp \in {"null", "short", "data"}
    /\ IsDataFile(file)
    /\ pc \in {"new", "failed", "idle", "search", "keyed", "answered"}
    /\ Opened => /\ file.n > 0
                 /\ index_start \in Slot /\ index_end \in Slot /\ index_ptr \in Slot
    /\ ptr \in Nat
    /\ preloaded \in BOOLEAN
    /\ bbip_errno \in 0..3
    /\ ip \in Addr /\ i_s \in Nat /\ i_e \in Nat /\ key \in Nat

\* A slot is empty or holds what the file has for its record, and after a
\* preload every slot but the sentinel does.  The sentinel's start is the odd
\* one: a search that reaches position 1 puts the record count there.
IndexCache ==
    /\ preloaded => Opened
    /\ Opened =>
        /\ index_start[0] \in {0, file.n}
        /\ index_end[0] = 0
        /\ \A k \in 1..file.n :
              /\ index_start[k] \in {0, file.start[k]}
              /\ index_end[k] \in {0, file.end[k]}
              /\ index_ptr[k] \in {0, BlobCell(file, k)}
              /\ preloaded => /\ index_start[k] = file.start[k]
                              /\ index_end[k] = file.end[k]
                              /\ index_ptr[k] = BlobCell(file, k)

\* What the binary search has established about the slots outside its window,
\* although the slot of position 1 is out of order.
SearchWindow ==
    pc = "search" =>
        /\ 1 <= i_s /\ i_s <= i_e + 1 /\ i_e <= file.n
        /\ \A k \in 1..(file.n - 1) : k <= i_s - 2 => file.start[k] < ip
        /\ \A k \in 1..(file.n - 1) :
              k >= i_e /\ (i_e = 0 => k >= 2) => file.start[k] > ip
        /\ i_e = 0 => ip < file.n
        /\ i_e < file.n => index_start[i_e] # 0

\* How many addresses the range of record k has.
RangeSize(k) == file.end[k] - file.start[k] + 1

\* A lookup that answers gives the range and the strings of a record that
\* covers the address.  The range's end may be missing (0) only for a query of
\* the first address of a range before any preload.
AnswerSound ==
    pc = "answered" /\ answer # NoAnswer =>
        \E k \in 1..file.n :
            /\ Covers(file, k, ip)
            /\ answer.start = file.start[k]
            /\ answer.data = file.data[k]
            /\ \/ answer.end = file.end[k]
               \/ ~preloaded /\ ip = file.start[k] /\ answer.end = 0

\* The prefix length of an answer (rangeToCidrSize, bbip.c:202) stands for a
\* block of no more addresses than the record's range has, and of at least half
\* as many; of an end that was never loaded (bbip.c:67) it says nothing.
BlockFitsRange ==
    pc = "answered" /\ answer # NoAnswer =>
        \E k \in 1..file.n :
            /\ Covers(file, k, ip)
            /\ answer.start = file.start[k]
            /\ \/ /\ 2^(W - answer.cidr) <= RangeSize(k)
                  /\ RangeSize(k) <= 2 * 2^(W - answer.cidr)
               \/ ~preloaded /\ ip = file.start[k] /\ answer.end # file.end[k]

\* The records a query of address a must not miss: not the last one, not the
\* first one when the record count hides it, and without a preload only the
\* first address of the one before the last.
Reachable(k, a) ==
    /\ k < file.n
    /\ k > 1 \/ a > file.n
    /\ preloaded \/ k < file.n - 1 \/ a = file.start[k]

\* The key that bbip_query returns: a record that covers the address, with its
\* cached range, and the one that must not be missed.
KeyFits ==
    pc = "keyed" =>
        /\ key < file.n
        /\ key # 0 =>
              /\ Covers(file, key, ip)
              /\ index_start[key] = file.start[key]
              /\ \/ index_end[key] = file.end[key]
                 \/ ~preloaded /\ ip = file.start[key] /\ index_end[key] = 0
        /\ \A k \in 1..file.n : Reachable(k, ip) /\ Covers(file, k, ip) => key = k

\* A lookup of an address in a reachable record answers with that record.
FindsCovered ==
    pc = "answered" =>
        \A k \in 1..file.n :
            Reachable(k, ip) /\ Covers(file, k, ip) =>
                answer.start = file.start[k] /\ answer.data = file.data[k]

\* A slot that was loaded keeps its value, whatever lookups and preloads follow.
CacheOnlyGrows ==
    [][Opened => \A s \in Slots :
          /\ index_start[s] # 0 => index_start'[s] = index_start[s]
          /\ index_end[s] # 0 => index_end'[s] = index_end[s]
          /\ index_ptr[s] # 0 => index_ptr'[s] = index_ptr[s]]_vars

\* Every query returns.
EveryQueryReturns == pc = "search" ~> pc = "answered"

\* The handle is the lookup service of GeoLookup over the file's records.
Entry(k) == [start |-> file.start[k], end |-> file.end[k], data |-> file.data[k]]

Database == {Entry(k) : k \in 1..file.n}

Committed == {Entry(k) : k \in {k \in 2..file.n :
                 IF preloaded THEN k < file.n ELSE k < file.n - 1}}

Phase == IF pc \in {"search", "keyed"} THEN "asked" ELSE IF Ready THEN "ready" ELSE pc

Reply == [start |-> answer.start, data |-> answer.data]

Geo == INSTANCE GeoLookup WITH
    Payloads <- Payloads, db <- Database, must <- Committed,
    phase <- Phase, asked <- ip, reply <- Reply

ImplementsGeoLookup == Geo!Spec

-----------------------------------------------------------------------------
\* What the docs say of a lookup.

\* "Resolve IP failed, ip library have no data for this IP."
\* (bbip_server.cpp:390) is the answer only when the file has no data for it,
\* even of a preloaded index and for addresses above the record count, which
\* slot 0 does not disturb.
NoDataOnlyWhenAbsent ==
    preloaded /\ ip > file.n /\ pc = "answered" /\ answer = NoAnswer =>
        \A k \in 1..file.n : ~Covers(file, k, ip)

\* Record k's range is the block of a prefix of m bits.
IsBlock(k, m) == file.start[k] % 2^(W - m) = 0 /\ RangeSize(k) = 2^(W - m)

\* "rangeToCidrSize - convert an ip Range to CIDRSize for edns-client-subnet"
\* (bbip.c:194): a range that is the block of a prefix of m bits gets m, when
\* its end is known.
CidrSizeOfRange ==
    preloaded /\ pc = "answered" /\ answer # NoAnswer =>
        \A k \in 1..file.n, m \in 0..W :
            Covers(file, k, ip) /\ IsBlock(k, m) => answer.cidr = m
=============================================================================
