----------------------------- MODULE BbipPublish ----------------------------
(***************************************************************************)
(* bbip_export writes the data file in place while a process reads it with *)
(* bbip.c or with the PHP extension.  fopen(.., "wb") cuts the file off;   *)
(* the header is followed by the blobs, behind a hole of 3n words that     *)
(* reads as zeros, and at last by the index.  Nothing is renamed, and the  *)
(* exporter may crash at any point.                                        *)
(*                                                                         *)
(* Stdio hands the bytes over in pieces of its own, in the order of the    *)
(* calls: the disk has the first flushed halves of the cells.  The header  *)
(* is in one piece.  The lookup is that of BbipHandle on what the mapping  *)
(* shows at each of its steps.                                             *)
(***************************************************************************)
EXTENDS BbipFile, Cidr, FiniteSets

CONSTANTS New,        \* the file the exporter writes
          Olds,       \* the files it may replace, with as many records
          HadFile,    \* whether there was one: a set of BOOLEANs
          Readers,    \* which code reads: "bbip" (C, Lua), "sinaip" (PHP)
          Addresses   \* the addresses that are looked up

ASSUME PublishAssumption ==
    /\ IsDataFile(New) /\ New.n > 0
    /\ \A f \in Olds : IsDataFile(f) /\ f.n = New.n
    /\ HadFile \subseteq BOOLEAN
    /\ Readers \subseteq {"bbip", "sinaip"}
    /\ Addresses \subseteq Addr
    /\ MaxIP < 2^W /\ "NULL" \notin Payloads  \* as BbipHandle assumes

VARIABLES
    old, had, reader,  \* the file before, whether there is one, who reads
    exporter,          \* "waiting", "writing", "stopped" or "done"
    flushed,           \* how many halves of cells are on disk
    opened,            \* what the handle was opened on: "no", "old", "new"
    mapped,            \* how many cells its mapping has
    whole,             \* all blobs were on disk then
    late,              \* the lookup began when the file was done
    raw,               \* slots whose word is in the byte order of the file
    index_start, index_end, index_ptr, ptr, pc, bbip_errno,
    ip, i_s, i_e, key, answer  \* those of BbipHandle

disk == <<old, had, reader, exporter, flushed>>
history == <<opened, mapped, whole, late>>
index == <<index_start, index_end, index_ptr>>
search == <<ip, i_s, i_e, key>>
vars == <<disk, history, raw, index, ptr, pc, bbip_errno, search, answer>>

n == New.n
Size == 4 * n + 1

\* Mutant: the index is written first.
PositionIndexFirst(c) == c + 1

\* The place of a cell in the order of the writes: the header, the blobs, the
\* three arrays.
Position(c) ==
    IF c = 0 THEN 1
    ELSE IF c > 3 * n THEN c - 3 * n + 1
    ELSE n + 1 + c

\* How much of a cell is on disk.
Whole(c) == 2 * Position(c) <= flushed
Half(c) == 2 * Position(c) - 1 = flushed

\* The length of the new file, in cells.
Length ==
    LET there == {c \in 0..(Size - 1) : Whole(c)}
    IN  IF there = {} THEN 0 ELSE 1 + CHOOSE c \in there : \A d \in there : d <= c

\* A word of which only the first bytes are there.
Torn(v) == v - (v % 2)

\* Mutant: the file is not cut off, what is not yet written is as before.
UnwrittenIsOld(c) == Word(old, c)

\* A word behind the writes: cut off, or in the hole before the blobs.
Unwritten(c) == 0

WordNow(c) ==
    IF Whole(c) THEN Word(New, c)
    ELSE IF Half(c) THEN Torn(Word(New, c))
    ELSE Unwritten(c)

\* The file as its readers see it.
view ==
    IF exporter = "waiting" THEN old
    ELSE [n |-> n,
          start |-> [k \in 1..n |-> WordNow(StartCell(New, k))],
          end |-> [k \in 1..n |-> WordNow(EndCell(New, k))],
          ptr |-> [k \in 1..n |-> WordNow(PtrCell(New, k))],
          data |-> [k \in 1..n |-> IF Whole(BlobCell(New, k)) THEN New.data[k]
                                   ELSE Garbage]]

LengthNow == IF exporter = "waiting" THEN Size ELSE Length

\* What fopen and the read of the record count give.
stream ==
    IF exporter = "waiting" /\ ~had THEN "null"
    ELSE IF LengthNow = 0 THEN "short" ELSE "data"

\* Preloads are steps of this module: BbipHandle's flag is never set.
preloading == exporter = "preloading"

H == INSTANCE BbipHandle WITH
    Files <- Olds \cup {New}, fp <- stream, file <- view, preloaded <- preloading

Init ==
    /\ old \in Olds /\ had \in HadFile /\ reader \in Readers
    /\ exporter = "waiting" /\ flushed = 0
    /\ opened = "no" /\ mapped = 0 /\ whole = FALSE /\ late = FALSE
    /\ raw = {}
    /\ index_start = <<>> /\ index_end = <<>> /\ index_ptr = <<>>
    /\ ptr = 0 /\ pc = "new" /\ bbip_errno = 0
    /\ ip = 0 /\ i_s = 0 /\ i_e = 0 /\ key = 0
    /\ answer = H!NoAnswer
-----------------------------------------------------------------------------
\* The exporter.

handle == <<history, raw, index, ptr, pc, bbip_errno, search, answer>>

Truncate ==
    /\ exporter = "waiting"
    /\ exporter' = "writing"
    /\ UNCHANGED <<old, had, reader, flushed, handle>>

Flush ==
    /\ exporter = "writing"
    /\ flushed < 2 * Size
    /\ flushed' = IF flushed = 0 THEN 2 ELSE flushed + 1
    /\ UNCHANGED <<old, had, reader, exporter, handle>>

\* A crash.
Stop ==
    /\ exporter = "writing"
    /\ exporter' = "stopped"
    /\ UNCHANGED <<old, had, reader, flushed, handle>>

Finish ==
    /\ exporter = "writing"
    /\ flushed = 2 * Size
    /\ exporter' = "done"
    /\ UNCHANGED <<old, had, reader, flushed, handle>>
-----------------------------------------------------------------------------
\* The reader.

\* Mutants: the size is taken before the seek to the end, or one too large.
MappedHeader == 1
MappedBehind == LengthNow + 1

\* bbip_init, sinaip_init: fseek to the end, ftell, mmap.
Mapped == LengthNow

Open ==
    /\ UNCHANGED <<disk, raw, late>>
    /\ H!BbipInit
    /\ opened' = IF exporter = "waiting" THEN "old" ELSE "new"
    /\ mapped' = Mapped
    /\ whole' = (exporter # "waiting" /\ \A k \in 1..n : Whole(BlobCell(New, k)))

OpenFails ==
    /\ UNCHANGED <<disk, history, raw>>
    /\ H!BbipInitFails

\* Another handle; the one before is left behind.
Reopen ==
    /\ H!Ready \/ pc = "failed"
    /\ pc' = "new" /\ opened' = "no" /\ mapped' = 0 /\ whole' = FALSE /\ late' = FALSE
    /\ raw' = {}
    /\ index_start' = <<>> /\ index_end' = <<>> /\ index_ptr' = <<>>
    /\ ptr' = 0 /\ bbip_errno' = 0
    /\ ip' = 0 /\ i_s' = 0 /\ i_e' = 0 /\ key' = 0
    /\ answer' = H!NoAnswer
    /\ UNCHANGED disk

\* Lookups with words in the wrong byte order are not followed (a bound).
Query(a) ==
    /\ UNCHANGED <<disk, opened, mapped, whole, raw>>
    /\ raw = {}
    /\ H!Query(a)
    /\ late' = (exporter = "done")

\* The cells that the next step of the lookup reads through the mapping.
Touched ==
    CASE pc = "search" /\ i_s <= i_e ->
            LET slot == (i_s + i_e) \div 2 - 1
            IN  {c \in {StartCell(New, slot)} : index_start[slot] = 0}
      [] pc = "search" /\ i_s > i_e /\ i_e > 1 ->
            {c \in {StartCell(New, i_e - 1)} : index_start[i_e - 1] = 0}
              \cup {c \in {EndCell(New, i_e - 1)} : index_end[i_e - 1] = 0}
      [] pc = "keyed" /\ key # 0 ->
            IF index_ptr[key] = 0
            THEN {PtrCell(New, key)} \cup ({Word(view, PtrCell(New, key))} \ {0})
            ELSE {index_ptr[key]}
      [] OTHER -> {}

\* Behind the mapping, or behind the end of the file: no page need be there.
Killed ==
    /\ \E c \in Touched : c >= mapped \/ c >= LengthNow
    /\ pc' = "killed"
    /\ UNCHANGED <<disk, history, raw, index, ptr, bbip_errno, search, answer>>

\* Nine lengths and strings, from where no blob starts, may lead anywhere.
Astray ==
    /\ pc = "keyed" /\ key # 0
    /\ Strings(view, IF index_ptr[key] = 0 THEN Word(view, PtrCell(New, key))
                     ELSE index_ptr[key]) = Garbage
    /\ pc' = "astray"
    /\ UNCHANGED <<disk, history, raw, index, ptr, bbip_errno, search, answer>>

Lookup ==
    /\ UNCHANGED <<disk, history, raw>>
    /\ \/ H!Probe
       \/ H!Decide
       \/ H!ReturnNothing
       \/ reader = "bbip" /\ H!SearchReturn
       \/ reader = "sinaip" /\ H!LuaReturn  \* sinaip_search uses ps->ptr, too

\* The three arrays, by the step of the preload that reads them.
Array(step) ==
    CASE step = "start" -> index_start
      [] step = "end" -> index_end
      [] step = "ptr" -> index_ptr

FirstCell(step) ==
    CASE step = "start" -> StartCell(New, 1)
      [] step = "end" -> EndCell(New, 1)
      [] step = "ptr" -> PtrCell(New, 1)

\* How many words fread finds behind a cell, and what it leaves in the array.
Present(cell) ==
    IF LengthNow < cell THEN 0 ELSE IF LengthNow - cell < n THEN LengthNow - cell ELSE n

AfterRead(step) ==
    [s \in 0..n |-> IF s \in 1..Present(FirstCell(step))
                    THEN Word(view, FirstCell(step) + s - 1) ELSE Array(step)[s]]

\* The words that stand in the file's byte order; 0 is the same in both.
RawAfterRead(step) ==
    {w \in raw : w[1] # step \/ w[2] > Present(FirstCell(step))}
      \cup {<<step, s>> : s \in {s \in 1..Present(FirstCell(step)) : AfterRead(step)[s] # 0}}

PreloadStarts ==
    /\ H!Ready
    /\ pc' = "start"
    /\ UNCHANGED <<disk, history, raw, index, ptr, bbip_errno, search, answer>>

\* One fread.  Behind a short one bbip_preload returns -1, sinaip_preload goes on.
PreloadReads ==
    /\ pc \in {"start", "end", "ptr"}
    /\ index_start' = IF pc = "start" THEN AfterRead(pc) ELSE index_start
    /\ index_end' = IF pc = "end" THEN AfterRead(pc) ELSE index_end
    /\ index_ptr' = IF pc = "ptr" THEN AfterRead(pc) ELSE index_ptr
    /\ raw' = RawAfterRead(pc)
    /\ pc' = IF reader = "bbip" /\ Present(FirstCell(pc)) < n THEN "idle"
             ELSE CASE pc = "start" -> "end" [] pc = "end" -> "ptr" [] pc = "ptr" -> "convert"
    /\ UNCHANGED <<disk, history, ptr, bbip_errno, search, answer>>

\* Every word changes its byte order, the ones that were not read too.
PreloadConverts ==
    /\ pc = "convert"
    /\ raw' = {w \in {"start", "end", "ptr"} \X (1..n) :
                  Array(w[1])[w[2]] # 0 /\ w \notin raw}
    /\ pc' = "idle"
    /\ UNCHANGED <<disk, history, index, ptr, bbip_errno, search, answer>>

Next ==
    \/ Truncate \/ Flush \/ Stop \/ Finish
    \/ Open \/ OpenFails \/ Reopen
    \/ \E a \in Addresses : Query(a)
    \/ Lookup \/ Killed \/ Astray
    \/ PreloadStarts \/ PreloadReads \/ PreloadConverts

Spec == Init /\ [][Next]_vars
-----------------------------------------------------------------------------
HasIndex == opened # "no"

TypeOK ==
    /\ exporter \in {"waiting", "writing", "stopped", "done"}
    /\ flushed \in 0..(2 * Size) /\ mapped \in 0..Size
    /\ opened \in {"no", "old", "new"}
    /\ raw \subseteq {"start", "end", "ptr"} \X (1..n)
    /\ pc \in {"new", "failed", "idle", "search", "keyed", "answered", "killed", "astray",
               "start", "end", "ptr", "convert"}
    /\ HasIndex => \A s \in {"start", "end", "ptr"} : Array(s) \in [0..n -> Nat]
    /\ i_s \in 0..(n + 1) /\ i_e \in 0..n /\ key \in 0..n

\* A handle that was opened on the unfinished file holds, in each slot, nothing
\* or what the finished file has there: a word that it read too early was 0,
\* which counts as not loaded (bbip.c:56).  Only a half-written word stays wrong.
CacheHeals ==
    opened = "new" =>
        \A k \in 1..n :
            /\ index_start[k] \in {0, New.start[k], Torn(New.start[k])}
            /\ index_end[k] \in {0, New.end[k], Torn(New.end[k])}
            /\ index_ptr[k] \in {0, BlobCell(New, k), Torn(BlobCell(New, k))}

\* Every slot of record 1 and up is empty or final; and every one is final.
Settled ==
    \A k \in 1..n : /\ index_start[k] \in {0, New.start[k]}
                    /\ index_end[k] \in {0, New.end[k]}
                    /\ index_ptr[k] \in {0, BlobCell(New, k)}

Full == HasIndex /\ \A k \in 1..n : /\ index_start[k] = New.start[k]
                                    /\ index_end[k] = New.end[k]
                                    /\ index_ptr[k] = BlobCell(New, k)

P == INSTANCE BbipHandle WITH
    Files <- Olds \cup {New}, fp <- stream, file <- view, preloaded <- Full

\* So such a handle is as good as one opened later: once the file is done, its
\* lookups find and answer as BbipHandle's do (bbip_init reads the count, which
\* is written first, and never looks again).
RightAfterwards ==
    opened = "new" /\ late /\ raw = {} /\ Settled =>
        P!KeyFits /\ P!AnswerSound /\ P!FindsCovered

\* Words in the wrong byte order (a short fread, bbip.c:108; a conversion of
\* what was not read, sinaip.c:334) are only ever in a handle of the file that
\* was cut off under it.
RawOnlyOld == raw # {} /\ pc \notin {"start", "end", "ptr", "convert"} => opened = "old"

\* A handle that was opened when all blobs were on disk maps everything its
\* pointers lead to, whatever part of the index was missing.
WholeIsSafe == pc = "killed" => ~whole
=============================================================================
