----------------------------- MODULE BbipServer -----------------------------
(***************************************************************************)
(* The thrift server (bbip_server.cpp): one bbipHandler with one preloaded *)
(* bbip_t, and a thread per connection (TThreadedServer) that runs the     *)
(* handlers query/query_long, GetAreaFlag, GetZoneID and query_string.     *)
(* Nothing is locked.  All threads share the index arrays and the handle's *)
(* cursor ps->ptr, through which a lookup reads a missing index word and a *)
(* handler reads the strings (bbip_getstr).  The server is built without   *)
(* optimisation (Makefile), so every use of a shared field is a load or a  *)
(* store of its own; each is a step here.                                  *)
(*                                                                         *)
(* The cursor is a position <<kind, a, b>>: the index word of a cell, the  *)
(* length byte or the first data byte of string b of record a, or a byte   *)
(* ("wild") at which none of these starts.                                 *)
(***************************************************************************)
EXTENDS BbipFile, Sequences

CONSTANTS Files,    \* the data files the server may have been started with
          Threads,  \* the connection threads
          Fields,   \* the names of a record's strings, in the order of the blob
          Requests  \* the calls clients make: a handler and an address

Ops == {"query", "GetAreaFlag", "GetZoneID", "query_string"}

ASSUME FilesAssumption == \A f \in Files : IsDataFile(f) /\ f.n > 0
ASSUME FieldsAssumption == \A p \in Payloads : DOMAIN p = DOMAIN Fields
ASSUME RequestsAssumption == \A r \in Requests : r[1] \in Ops /\ r[2] \in Nat

IsField(name) == \E j \in DOMAIN Fields : Fields[j] = name

\* A record has the strings that a handler picks out by their names.
Serves(op) ==
    /\ op \in {"GetZoneID", "query_string"} => IsField("isp")
    /\ op = "GetAreaFlag" => IsField("country") /\ IsField("province")

ASSUME NamesAssumption ==
    /\ Fields \in Seq(STRING) /\ Fields # <<>>
    /\ \A r \in Requests : Serves(r[1])

VARIABLES
    file,   \* the mapped file
    index,  \* the arrays index_start, index_end and index_ptr, slots 0..n
    ptr,    \* ps->ptr
    pc,     \* where each thread is
    local,  \* its handler, its arguments and the locals of the calls it makes
    alone,  \* history: no other call has overlapped the thread's last one
    up      \* the process has not died of a read outside the mapping

vars == <<file, index, ptr, pc, local, alone, up>>

Junk == "junk"        \* bytes that are no string of the file
NoRange == <<0, 0>>

WordAt(c)    == <<"word", c, 0>>
LenAt(k, j)  == <<"len", k, j>>
DataAt(k, j) == <<"data", k, j>>
Wild         == <<"wild", 0, 0>>
NoLen        == <<0, 0>>

IsPosition(p) ==
    \/ p[1] = "word" /\ p[2] \in 0..(3 * file.n)
    \/ p[1] \in {"len", "data"} /\ p[2] \in 1..file.n /\ p[3] \in DOMAIN Fields
    \/ p = Wild

\* The position of string j of record k; behind the last one the next blob's
\* length word follows, which no handler means to read.
StringAt(k, j) == IF j \in DOMAIN Fields THEN LenAt(k, j) ELSE Wild

Str(k, j) == file.data[k][j]

\* The values an int read at a position may have.
WordsAt(p) == IF p[1] = "word" THEN {Word(file, p[2])} ELSE Addr

Cell(array, slot) == CASE array = "start" -> StartCell(file, slot)
                       [] array = "end" -> EndCell(file, slot)
                       [] array = "ptr" -> PtrCell(file, slot)

NoMiss == <<"start", 0, "idle">>

\* Locals that are not in use keep these values.
Idle == [op |-> "query", ip |-> 0, i_s |-> 0, i_e |-> 0, key |-> 0,
         miss |-> NoMiss, word |-> 0,
         cur |-> Wild, len |-> NoLen, data |-> Wild, range |-> NoRange, strs |-> <<>>]

\* construct and preload have succeeded before serve() accepts a connection.
Init ==
    /\ file \in Files
    /\ index = [array \in {"start", "end", "ptr"} |->
                  [s \in 0..file.n |-> IF s = 0 THEN 0 ELSE Word(file, Cell(array, s))]]
    /\ ptr = Wild
    /\ pc = [t \in Threads |-> "idle"]
    /\ local = [t \in Threads |-> Idle]
    /\ alone = [t \in Threads |-> TRUE]
    /\ up = TRUE

At(t, label) == up /\ pc[t] = label
Goto(t, label) == pc' = [pc EXCEPT ![t] = label]
InCall(t) == pc[t] \notin {"idle", "done"}

Slot(t) == (local[t].i_s + local[t].i_e) \div 2 - 1
Last(t) == local[t].i_e - 1

\* A call of query_long takes 64 bits and passes 32 on.
Call(t, op, a) ==
    /\ up
    /\ ~InCall(t)
    /\ local' = [local EXCEPT ![t] = [Idle EXCEPT !.op = op, !.ip = a % (MaxIP + 1),
                                                  !.i_s = 1, !.i_e = file.n]]
    /\ Goto(t, "loop")
    /\ alone' = [u \in Threads |->
                   IF u = t THEN \A v \in Threads \ {t} : ~InCall(v)
                   ELSE alone[u] /\ ~InCall(u)]
    /\ UNCHANGED <<file, index, ptr, up>>

\* Mutant: the word is read whatever the slot holds.
MissingAlways(array, slot) == slot > 0 \/ index[array][slot] = 0

\* A slot that holds 0 counts as not loaded.
Missing(array, slot) == index[array][slot] = 0

\* Go on at next, by way of a load when the slot is missing.
Require(t, array, slot, next) ==
    IF Missing(array, slot)
    THEN /\ local' = [local EXCEPT ![t].miss = <<array, slot, next>>]
         /\ Goto(t, "aim")
    ELSE /\ Goto(t, next)
         /\ UNCHANGED local

Loop(t) ==
    /\ At(t, "loop")
    /\ IF local[t].i_s <= local[t].i_e
       THEN Require(t, "start", Slot(t), "equal")
       ELSE /\ Goto(t, IF local[t].i_e > 1 THEN "start" ELSE "decide")
            /\ UNCHANGED local
    /\ UNCHANGED <<file, index, ptr, alone, up>>

\* ps->ptr = BASE_PTR + ...
Aim(t) ==
    /\ At(t, "aim")
    /\ ptr' = WordAt(Cell(local[t].miss[1], local[t].miss[2]))
    /\ Goto(t, "load")
    /\ UNCHANGED <<file, index, local, alone, up>>

\* ... htonl(*(int *)(ps->mmap+ps->ptr)), with ps->ptr loaded again ...
Load(t) ==
    /\ At(t, "load")
    /\ \E v \in WordsAt(ptr) : local' = [local EXCEPT ![t].word = v]
    /\ Goto(t, "save")
    /\ UNCHANGED <<file, index, ptr, alone, up>>

\* ... and the store into the slot.
Save(t) ==
    /\ At(t, "save")
    /\ index' = [index EXCEPT ![local[t].miss[1]][local[t].miss[2]] = local[t].word]
    /\ Goto(t, local[t].miss[3])
    /\ local' = [local EXCEPT ![t].miss = NoMiss, ![t].word = 0]
    /\ UNCHANGED <<file, ptr, alone, up>>

Equal(t) ==
    /\ At(t, "equal")
    /\ IF index["start"][Slot(t)] = local[t].ip
       THEN /\ local' = [local EXCEPT ![t].key = Slot(t), ![t].i_s = 0, ![t].i_e = 0]
            /\ Goto(t, "keyed")
       ELSE /\ Goto(t, "order")
            /\ UNCHANGED local
    /\ UNCHANGED <<file, index, ptr, alone, up>>

\* Mutant: the upper end of the window does not move.
HighStays(slot) == slot + 1

\* The upper end of the window left of the position of a slot.
HighAfter(slot) == slot

Order(t) ==
    /\ At(t, "order")
    /\ IF index["start"][Slot(t)] > local[t].ip
       THEN local' = [local EXCEPT ![t].i_e = HighAfter(Slot(t))]
       ELSE local' = [local EXCEPT ![t].i_s = Slot(t) + 2]
    /\ Goto(t, "loop")
    /\ UNCHANGED <<file, index, ptr, alone, up>>

\* The two loads after the loop, when i_e > 1.
LastStart(t) ==
    /\ At(t, "start")
    /\ Require(t, "start", Last(t), "end")
    /\ UNCHANGED <<file, index, ptr, alone, up>>

LastEnd(t) ==
    /\ At(t, "end")
    /\ Require(t, "end", Last(t), "decide")
    /\ UNCHANGED <<file, index, ptr, alone, up>>

InRange(a, start, end) == start < a /\ a <= end

Decide(t) ==
    /\ At(t, "decide")
    /\ LET e == local[t].i_e
       IN  local' = [local EXCEPT ![t].i_s = 0, ![t].i_e = 0, ![t].key =
              IF /\ e >= 1
                 /\ index["start"][e] # 0
                 /\ InRange(local[t].ip, index["start"][e - 1], index["end"][e - 1])
              THEN e - 1 ELSE 0]
    /\ Goto(t, "keyed")
    /\ UNCHANGED <<file, index, ptr, alone, up>>

\* Key 0: query_long and query_string throw code 2, the others return 0.
Keyed(t) ==
    /\ At(t, "keyed")
    /\ IF local[t].key = 0 THEN Goto(t, "done") /\ UNCHANGED local
       ELSE Require(t, "ptr", local[t].key, "seek")
    /\ UNCHANGED <<file, index, ptr, alone, up>>

\* ps->ptr = ps->index_ptr[key]+4
Seek(t) ==
    /\ At(t, "seek")
    /\ ptr' = LenAt(index["ptr"][local[t].key] - BlobCell(file, 0), 1)
    /\ Goto(t, IF local[t].op = "query" THEN "range" ELSE "len")
    /\ UNCHANGED <<file, index, local, alone, up>>

GetRange(t) ==
    /\ At(t, "range")
    /\ local' = [local EXCEPT ![t].range = <<index["start"][local[t].key],
                                             index["end"][local[t].key]>>]
    /\ Goto(t, "len")
    /\ UNCHANGED <<file, index, ptr, alone, up>>

FieldPos(name) == CHOOSE j \in DOMAIN Fields : Fields[j] = name

\* Mutant: one string too many.
WantedPast(op, strs) == Len(Fields) + 1

\* How many strings a handler reads, given those it has: GetAreaFlag goes on
\* to the province for China only.
Wanted(op, strs) ==
    CASE op = "query" -> Len(Fields)
      [] op \in {"GetZoneID", "query_string"} -> FieldPos("isp")
      [] op = "GetAreaFlag" ->
            FieldPos(IF strs # <<>> /\ strs[1] = "China" THEN "province" ELSE "country")

\* A string has been read: to the next one or to the end of the handler.
Got(t, s) ==
    LET strs == Append(local[t].strs, s)
    IN  /\ local' = [local EXCEPT ![t].strs = strs, ![t].cur = Wild,
                                  ![t].len = NoLen, ![t].data = Wild]
        /\ Goto(t, IF Len(strs) < Wanted(local[t].op, strs) THEN "len" ELSE "done")

\* bbip_getstr: *len = ps->mmap[ps->ptr++], the load of the cursor ...
GetLen(t) ==
    /\ At(t, "len")
    /\ local' = [local EXCEPT ![t].cur = ptr]
    /\ Goto(t, "bump")
    /\ UNCHANGED <<file, index, ptr, alone, up>>

\* ... and its store; a length of 0 ends the call there.
Bump(t) ==
    /\ At(t, "bump")
    /\ LET p == local[t].cur
       IN  IF p[1] = "len"
           THEN IF Str(p[2], p[3]) = ""
                THEN ptr' = StringAt(p[2], p[3] + 1) /\ Got(t, "")
                ELSE /\ ptr' = DataAt(p[2], p[3])
                     /\ local' = [local EXCEPT ![t].len = <<p[2], p[3]>>]
                     /\ Goto(t, "data")
           ELSE /\ ptr' = Wild
                /\ \/ Got(t, "")
                   \/ UNCHANGED local /\ Goto(t, "data")
    /\ UNCHANGED <<file, index, alone, up>>

\* data = ps->mmap+ps->ptr
GetData(t) ==
    /\ At(t, "data")
    /\ local' = [local EXCEPT ![t].data = ptr]
    /\ Goto(t, "add")
    /\ UNCHANGED <<file, index, ptr, alone, up>>

\* ps->ptr += *len, the load ...
Add(t) ==
    /\ At(t, "add")
    /\ local' = [local EXCEPT ![t].cur = ptr]
    /\ Goto(t, "skip")
    /\ UNCHANGED <<file, index, ptr, alone, up>>

\* Mutant: the cursor stays at the string's data.
SkipNot(p, len) == {p}

\* Where the cursor may get to from p by a length: that of the string at p, or
\* of another one, which may or may not be as long.
Skip(p, len) ==
    IF p[1] # "data" THEN {Wild}
    ELSE IF len = <<p[2], p[3]>> THEN {StringAt(p[2], p[3] + 1)}
    ELSE {StringAt(p[2], p[3] + 1), Wild}

\* What len bytes from p may be.
Text(p, len) ==
    IF p[1] # "data" THEN {Junk}
    ELSE IF len = <<p[2], p[3]>> THEN {Str(p[2], p[3])}
    ELSE {Str(p[2], p[3]), Junk}

\* ... and the store; the handler copies the string.
GetString(t) ==
    /\ At(t, "skip")
    /\ ptr' \in Skip(local[t].cur, local[t].len)
    /\ \E s \in Text(local[t].data, local[t].len) : Got(t, s)
    /\ UNCHANGED <<file, index, alone, up>>

\* A read at a wild position may be outside the mapping.
Die(t) ==
    /\ up
    /\ \/ pc[t] = "load" /\ ptr = Wild
       \/ pc[t] = "bump" /\ local[t].cur = Wild
       \/ pc[t] = "skip" /\ local[t].data = Wild
    /\ up' = FALSE
    /\ UNCHANGED <<file, index, ptr, pc, local, alone>>

Lookup(t) == Loop(t) \/ Aim(t) \/ Load(t) \/ Save(t) \/ Equal(t) \/ Order(t)
             \/ LastStart(t) \/ LastEnd(t) \/ Decide(t)

Read(t) == Keyed(t) \/ Seek(t) \/ GetRange(t) \/ GetLen(t) \/ Bump(t) \/ GetData(t)
           \/ Add(t) \/ GetString(t)

Step(t) == Lookup(t) \/ Read(t)

Next ==
    \E t \in Threads :
        \/ \E r \in Requests : Call(t, r[1], r[2])
        \/ Step(t)
        \/ Die(t)

\* The threads are scheduled by the kernel: one that is in a call goes on.
Spec == Init /\ [][Next]_vars /\ \A t \in Threads : WF_vars(Step(t))
-----------------------------------------------------------------------------
\* The types of the shared state and of the threads' locals.
TypeOK ==
    /\ file \in Files
    /\ \A array \in {"start", "end", "ptr"} : \A s \in 0..file.n : index[array][s] \in Nat
    /\ IsPosition(ptr)
    /\ pc \in [Threads -> {"idle", "loop", "aim", "load", "save", "equal", "order", "start",
                           "end", "decide", "keyed", "seek", "range", "len", "bump", "data",
                           "add", "skip", "done"}]
    /\ \A t \in Threads :
          /\ local[t].op \in Ops /\ local[t].ip \in Addr
          /\ local[t].key \in 0..(file.n - 1)
          /\ IsPosition(local[t].cur) /\ IsPosition(local[t].data)
          /\ Len(local[t].strs) <= Len(Fields)
    /\ alone \in [Threads -> BOOLEAN] /\ up \in BOOLEAN

\* Whatever the threads do to each other's cursor, no slot of a record whose
\* word in the file is not 0 is ever overwritten.
IndexIntact ==
    \A array \in {"start", "end", "ptr"}, k \in 1..file.n :
        LET w == Word(file, Cell(array, k))
        IN  w # 0 => index[array][k] = w

\* When no range starts at address 0, a finished lookup has named a record
\* that covers the address, with that record's range, and has not missed one
\* between the first and the last, whatever calls it has overlapped.
LookupRight ==
    file.start[1] # 0 =>
        \A t \in Threads : pc[t] = "done" =>
            LET k == local[t].key
            IN  /\ k # 0 => /\ Covers(file, k, local[t].ip)
                            /\ local[t].op = "query" =>
                                  local[t].range = <<file.start[k], file.end[k]>>
                /\ \A j \in 2..(file.n - 1) : Covers(file, j, local[t].ip) => k = j

\* The strings of a finished call are those of its record.
OwnStrings(t) ==
    pc[t] = "done" /\ local[t].key # 0 =>
        \A j \in DOMAIN local[t].strs : local[t].strs[j] = Str(local[t].key, j)

\* A call that no other has overlapped answers with its record's strings,
\* whatever overlapping calls left behind before.
AloneRight == \A t \in Threads : alone[t] => OwnStrings(t)

\* Every call returns, or the process dies.
CallsReturn == \A t \in Threads : pc[t] = "loop" ~> (pc[t] = "done" \/ ~up)

-----------------------------------------------------------------------------
\* What the docs say of the server.

\* "A library to resolve IPv4 address to geographic position", with the thrift
\* protocol (README.md:3): the strings of an answer are of the address's record.
StringsOfRecord == \A t \in Threads : OwnStrings(t)

\* "... ip library have no data for this IP" (bbip_server.cpp:390): a call that
\* no other overlaps says so only of an address without data (those of the
\* last record, and of the first one that the record count hides, left out).
AloneFinds ==
    \A t \in Threads : alone[t] /\ pc[t] = "done" /\ local[t].key = 0 =>
        \A k \in 1..(file.n - 1) : k > 1 \/ local[t].ip > file.n =>
            ~Covers(file, k, local[t].ip)
=============================================================================
