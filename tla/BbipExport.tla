----------------------------- MODULE BbipExport -----------------------------
(***************************************************************************)
(* bbip_export (main.cpp): reads the rows of ip_geo_records, narrowest     *)
(* range first, gives every address to the first row that has it, and      *)
(* writes the resulting disjoint ranges, in order, as the data file.       *)
(*                                                                         *)
(* Which addresses are taken is kept in a bitmap, B addresses to a byte    *)
(* (8 in the code), the first one in the highest bit.  A row is scanned    *)
(* address by address with a byte index and a shift that must keep up with *)
(* the address; inside a free stretch whole free bytes are skipped.  Each  *)
(* iteration of the scan is one step.                                      *)
(***************************************************************************)
EXTENDS BbipFile, Sequences, Functions

CONSTANTS B,       \* addresses per byte of the bitmap
          Tables   \* what the query may return: sequences of rows

ASSUME BAssumption == B \in Nat \ {0} /\ (MaxIP + 1) % B = 0

Row == {w \in [start : Addr, end : Addr, data : Payloads] : w.start <= w.end}

\* ORDER BY end-start ASC; (start, end) is the primary key.
IsResult(rs) ==
    /\ rs \in Seq(Row)
    /\ \A i, j \in DOMAIN rs : i < j =>
          /\ rs[i].end - rs[i].start <= rs[j].end - rs[j].start
          /\ <<rs[i].start, rs[i].end>> # <<rs[j].start, rs[j].end>>

ASSUME TablesAssumption == \A rs \in Tables : IsResult(rs)

VARIABLES
    table,       \* the table, in the order of the query
    myData,      \* the connection: "null", or whether a database is selected
    rows,        \* what the query has returned, and the number of the row
    r,           \* that is scanned
    h_s,         \* the address that is scanned
    ip_hash_p,   \* its byte in the bitmap
    h_s_ptr,     \* and its shift in the byte
    ip_hash,     \* the bitmap, as the set of addresses whose bit is set
    last_taken,  \* last_ip_item = 1: the address before was taken
    c_s,         \* where the open free stretch starts, or -1
    dump_list, dump_list_size,  \* the ranges found, and the room for them
    pc,
    file         \* the file on disk, once it has been written

source == <<table, myData>>
scan == <<h_s, ip_hash_p, h_s_ptr, ip_hash, last_taken, c_s>>
dump == <<dump_list, dump_list_size>>
vars == <<source, rows, r, scan, dump, pc, file>>

NoFile == [n |-> 0, start |-> <<>>, end |-> <<>>, ptr |-> <<>>, data |-> <<>>]

Init ==
    /\ table \in Tables /\ myData = "null"
    /\ rows = <<>> /\ r = 1
    /\ h_s = 0 /\ ip_hash_p = 0 /\ h_s_ptr = B - 1
    /\ ip_hash = {} /\ last_taken = TRUE /\ c_s = -1
    /\ dump_list = <<>> /\ dump_list_size = 0
    /\ pc = "connect"
    /\ file = NoFile

\* db_connect.
NoServer ==
    /\ pc = "connect"
    /\ pc' = "failed"
    /\ UNCHANGED <<source, rows, r, scan, dump, file>>

Connect ==
    /\ pc = "connect"
    /\ myData' = "selected"
    /\ pc' = "query"
    /\ UNCHANGED <<table, rows, r, scan, dump, file>>

\* Mutant: the connection stays open.
AfterSelectFailsOpen == "unselected"

\* db_close, but still "return 0".
AfterSelectFails == "null"

SelectFails ==
    /\ pc = "connect"
    /\ myData' = AfterSelectFails
    /\ pc' = "query"
    /\ UNCHANGED <<table, rows, r, scan, dump, file>>

\* A failed query is reported and the export goes on without any row; the
\* closed handle is a null pointer for mysql_query.
Query ==
    /\ pc = "query"
    /\ \/ /\ myData = "selected"
          /\ rows' = table /\ dump_list_size' = 4 * Len(table)
          /\ pc' = "fetch"
       \/ /\ myData # "null"
          /\ pc' = "fetch"
          /\ UNCHANGED <<rows, dump_list_size>>
       \/ /\ myData = "null"
          /\ pc' = "crashed"
          /\ UNCHANGED <<rows, dump_list_size>>
    /\ UNCHANGED <<source, r, scan, dump_list, file>>

FetchRow ==
    /\ pc = "fetch"
    /\ r <= Len(rows)
    /\ h_s' = rows[r].start
    /\ ip_hash_p' = rows[r].start \div B
    /\ h_s_ptr' = B - 1 - (rows[r].start % B)
    /\ last_taken' = TRUE
    /\ c_s' = -1
    /\ pc' = "scan"
    /\ UNCHANGED <<source, rows, r, ip_hash, dump, file>>

Stretch(s, e) == [start |-> s, end |-> e, data |-> rows[r].data]

\* pushToList, with its doubling.
Push(s, e) ==
    /\ dump_list' = Append(dump_list, Stretch(s, e))
    /\ dump_list_size' = IF Len(dump_list) + 1 > dump_list_size
                         THEN 2 * dump_list_size ELSE dump_list_size

\* The address of a bit, and the addresses of a byte.
Address(byte, shift) == byte * B + (B - 1 - shift)
Byte(byte) == {Address(byte, s) : s \in 0..(B - 1)}

\* Mutant: the end of the row is not looked at.
SkipsToTaken(byte, h, end, taken) ==
    {k \in 0..(MaxIP \div B) :
        /\ Byte(byte + 1 + k) \cap taken # {} \/ h + B * (k + 1) > MaxIP
        /\ \A i \in 0..(k - 1) : Byte(byte + 1 + i) \cap taken = {}}

\* How many bytes behind byte are free and of the row (there is one number):
\* while (ip_hash[++ip_hash_p] == 0 && h_s+8<=end).
Skips(byte, h, end, taken) ==
    LET Free(k) == Byte(byte + 1 + k) \cap taken = {} /\ h + B * (k + 1) <= end
    IN  {k \in 0..(MaxIP \div B) : ~Free(k) /\ \A i \in 0..(k - 1) : Free(i)}

\* Mutant: every address counts as a turn.
TurnsAlways(before, taken) == TRUE

\* From free to taken addresses or back.
Turns(before, taken) == before # taken

\* Mutant: the stretch is closed with the taken address.
LastFreeIsTaken(h) == h

\* The last address of the free stretch before address h.
LastFree(h) == h - 1

\* Mutant: the shift is not set back.
NextShiftStays(shift) == IF shift = 0 THEN 0 ELSE shift - 1

NextShift(shift) == IF shift = 0 THEN B - 1 ELSE shift - 1

Scan ==
    /\ pc = "scan"
    /\ h_s <= rows[r].end
    /\ LET bit == Address(ip_hash_p, h_s_ptr)
           taken == bit \in ip_hash
           turn == Turns(last_taken, taken) /\ h_s # c_s
           marked == ip_hash \cup {bit}
       IN  /\ last_taken' = taken
           /\ \/ /\ turn /\ taken
                 /\ Push(c_s, LastFree(h_s))
                 /\ c_s' = -1
              \/ /\ turn /\ ~taken
                 /\ c_s' = h_s
                 /\ UNCHANGED dump
              \/ /\ ~turn
                 /\ UNCHANGED <<c_s, dump>>
           /\ \E skips \in IF h_s_ptr = 0 /\ ~taken
                            THEN Skips(ip_hash_p, h_s, rows[r].end, marked) ELSE {0} :
                 /\ ip_hash' = marked \cup UNION {Byte(ip_hash_p + k) : k \in 1..skips}
                 /\ ip_hash_p' = IF h_s_ptr = 0 THEN ip_hash_p + 1 + skips ELSE ip_hash_p
                 /\ h_s' = h_s + B * skips + 1
           /\ h_s_ptr' = NextShift(h_s_ptr)
    \* h_s wraps to 0 behind the last address: the scan runs on, off the bitmap
    /\ pc' = IF h_s' > MaxIP THEN "overrun" ELSE "scan"
    /\ UNCHANGED <<source, rows, r, file>>

FinishRow ==
    /\ pc = "scan"
    /\ h_s > rows[r].end
    /\ IF c_s # -1 THEN Push(c_s, rows[r].end) ELSE UNCHANGED dump
    /\ r' = r + 1
    /\ pc' = "fetch"
    /\ UNCHANGED <<source, rows, scan, file>>

\* Mutant: the end decides.
CompareEnds(x, y) == x.end > y.end

Compare(x, y) == x.start < y.start

\* The lists that qsort may leave: the same ranges, none before a smaller one.
Sorted(list) ==
    {[k \in DOMAIN list |-> list[p[k]]] :
        p \in {p \in Bijection(DOMAIN list, DOMAIN list) :
                 \A j, k \in DOMAIN list : j < k => ~Compare(list[p[k]], list[p[j]])}}

\* The header, the blobs and the three arrays, in the order of qsort.
Output(list) ==
    [n |-> Len(list),
     start |-> [k \in DOMAIN list |-> list[k].start],
     end |-> [k \in DOMAIN list |-> list[k].end],
     ptr |-> [k \in DOMAIN list |-> 3 * Len(list) + k],
     data |-> [k \in DOMAIN list |-> list[k].data]]

Write ==
    /\ pc = "fetch"
    /\ r > Len(rows)
    /\ \/ pc' = "written" /\ \E list \in Sorted(dump_list) : file' = Output(list)
       \/ pc' = "failed" /\ UNCHANGED file  \* the file cannot be opened
    /\ UNCHANGED <<source, rows, r, scan, dump>>

Next == NoServer \/ Connect \/ SelectFails \/ Query \/ FetchRow \/ Scan \/ FinishRow \/ Write

\* One process, no one to wait for once it is connected.
Spec == Init /\ [][Next]_vars /\ WF_vars(Next)
-----------------------------------------------------------------------------
TypeOK ==
    /\ rows \in {<<>>, table} /\ myData \in {"null", "selected"}
    /\ r \in 1..(Len(rows) + 1)
    /\ h_s \in 0..(MaxIP + 1) /\ h_s_ptr \in 0..(B - 1)
    /\ ip_hash_p \in 0..((MaxIP + 1) \div B)
    /\ ip_hash \subseteq Addr
    /\ c_s \in -1..MaxIP
    /\ dump_list \in Seq(Row)
    /\ pc \in {"connect", "query", "fetch", "scan", "overrun", "written", "failed", "crashed"}

RowAddrs(i) == rows[i].start..rows[i].end
Scanned(n) == UNION {RowAddrs(i) : i \in 1..n}

\* Byte index and shift are those of the scanned address, also behind a skip.
CursorInStep == pc = "scan" => Address(ip_hash_p, h_s_ptr) = h_s

\* The bitmap holds the addresses of the scanned rows and of the current one
\* up to the scanned address: a skip marks no address that it should not.
BitmapExact ==
    ip_hash = Scanned(r - 1) \cup
              IF pc = "scan" THEN rows[r].start..(h_s - 1)
              ELSE IF pc = "overrun" THEN rows[r].start..MaxIP ELSE {}

\* The ranges found so far never overlap.
RangesDisjoint ==
    \A i, j \in DOMAIN dump_list :
        i # j => dump_list[i].end < dump_list[j].start \/ dump_list[j].end < dump_list[i].start

\* n rows leave at most 2n-1 ranges, so the list of 4n is never enlarged (the
\* branch that would also frees an array with delete).
NeverEnlarged ==
    /\ Len(dump_list) <= IF rows = <<>> THEN 0 ELSE 2 * Len(rows) - 1
    /\ dump_list_size = 4 * Len(rows)

\* The file is well formed, and it gives every address to the first of the
\* query's rows that has it, and to none when no row has it.
NarrowestRowWins ==
    pc = "written" =>
        /\ IsDataFile(file)
        /\ \A a \in Addr :
              LET of == {i \in DOMAIN rows : a \in RowAddrs(i)}
              IN  {file.data[k] : k \in {k \in 1..file.n : Covers(file, k, a)}} =
                  {rows[i].data : i \in {i \in of : \A j \in of : i <= j}}

\* Without the database no file is written over the old one (main.cpp:36): not
\* even the file without records that a failed query ends in.
NoDatabaseNoFile == pc = "written" => myData = "selected"

\* A connected export comes to its end.
ExportEnds == pc = "query" ~> pc \in {"written", "failed", "crashed"}

-----------------------------------------------------------------------------
\* What the table's definition says of the rows.

\* The end of a row is any unsigned integer (`end` int(10) unsigned,
\* ip_geo_records.sql:19): no row makes the scan leave the bitmap.
EndIsAnyAddress == pc # "overrun"
=============================================================================
