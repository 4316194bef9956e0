-------------------------- MODULE BbipExportProofs --------------------------
(***************************************************************************)
(* Proofs about the exporter: its scan, the file it writes and the number  *)
(* of ranges, for every table, every address width and every number of     *)
(* addresses in a byte.                                                    *)
(***************************************************************************)
EXTENDS BbipFileFacts, BbipExport, SequenceTheorems, TLAPS

\* Arithmetic of bytes.

LEMMA Divided ==
    ASSUME NEW a \in Nat
    PROVE  /\ a \div B \in Nat /\ a % B \in 0..(B - 1)
           /\ a = (a \div B) * B + (a % B)
  BY BAssumption

LEMMA ByteIs ==
    ASSUME NEW p \in Nat
    PROVE  Byte(p) = (p * B)..(p * B + B - 1)
  <1>1. B \in Nat \ {0} /\ p * B \in Nat
    BY BAssumption
  <1> DEFINE q == p * B
  <1>2. \A s \in 0..(B - 1) : Address(p, s) = q + (B - 1 - s)
    BY DEF Address
  <1>3. q \in Nat
    BY <1>1
  <1>4. Byte(p) = {q + (B - 1 - s) : s \in 0..(B - 1)}
    BY <1>2 DEF Byte
  <1> HIDE DEF q
  <1>5. \A a \in q..(q + B - 1) : (q + B - 1) - a \in 0..(B - 1) /\ a = q + (B - 1 - ((q + B - 1) - a))
    BY <1>1, <1>3
  <1>6. \A s \in 0..(B - 1) : q + (B - 1 - s) \in q..(q + B - 1)
    BY <1>1, <1>3
  <1>7. Byte(p) = q..(q + B - 1)
    BY <1>4, <1>5, <1>6
  <1> QED BY <1>7 DEF q

\* The n bytes behind byte p are the next n * B addresses.
LEMMA BytesBehind ==
    ASSUME NEW p \in Nat, NEW n \in Nat
    PROVE  UNION {Byte(p + k) : k \in 1..n} = ((p + 1) * B)..((p + 1) * B + n * B - 1)
  <1>1. B \in Nat \ {0}
    BY BAssumption
  <1>2. ASSUME NEW k \in 1..n, NEW a \in Byte(p + k)
        PROVE  a \in ((p + 1) * B)..((p + 1) * B + n * B - 1)
    <2>1. a \in ((p + k) * B)..((p + k) * B + B - 1) /\ p + k \in Nat
      <3>1. p + k \in Nat
        OBVIOUS
      <3>2. Byte(p + k) = ((p + k) * B)..((p + k) * B + B - 1)
        BY <3>1, ByteIs
      <3> QED BY <1>2, <3>1, <3>2
    <2>2. (p + k) * B = (p + 1) * B + (k - 1) * B
      BY <1>1
    <2>3. (k - 1) * B \in Nat /\ (k - 1) * B + B <= n * B
      BY <1>1
    <2>4. (p + 1) * B \in Nat /\ n * B \in Nat
      BY <1>1
    <2> QED BY <1>1, <2>1, <2>2, <2>3, <2>4
  <1>3. ASSUME NEW a \in ((p + 1) * B)..((p + 1) * B + n * B - 1)
        PROVE  \E k \in 1..n : a \in Byte(p + k)
    <2> DEFINE q == a \div B
    <2>1. a \in Nat /\ (p + 1) * B <= a /\ a < (p + 1 + n) * B
      BY <1>1
    <2>2. q \in Nat /\ a % B \in 0..(B - 1) /\ a = q * B + (a % B)
      BY <2>1, Divided
    <2> HIDE DEF q
    <2>3. q * B <= a /\ a < (q + 1) * B
      BY <1>1, <2>2
    <2>4. p + 1 <= q
      <3>1. (p + 1) * B < (q + 1) * B
        BY <1>1, <2>1, <2>2, <2>3
      <3> QED BY <1>1, <2>2, <3>1
    <2>5. q < p + 1 + n
      <3>1. q * B < (p + 1 + n) * B
        BY <1>1, <2>1, <2>2, <2>3
      <3> QED BY <1>1, <2>2, <3>1
    <2>6. q - p \in 1..n /\ p + (q - p) = q
      BY <2>2, <2>4, <2>5
    <2>7. a \in Byte(q)
      BY <1>1, <2>1, <2>2, <2>3, ByteIs
    <2> QED BY <2>6, <2>7
  <1> QED BY <1>2, <1>3
-----------------------------------------------------------------------------
\* The addresses of a range that was found, and of the open stretch.
Span(d) == d.start..d.end
Open == IF c_s = -1 THEN {} ELSE c_s..(h_s - 1)

\* While a row is scanned: where the scan is, and that a stretch is open if and
\* only if the address before was free.
Scanning ==
    /\ r <= Len(rows)
    /\ rows[r].start <= h_s /\ h_s <= rows[r].end + 1
    /\ last_taken \in BOOLEAN
    /\ last_taken <=> c_s = -1
    /\ c_s # -1 => rows[r].start <= c_s /\ c_s < h_s

\* Ranges found and the open stretch are of taken addresses, each address in one.
Found ==
    /\ \A i \in DOMAIN dump_list : Span(dump_list[i]) \subseteq ip_hash
    /\ pc = "scan" => \A i \in DOMAIN dump_list : Span(dump_list[i]) \cap Open = {}
    /\ \A i, j \in DOMAIN dump_list :
          i # j => Span(dump_list[i]) \cap Span(dump_list[j]) = {}

\* Before the rows are there.
Fresh ==
    /\ table \in Tables
    /\ pc \in {"connect", "query"} =>
          r = 1 /\ rows = <<>> /\ ip_hash = {} /\ dump_list = <<>>

IInv ==
    /\ TypeOK
    /\ Fresh
    /\ rows \in Seq(Row)
    /\ CursorInStep
    /\ BitmapExact
    /\ pc = "scan" => Scanning
    /\ Found
-----------------------------------------------------------------------------
LEMMA RowFacts ==
    ASSUME NEW w \in Row
    PROVE  w.start \in Nat /\ w.end \in Nat /\ w.start <= w.end /\ w.end <= MaxIP
  BY MaxIPAssumption DEF Row, Addr

LEMMA TablesAreRows == Tables \subseteq Seq(Row)
  BY TablesAssumption DEF IsResult

\* The bytes of the bitmap.
LEMMA BytesUpTo ==
    ASSUME NEW p \in Nat, NEW m \in Nat, p * B <= m
    PROVE  p <= m \div B
  <1> DEFINE q == m \div B
  <1>1. /\ B \in Nat \ {0} /\ q \in Nat /\ m % B \in 0..(B - 1)
        /\ m = q * B + (m % B)
    BY BAssumption, Divided
  <1> HIDE DEF q
  <1>2. p * B < (q + 1) * B
    BY <1>1
  <1>3. p < q + 1
    BY <1>1, <1>2
  <1> QED BY <1>1, <1>3 DEF q

\* A range of addresses that no other has is appended.
LEMMA OneMore ==
    ASSUME TypeOK, Found, NEW d \in Row, Span(d) \subseteq ip_hash',
           \A i \in DOMAIN dump_list : Span(dump_list[i]) \cap Span(d) = {},
           ip_hash \subseteq ip_hash', dump_list' = Append(dump_list, d),
           pc' = "scan" => Open' = {}
    PROVE  dump_list' \in Seq(Row) /\ Found'
  <1> DEFINE n == Len(dump_list)
  <1>1. dump_list \in Seq(Row) /\ n \in Nat /\ DOMAIN dump_list = 1..n
    BY LenProperties DEF TypeOK
  <1>2. /\ dump_list' \in Seq(Row) /\ DOMAIN dump_list' = 1..(n + 1)
        /\ dump_list'[n + 1] = d
        /\ \A i \in 1..n : dump_list'[i] = dump_list[i]
    BY <1>1, AppendProperties, LenProperties
  <1> HIDE DEF n
  <1>3. \A i \in DOMAIN dump_list' : Span(dump_list'[i]) \subseteq ip_hash'
    BY <1>1, <1>2 DEF Found
  <1>4. \A i, j \in DOMAIN dump_list' :
           i # j => Span(dump_list'[i]) \cap Span(dump_list'[j]) = {}
    BY <1>1, <1>2 DEF Found
  <1>5. \A i : Span(dump_list[i])' = Span(dump_list'[i])
    BY DEF Span
  <1> QED BY <1>2, <1>3, <1>4, <1>5 DEF Found, Span

LEMMA InitInv == Init => IInv
  <1> SUFFICES ASSUME Init PROVE IInv
    OBVIOUS
  <1>1. /\ rows = <<>> /\ r = 1 /\ h_s = 0 /\ ip_hash_p = 0 /\ h_s_ptr = B - 1
        /\ ip_hash = {} /\ c_s = -1 /\ dump_list = <<>> /\ pc = "connect"
        /\ myData = "null"
    BY DEF Init
  <1>2. Len(rows) = 0 /\ rows \in Seq(Row) /\ dump_list \in Seq(Row) /\ DOMAIN dump_list = {}
    BY <1>1, EmptySeq
  <1>3. (MaxIP + 1) \div B \in Nat /\ B \in Nat \ {0} /\ MaxIP \in Nat
    BY MaxIPAssumption, BAssumption, Divided
  <1>4. TypeOK
    BY <1>1, <1>2, <1>3 DEF TypeOK
  <1>5. BitmapExact
    BY <1>1 DEF BitmapExact, Scanned
  <1>6. Fresh
    BY <1>1 DEF Init, Fresh
  <1> QED BY <1>1, <1>2, <1>4, <1>5, <1>6 DEF IInv, CursorInStep, Found

\* The steps that only connect or give up.
LEMMA ConnectingInv ==
    ASSUME IInv, NoServer \/ Connect \/ SelectFails
    PROVE  IInv'
  <1>1. /\ rows' = rows /\ r' = r /\ h_s' = h_s /\ ip_hash_p' = ip_hash_p
        /\ h_s_ptr' = h_s_ptr /\ ip_hash' = ip_hash /\ c_s' = c_s /\ table' = table
        /\ last_taken' = last_taken /\ dump_list' = dump_list
        /\ pc = "connect" /\ pc' \in {"query", "failed"}
        /\ myData' \in {"null", "selected"}
    BY DEF NoServer, Connect, SelectFails, AfterSelectFails, source, scan, dump, IInv, TypeOK
  <1>2. TypeOK'
    BY <1>1 DEF IInv, TypeOK
  <1>3. Fresh'
    BY <1>1 DEF IInv, Fresh
  <1> QED BY <1>1, <1>2, <1>3 DEF IInv, CursorInStep, BitmapExact, Scanned, RowAddrs, Found

LEMMA QueryInv ==
    ASSUME IInv, Query
    PROVE  IInv'
  <1>1. /\ rows' \in {table, rows} /\ r' = r /\ h_s' = h_s /\ ip_hash_p' = ip_hash_p
        /\ h_s_ptr' = h_s_ptr /\ ip_hash' = ip_hash /\ c_s' = c_s /\ table' = table
        /\ myData' = myData /\ dump_list' = dump_list
        /\ pc = "query" /\ pc' \in {"fetch", "crashed"}
    BY DEF Query, source, scan, dump
  <1>2. r = 1 /\ ip_hash = {} /\ dump_list = <<>> /\ table \in Tables
    BY <1>1 DEF IInv, Fresh
  <1>3. rows' \in Seq(Row) /\ rows' \in {<<>>, table'} /\ Len(rows') \in Nat
    BY <1>2, <1>1, TablesAreRows, LenProperties DEF IInv, TypeOK
  <1>4. TypeOK'
    BY <1>1, <1>3 DEF IInv, TypeOK
  <1>5. 1..(r' - 1) = {} /\ DOMAIN dump_list' = {}
    BY <1>2, <1>1, EmptySeq
  <1> QED BY <1>2, <1>1, <1>3, <1>4, <1>5 DEF IInv, Fresh, CursorInStep, BitmapExact, Scanned, Found

LEMMA FetchRowInv ==
    ASSUME IInv, FetchRow
    PROVE  IInv'
  <1>1. /\ rows' = rows /\ r' = r /\ ip_hash' = ip_hash /\ table' = table
        /\ myData' = myData /\ dump_list' = dump_list
        /\ pc = "fetch" /\ pc' = "scan" /\ r <= Len(rows)
        /\ h_s' = rows[r].start /\ ip_hash_p' = rows[r].start \div B
        /\ h_s_ptr' = B - 1 - (rows[r].start % B)
        /\ last_taken' = TRUE /\ c_s' = -1
    BY DEF FetchRow, source, dump
  <1>2. rows[r] \in Row
    BY <1>1, LenProperties, ElementOfSeq DEF IInv, TypeOK
  <1>3. /\ h_s' \in Nat /\ h_s' <= rows[r].end /\ rows[r].end \in Nat /\ rows[r].end <= MaxIP
        /\ MaxIP \in Nat /\ B \in Nat \ {0}
    BY <1>1, <1>2, RowFacts, MaxIPAssumption, BAssumption
  <1>4. /\ ip_hash_p' \in Nat /\ h_s_ptr' \in 0..(B - 1) /\ B - 1 - h_s_ptr' \in Nat
        /\ h_s' = ip_hash_p' * B + (B - 1 - h_s_ptr')
    <2> DEFINE a == rows[r].start
               q == a \div B
               m == a % B
    <2>1. q \in Nat /\ m \in 0..(B - 1) /\ a = q * B + m
      BY <1>1, <1>3, Divided
    <2>2. h_s' = a /\ ip_hash_p' = q /\ h_s_ptr' = B - 1 - m
      BY <1>1
    <2> HIDE DEF a, q, m
    <2>3. B - 1 - h_s_ptr' = m
      BY <1>3, <2>1, <2>2
    <2> QED BY <1>3, <2>1, <2>2, <2>3
  <1>5. ip_hash_p' <= (MaxIP + 1) \div B
    <2>1. ip_hash_p' * B <= MaxIP + 1
      <3> DEFINE p == ip_hash_p' * B
      <3>1. p \in Int
        BY <1>3, <1>4
      <3>2. h_s' = p + (B - 1 - h_s_ptr')
        BY <1>4
      <3> HIDE DEF p
      <3>3. p <= MaxIP + 1
        <4>1. h_s' \in Int /\ h_s' <= MaxIP
          BY <1>3
        <4>2. B - 1 - h_s_ptr' \in Nat
          BY <1>4
        <4> QED BY <1>3, <3>1, <3>2, <4>1, <4>2
      <3> QED BY <3>3 DEF p
    <2>2. MaxIP + 1 \in Nat
      BY <1>3
    <2> QED BY <1>4, <2>1, <2>2, BytesUpTo
  <1>6. TypeOK'
    <2>1. (MaxIP + 1) \div B \in Nat
      BY <1>3, Divided
    <2> DEFINE last == (MaxIP + 1) \div B
    <2> HIDE DEF last
    <2>2. ip_hash_p' \in 0..last /\ h_s' \in 0..(MaxIP + 1)
      <3>1. ip_hash_p' <= last /\ last \in Nat
        BY <1>5, <2>1 DEF last
      <3>2. ip_hash_p' \in 0..last
        BY <1>4, <3>1
      <3>3. h_s' \in 0..(MaxIP + 1)
        BY <1>3
      <3> QED BY <3>2, <3>3
    <2>3. /\ rows' \in {<<>>, table'} /\ myData' \in {"null", "selected"}
          /\ r' \in 1..(Len(rows') + 1) /\ ip_hash' \subseteq Addr /\ c_s' \in -1..MaxIP
          /\ dump_list' \in Seq(Row)
      BY <1>1, <1>3 DEF IInv, TypeOK
    <2> QED BY <1>1, <1>4, <2>2, <2>3 DEF TypeOK, last
  <1>7. CursorInStep'
    BY <1>4 DEF CursorInStep, Address
  <1>8. BitmapExact'
    <2>1. rows[r].start..(h_s' - 1) = {}
      BY <1>1, <1>3
    <2>2. ip_hash = Scanned(r - 1) /\ Scanned(r - 1)' = Scanned(r - 1)
      BY <1>1 DEF IInv, BitmapExact, Scanned, RowAddrs
    <2> QED BY <1>1, <2>1, <2>2 DEF BitmapExact
  <1>9. Scanning'
    BY <1>1, <1>3 DEF Scanning
  <1>10. Found'
    BY <1>1 DEF IInv, Found, Open
  <1> QED BY <1>1, <1>6, <1>7, <1>8, <1>9, <1>10 DEF IInv, Fresh

LEMMA FinishRowInv ==
    ASSUME IInv, FinishRow
    PROVE  IInv'
  <1>1. /\ rows' = rows /\ r' = r + 1 /\ ip_hash' = ip_hash /\ table' = table
        /\ myData' = myData /\ h_s' = h_s /\ ip_hash_p' = ip_hash_p /\ h_s_ptr' = h_s_ptr
        /\ c_s' = c_s /\ last_taken' = last_taken
        /\ pc = "scan" /\ pc' = "fetch" /\ h_s > rows[r].end
        /\ dump_list' = IF c_s # -1 THEN Append(dump_list, Stretch(c_s, rows[r].end))
                        ELSE dump_list
    BY DEF FinishRow, Push, source, scan, dump
  <1>2. Scanning /\ r \in Nat /\ r >= 1 /\ r <= Len(rows) /\ Len(rows) \in Nat
    BY <1>1, LenProperties DEF IInv, Scanning, TypeOK
  <1>3. rows[r] \in Row
    BY <1>2, ElementOfSeq DEF IInv
  <1>4. h_s = rows[r].end + 1 /\ rows[r].start \in Nat /\ rows[r].end \in Nat
        /\ rows[r].end <= MaxIP /\ MaxIP \in Nat
    BY <1>1, <1>2, <1>3, RowFacts, MaxIPAssumption DEF Scanning, IInv, TypeOK
  <1>5. BitmapExact'
    <2>1. ip_hash = Scanned(r - 1) \cup RowAddrs(r)
      BY <1>1, <1>4 DEF IInv, BitmapExact, RowAddrs
    <2>2. 1..r = 1..(r - 1) \cup {r}
      BY <1>1, <1>2
    <2>3. Scanned(r) = Scanned(r - 1) \cup RowAddrs(r)
      BY <2>2 DEF Scanned
    <2>4. r' - 1 = r
      BY <1>1, <1>2
    <2>5. Scanned(r - 1)' = Scanned(r)
      BY <1>1, <2>4 DEF Scanned, RowAddrs
    <2> QED BY <1>1, <2>1, <2>3, <2>5 DEF BitmapExact
  <1>6. dump_list' \in Seq(Row) /\ Found'
    <2>1. CASE c_s = -1
      <3>1. dump_list' = dump_list /\ dump_list \in Seq(Row)
        BY <1>1, <2>1 DEF IInv, TypeOK
      <3> QED BY <1>1, <3>1 DEF IInv, Found
    <2>2. CASE c_s # -1
      <3> DEFINE d == Stretch(c_s, rows[r].end)
      <3>1. d \in Row /\ Span(d) = Open
        <4>1. c_s \in Nat /\ c_s <= rows[r].end /\ rows[r].data \in Payloads
          BY <1>2, <1>3, <1>4, <2>2 DEF Scanning, Row, IInv, TypeOK
        <4>2. d = [start |-> c_s, end |-> rows[r].end, data |-> rows[r].data]
          BY DEF Stretch
        <4> QED BY <1>4, <2>2, <4>1, <4>2 DEF Row, Addr, Span, Open
      <3>2. Open \subseteq ip_hash
        <4>1. Open \subseteq rows[r].start..(h_s - 1)
          BY <1>2, <1>4, <2>2 DEF Open, Scanning, IInv, TypeOK
        <4>2. rows[r].start..(h_s - 1) \subseteq ip_hash
          BY <1>1 DEF IInv, BitmapExact
        <4> QED BY <4>1, <4>2
      <3> HIDE DEF d
      <3>3. dump_list' = Append(dump_list, d)
        BY <1>1, <2>2 DEF d
      <3>4. \A i \in DOMAIN dump_list : Span(dump_list[i]) \cap Span(d) = {}
        BY <1>1, <3>1 DEF IInv, Found
      <3> QED BY <1>1, <3>1, <3>2, <3>3, <3>4, OneMore DEF IInv
    <2> QED BY <2>1, <2>2
  <1>7. TypeOK'
    BY <1>1, <1>2, <1>6 DEF IInv, TypeOK
  <1> QED BY <1>1, <1>5, <1>6, <1>7 DEF IInv, Fresh, CursorInStep

LEMMA WriteInv ==
    ASSUME IInv, Write
    PROVE  IInv'
  <1>1. /\ rows' = rows /\ r' = r /\ h_s' = h_s /\ ip_hash_p' = ip_hash_p
        /\ h_s_ptr' = h_s_ptr /\ ip_hash' = ip_hash /\ c_s' = c_s /\ table' = table
        /\ last_taken' = last_taken /\ dump_list' = dump_list /\ myData' = myData
        /\ pc = "fetch" /\ pc' \in {"written", "failed"}
    BY DEF Write, source, scan, dump
  <1>2. TypeOK'
    BY <1>1 DEF IInv, TypeOK
  <1> QED BY <1>1, <1>2 DEF IInv, Fresh, CursorInStep, BitmapExact, Scanned, RowAddrs, Found

\* No range is added, and the open stretch only grows by free addresses.
LEMMA NoMore ==
    ASSUME TypeOK, Found, pc = "scan", dump_list' = dump_list, ip_hash \subseteq ip_hash',
           NEW S, S \cap ip_hash = {}, Open' \subseteq Open \cup S
    PROVE  dump_list' \in Seq(Row) /\ Found'
  <1>1. \A i \in DOMAIN dump_list : /\ Span(dump_list[i]) \subseteq ip_hash
                                     /\ Span(dump_list[i]) \cap Open = {}
    BY DEF Found
  <1>2. \A i \in DOMAIN dump_list : /\ Span(dump_list[i]) \subseteq ip_hash'
                                     /\ Span(dump_list[i]) \cap Open' = {}
    BY <1>1
  <1>3. \A i, j \in DOMAIN dump_list :
           i # j => Span(dump_list[i]) \cap Span(dump_list[j]) = {}
    BY DEF Found
  <1>4. dump_list' \in Seq(Row)
    BY DEF TypeOK
  <1> QED BY <1>2, <1>3, <1>4 DEF Found, Span

\* An address that is at most one behind the last one.
LEMMA OneBehind ==
    ASSUME NEW h \in Nat, NEW n \in Nat, NEW m \in Nat, n <= m + 1
    PROVE  (n > m => n - 1 = m) /\ h..(n - 1) \subseteq 0..m
  OBVIOUS

LEMMA ShiftLeft ==
    ASSUME NEW b \in Nat, NEW s \in 0..(b - 1)
    PROVE  b - 1 - s \in Nat
  OBVIOUS

\* What one iteration of the scan does: h_s is looked at, and what is skipped
\* behind it is free and of the row.
LEMMA ScanStep ==
    ASSUME IInv, Scan
    PROVE  /\ h_s' \in Nat /\ h_s < h_s'
           /\ ip_hash' = ip_hash \cup h_s..(h_s' - 1)
           /\ ((h_s + 1)..(h_s' - 1)) \cap ip_hash = {}
           /\ h_s' = h_s + 1 \/ (h_s \notin ip_hash /\ h_s' - 1 <= rows[r].end)
           /\ ip_hash_p' \in Nat /\ h_s_ptr' \in 0..(B - 1)
           /\ Address(ip_hash_p', h_s_ptr') = h_s'
  <1> DEFINE p == ip_hash_p
             taken == h_s \in ip_hash
  <1>1. /\ p \in Nat /\ h_s \in Nat /\ h_s_ptr \in 0..(B - 1) /\ B \in Nat \ {0}
        /\ Address(ip_hash_p, h_s_ptr) = h_s /\ h_s = p * B + (B - 1 - h_s_ptr)
    BY BAssumption DEF IInv, TypeOK, CursorInStep, Scan, Address
  <1>2. PICK skips \in IF h_s_ptr = 0 /\ ~taken
                       THEN Skips(p, h_s, rows[r].end, ip_hash \cup {h_s}) ELSE {0} :
           /\ ip_hash' = (ip_hash \cup {h_s}) \cup UNION {Byte(p + k) : k \in 1..skips}
           /\ ip_hash_p' = IF h_s_ptr = 0 THEN p + 1 + skips ELSE p
           /\ h_s' = h_s + B * skips + 1
           /\ h_s_ptr' = NextShift(h_s_ptr)
    BY <1>1 DEF Scan
  <1>3. /\ skips \in Nat
        /\ skips > 0 => /\ h_s_ptr = 0 /\ ~taken
                        /\ h_s + B * skips <= rows[r].end
                        /\ \A k \in 0..(skips - 1) : Byte(p + 1 + k) \cap ip_hash = {}
    <2>1. CASE h_s_ptr = 0 /\ ~taken
      <3>1. skips \in Nat
        BY <1>2, <2>1 DEF Skips
      <3>2. \A k \in 0..(skips - 1) : /\ Byte(p + 1 + k) \cap (ip_hash \cup {h_s}) = {}
                                       /\ h_s + B * (k + 1) <= rows[r].end
        BY <1>2, <2>1 DEF Skips
      <3>3. skips > 0 => skips - 1 \in 0..(skips - 1) /\ (skips - 1) + 1 = skips
        BY <3>1
      <3> QED BY <2>1, <3>1, <3>2, <3>3
    <2>2. CASE ~(h_s_ptr = 0 /\ ~taken)
      BY <1>2, <2>2
    <2> QED BY <2>1, <2>2
  <1> HIDE DEF p
  <1>4. skips > 0 => (p + 1) * B = h_s + 1
    BY <1>1, <1>3
  <1>5. skips * B = B * skips /\ B * skips \in Nat
    BY <1>1, <1>3
  <1>6. UNION {Byte(p + k) : k \in 1..skips} = (h_s + 1)..(h_s + B * skips)
    <2>1. CASE skips = 0
      <3>1. B * skips = 0
        BY <1>1, <2>1
      <3>2. (h_s + 1)..(h_s + B * skips) = {} /\ 1..skips = {}
        BY <1>1, <2>1, <3>1
      <3> QED BY <3>2
    <2>2. CASE skips > 0
      <3>1. UNION {Byte(p + k) : k \in 1..skips} = ((p + 1) * B)..((p + 1) * B + skips * B - 1)
        BY <1>1, <1>3, BytesBehind
      <3>2. (p + 1) * B + skips * B - 1 = h_s + B * skips
        BY <1>1, <1>4, <1>5, <2>2
      <3> QED BY <1>4, <2>2, <3>1, <3>2
    <2> QED BY <1>3, <2>1, <2>2
  <1>7. h_s' - 1 = h_s + B * skips /\ h_s' \in Nat
    BY <1>1, <1>2, <1>5
  <1>8. ip_hash' = ip_hash \cup h_s..(h_s' - 1)
    <2>1. h_s..(h_s' - 1) = {h_s} \cup (h_s + 1)..(h_s + B * skips)
      BY <1>1, <1>5, <1>7
    <2> QED BY <1>2, <1>6, <2>1
  <1>9. ((h_s + 1)..(h_s' - 1)) \cap ip_hash = {}
    <2>1. \A k \in 1..skips : Byte(p + k) \cap ip_hash = {}
      <3> SUFFICES ASSUME NEW k \in 1..skips PROVE Byte(p + k) \cap ip_hash = {}
        OBVIOUS
      <3>1. skips > 0 /\ k - 1 \in 0..(skips - 1) /\ p + 1 + (k - 1) = p + k
        BY <1>1, <1>3
      <3> QED BY <1>3, <3>1
    <2>2. (UNION {Byte(p + k) : k \in 1..skips}) \cap ip_hash = {}
      BY <2>1
    <2> QED BY <1>6, <1>7, <2>2
  <1>10. /\ ip_hash_p' \in Nat /\ h_s_ptr' \in 0..(B - 1) /\ B - 1 - h_s_ptr' \in Nat
         /\ h_s' = ip_hash_p' * B + (B - 1 - h_s_ptr')
    <2>1. CASE h_s_ptr = 0
      <3>1. ip_hash_p' = p + 1 + skips /\ h_s_ptr' = B - 1 /\ h_s = p * B + B - 1
        BY <1>1, <1>2, <2>1 DEF NextShift, p
      <3>2. (p + 1 + skips) * B = p * B + B + B * skips
        BY <1>1, <1>3
      <3>3. p * B \in Nat
        BY <1>1
      <3>4. h_s' = (p + 1 + skips) * B
        BY <1>1, <1>2, <1>5, <3>1, <3>2, <3>3
      <3>5. (p + 1 + skips) * B \in Nat /\ B - 1 - (B - 1) = 0
        BY <1>1, <1>3
      <3> QED BY <1>1, <1>3, <3>1, <3>4, <3>5
    <2>2. CASE h_s_ptr # 0
      <3>1. skips = 0 /\ ip_hash_p' = p /\ h_s_ptr' = h_s_ptr - 1 /\ B * skips = 0
        BY <1>1, <1>2, <2>2 DEF NextShift, p
      <3>2. p * B \in Nat
        BY <1>1
      <3> QED BY <1>1, <1>2, <2>2, <3>1, <3>2
    <2> QED BY <2>1, <2>2
  <1>11. Address(ip_hash_p', h_s_ptr') = h_s'
    BY <1>10 DEF Address
  <1> DEFINE s == B * skips
  <1>12. /\ s \in Nat /\ h_s' = h_s + s + 1 /\ (skips = 0 => s = 0)
         /\ skips > 0 => ~taken /\ h_s + s <= rows[r].end
    <2>1. s \in Nat /\ (skips = 0 => s = 0)
      BY <1>1, <1>3, <1>5
    <2>2. skips > 0 => ~taken /\ h_s + s <= rows[r].end
      BY <1>3
    <2> QED BY <1>2, <2>1, <2>2
  <1>13. skips \in Nat
    BY <1>3
  <1>14. ip_hash_p' \in Nat /\ h_s_ptr' \in 0..(B - 1)
    BY <1>10
  <1>15. h_s \in Nat
    BY <1>1
  <1> HIDE DEF s
  <1>16. h_s' \in Nat /\ h_s < h_s'
    BY <1>12, <1>15
  <1>17. h_s' = h_s + 1 \/ (~taken /\ h_s' - 1 <= rows[r].end)
    <2>1. CASE skips = 0
      BY <1>12, <1>15, <2>1
    <2>2. CASE skips > 0
      <3>1. h_s' - 1 = h_s + s
        BY <1>12, <1>15
      <3> QED BY <1>12, <2>2, <3>1
    <2> QED BY <1>13, <2>1, <2>2
  <1> QED BY <1>8, <1>9, <1>11, <1>14, <1>16, <1>17

\* What an iteration does to the row's cursor, to the open stretch and to the
\* list: a stretch is closed, opened or left as it is.
LEMMA ScanFacts ==
    ASSUME IInv, Scan
    PROVE  /\ rows' = rows /\ r' = r /\ table' = table /\ myData' = myData
           /\ pc = "scan" /\ pc' = IF h_s' > MaxIP THEN "overrun" ELSE "scan"
           /\ h_s <= rows[r].end /\ last_taken' = (h_s \in ip_hash)
           /\ \/ /\ ~last_taken /\ h_s \in ip_hash
                 /\ dump_list' = Append(dump_list, Stretch(c_s, h_s - 1)) /\ c_s' = -1
              \/ /\ last_taken /\ h_s \notin ip_hash
                 /\ dump_list' = dump_list /\ c_s' = h_s
              \/ /\ last_taken = (h_s \in ip_hash)
                 /\ dump_list' = dump_list /\ c_s' = c_s
           /\ h_s' \in Nat /\ h_s < h_s'
           /\ ip_hash' = ip_hash \cup h_s..(h_s' - 1)
           /\ ((h_s + 1)..(h_s' - 1)) \cap ip_hash = {}
           /\ h_s' = h_s + 1 \/ (h_s \notin ip_hash /\ h_s' - 1 <= rows[r].end)
           /\ ip_hash_p' \in Nat /\ h_s_ptr' \in 0..(B - 1)
           /\ Address(ip_hash_p', h_s_ptr') = h_s'
           /\ Scanning /\ r \in Nat /\ r >= 1 /\ r <= Len(rows) /\ rows[r] \in Row
           /\ rows[r].start \in Nat /\ rows[r].end \in Nat /\ rows[r].end <= MaxIP
           /\ MaxIP \in Nat /\ rows[r].data \in Payloads
           /\ c_s \in Int /\ h_s \in Nat /\ dump_list \in Seq(Row) /\ ip_hash \subseteq Addr
           /\ h_s' <= rows[r].end + 1
           /\ h_s \notin ip_hash \/ h_s..(h_s' - 1) = {h_s}
           /\ h_s..(h_s' - 1) \subseteq Addr
           /\ h_s \notin ip_hash => h_s..(h_s' - 1) \cap ip_hash = {}
  <1> DEFINE taken == h_s \in ip_hash
             New == h_s..(h_s' - 1)
  <1>1. /\ rows' = rows /\ r' = r /\ table' = table /\ myData' = myData
        /\ pc = "scan" /\ pc' = IF h_s' > MaxIP THEN "overrun" ELSE "scan"
        /\ h_s <= rows[r].end /\ last_taken' = taken
    <2>1. Address(ip_hash_p, h_s_ptr) = h_s
      BY DEF IInv, CursorInStep, Scan
    <2> QED BY <2>1 DEF Scan, source
  <1>2. \/ /\ ~last_taken /\ taken
           /\ dump_list' = Append(dump_list, Stretch(c_s, h_s - 1)) /\ c_s' = -1
        \/ /\ last_taken /\ ~taken
           /\ dump_list' = dump_list /\ c_s' = h_s
        \/ /\ last_taken = taken
           /\ dump_list' = dump_list /\ c_s' = c_s
    <2>1. Address(ip_hash_p, h_s_ptr) = h_s
      BY DEF IInv, CursorInStep, Scan
    <2>2. h_s # c_s /\ last_taken \in BOOLEAN
      BY <1>1 DEF IInv, Scanning, TypeOK
    <2> QED BY <2>1, <2>2 DEF Scan, Turns, Push, LastFree, dump
  <1>3. /\ h_s' \in Nat /\ h_s < h_s'
        /\ ip_hash' = ip_hash \cup New
        /\ ((h_s + 1)..(h_s' - 1)) \cap ip_hash = {}
        /\ h_s' = h_s + 1 \/ (~taken /\ h_s' - 1 <= rows[r].end)
        /\ ip_hash_p' \in Nat /\ h_s_ptr' \in 0..(B - 1)
        /\ Address(ip_hash_p', h_s_ptr') = h_s'
    BY ScanStep
  <1>4. /\ Scanning /\ r \in Nat /\ r >= 1 /\ r <= Len(rows) /\ rows[r] \in Row
        /\ rows[r].start \in Nat /\ rows[r].end \in Nat /\ rows[r].end <= MaxIP
        /\ MaxIP \in Nat /\ rows[r].data \in Payloads
        /\ c_s \in Int /\ h_s \in Nat /\ dump_list \in Seq(Row) /\ ip_hash \subseteq Addr
    <2>1. Scanning /\ r \in Nat /\ r >= 1 /\ r <= Len(rows) /\ Len(rows) \in Nat
      BY <1>1, LenProperties DEF IInv, Scanning, TypeOK
    <2>2. rows[r] \in Row
      BY <2>1, ElementOfSeq DEF IInv
    <2> QED BY <2>1, <2>2, RowFacts, MaxIPAssumption DEF IInv, TypeOK, Row
  <1>5. /\ h_s' \in Nat /\ h_s' > h_s /\ h_s' <= rows[r].end + 1
        /\ ~taken \/ New = {h_s}
    <2>1. /\ h_s' \in Nat /\ h_s' > h_s
          /\ h_s' = h_s + 1 \/ (~taken /\ h_s' - 1 <= rows[r].end)
      BY <1>3, <1>4
    <2>2. h_s \in Nat /\ rows[r].end \in Nat /\ h_s <= rows[r].end
      BY <1>1, <1>4
    <2>3. h_s' <= rows[r].end + 1
      BY <2>1, <2>2
    <2>4. h_s' = h_s + 1 => New = {h_s}
      BY <2>2
    <2> QED BY <2>1, <2>3, <2>4
  <1>6. New \subseteq Addr /\ (~taken => New \cap ip_hash = {})
    <2>1. New = {h_s} \cup (h_s + 1)..(h_s' - 1)
      BY <1>4, <1>5
    <2>2. New \subseteq Addr
      <3>1. h_s \in Nat /\ h_s' \in Nat /\ h_s' <= MaxIP + 1 /\ MaxIP \in Nat
        BY <1>4, <1>5
      <3> QED BY <3>1, OneBehind DEF Addr
    <2> QED BY <1>3, <2>1, <2>2
  <1> QED BY <1>1, <1>2, <1>3, <1>4, <1>5, <1>6

LEMMA ScanInv ==
    ASSUME IInv, Scan
    PROVE  IInv'
  <1> DEFINE taken == h_s \in ip_hash
             New == h_s..(h_s' - 1)
  <1>1. /\ rows' = rows /\ r' = r /\ table' = table /\ myData' = myData
        /\ pc = "scan" /\ pc' = IF h_s' > MaxIP THEN "overrun" ELSE "scan"
        /\ h_s <= rows[r].end /\ last_taken' = taken
    BY ScanFacts
  <1>2. \/ /\ ~last_taken /\ taken
           /\ dump_list' = Append(dump_list, Stretch(c_s, h_s - 1)) /\ c_s' = -1
        \/ /\ last_taken /\ ~taken
           /\ dump_list' = dump_list /\ c_s' = h_s
        \/ /\ last_taken = taken
           /\ dump_list' = dump_list /\ c_s' = c_s
    BY ScanFacts
  <1>3. /\ h_s' \in Nat /\ h_s < h_s'
        /\ ip_hash' = ip_hash \cup New
        /\ ((h_s + 1)..(h_s' - 1)) \cap ip_hash = {}
        /\ h_s' = h_s + 1 \/ (~taken /\ h_s' - 1 <= rows[r].end)
        /\ ip_hash_p' \in Nat /\ h_s_ptr' \in 0..(B - 1)
        /\ Address(ip_hash_p', h_s_ptr') = h_s'
    BY ScanFacts
  <1>4. /\ Scanning /\ r \in Nat /\ r >= 1 /\ r <= Len(rows) /\ rows[r] \in Row
        /\ rows[r].start \in Nat /\ rows[r].end \in Nat /\ rows[r].end <= MaxIP
        /\ MaxIP \in Nat /\ rows[r].data \in Payloads
        /\ c_s \in Int /\ h_s \in Nat /\ dump_list \in Seq(Row) /\ ip_hash \subseteq Addr
    BY ScanFacts
  <1>5. /\ h_s' \in Nat /\ h_s' > h_s /\ h_s' <= rows[r].end + 1
        /\ ~taken \/ New = {h_s}
    BY ScanFacts
  <1>6. New \subseteq Addr /\ (~taken => New \cap ip_hash = {})
    BY ScanFacts
  <1>7. ip_hash_p' <= (MaxIP + 1) \div B
    <2>1. ip_hash_p' * B <= MaxIP + 1
      <3> DEFINE p == ip_hash_p' * B
      <3>1. p \in Int
        BY <1>3, BAssumption
      <3>2. h_s' = p + (B - 1 - h_s_ptr') /\ B - 1 - h_s_ptr' \in Nat
        <4>1. B \in Nat /\ h_s_ptr' \in 0..(B - 1) /\ Address(ip_hash_p', h_s_ptr') = h_s'
          BY <1>3, BAssumption
        <4>2. h_s' = p + (B - 1 - h_s_ptr')
          BY <4>1 DEF Address
        <4>3. B - 1 - h_s_ptr' \in Nat
          BY <4>1, ShiftLeft
        <4> QED BY <4>2, <4>3
      <3>3. h_s' <= MaxIP + 1
        BY <1>4, <1>5
      <3> HIDE DEF p
      <3>4. p <= MaxIP + 1
        BY <1>4, <1>5, <3>1, <3>2, <3>3
      <3> QED BY <3>4 DEF p
    <2>2. MaxIP + 1 \in Nat /\ ip_hash_p' \in Nat
      BY <1>3, <1>4
    <2> QED BY <2>1, <2>2, BytesUpTo
  <1> HIDE DEF taken
  <1>8. BitmapExact'
    <2>1. ip_hash = Scanned(r - 1) \cup rows[r].start..(h_s - 1)
      BY <1>1 DEF IInv, BitmapExact
    <2>2. rows[r].start..(h_s' - 1) = rows[r].start..(h_s - 1) \cup New
      BY <1>4, <1>5 DEF Scanning
    <2>3. Scanned(r - 1)' = Scanned(r - 1)
      BY <1>1 DEF Scanned, RowAddrs
    <2>4. h_s' > MaxIP => h_s' - 1 = MaxIP
      <3>1. h_s' \in Nat /\ h_s' <= MaxIP + 1 /\ MaxIP \in Nat
        BY <1>4, <1>5
      <3> QED BY <3>1, OneBehind
    <2>5. ip_hash' = Scanned(r - 1) \cup rows[r].start..(h_s' - 1)
      BY <1>3, <2>1, <2>2
    <2> HIDE DEF New
    <2> QED BY <1>1, <2>3, <2>4, <2>5 DEF BitmapExact
  <1>9. /\ c_s' \in -1..MaxIP /\ dump_list' \in Seq(Row) /\ Found'
        /\ pc' = "scan" => Scanning'
    <2>1. TypeOK /\ Found
      BY DEF IInv
    <2>5. /\ r' <= Len(rows') /\ rows'[r'].start <= h_s' /\ h_s' <= rows'[r'].end + 1
          /\ rows' = rows /\ r' = r
      <3>1. /\ rows[r].start \in Nat /\ h_s \in Nat /\ h_s' \in Nat
            /\ rows[r].start <= h_s /\ h_s < h_s' /\ h_s' <= rows[r].end + 1 /\ r <= Len(rows)
        BY <1>4, <1>5 DEF Scanning
      <3>2. rows[r].start <= h_s'
        BY <3>1
      <3> QED BY <1>1, <3>1, <3>2
    <2>2. CASE /\ ~last_taken /\ taken
               /\ dump_list' = Append(dump_list, Stretch(c_s, h_s - 1)) /\ c_s' = -1
      <3> DEFINE d == Stretch(c_s, h_s - 1)
      <3>1. c_s # -1 /\ rows[r].start <= c_s /\ c_s < h_s
        BY <1>4, <2>2 DEF Scanning
      <3>2. c_s \in Addr /\ h_s - 1 \in Addr /\ c_s <= h_s - 1
        BY <1>1, <1>4, <3>1 DEF Addr
      <3>3. d = [start |-> c_s, end |-> h_s - 1, data |-> rows[r].data]
        BY DEF Stretch
      <3>4. d \in Row /\ Span(d) = Open
        BY <1>4, <3>1, <3>2, <3>3 DEF Row, Span, Open
      <3>5. Open \subseteq ip_hash
        <4>1. ip_hash = Scanned(r - 1) \cup rows[r].start..(h_s - 1)
          BY <1>1 DEF IInv, BitmapExact
        <4>2. Open \subseteq rows[r].start..(h_s - 1)
          BY <1>4, <3>1 DEF Open
        <4> QED BY <4>1, <4>2
      <3>6. Open' = {}
        BY <2>2 DEF Open
      <3>7. \A i \in DOMAIN dump_list : Span(dump_list[i]) \cap Span(d) = {}
        BY <1>1, <2>1, <3>4 DEF Found
      <3>8. dump_list' = Append(dump_list, d)
        BY <2>2
      <3> HIDE DEF d, New
      <3>9. dump_list' \in Seq(Row) /\ Found'
        BY <1>3, <2>1, <3>4, <3>5, <3>6, <3>7, <3>8, OneMore
      <3>10. Scanning'
        <4>1. last_taken' = TRUE /\ c_s' = -1
          BY <1>1, <2>2
        <4> QED BY <2>5, <4>1 DEF Scanning
      <3> QED BY <1>4, <2>2, <3>9, <3>10
    <2>3. CASE last_taken /\ ~taken /\ dump_list' = dump_list /\ c_s' = h_s
      <3>1. c_s' \in -1..MaxIP /\ c_s' # -1
        BY <1>1, <1>4, <2>3
      <3>2. Open' = New
        BY <2>3, <3>1 DEF Open
      <3>3. Scanning'
        <4>1. last_taken' \in BOOLEAN /\ ~last_taken' /\ c_s' = h_s
          <5>1. last_taken' = taken /\ ~taken /\ c_s' = h_s
            BY <1>1, <2>3
          <5>2. taken \in BOOLEAN
            BY DEF taken
          <5> QED BY <5>1, <5>2, Zenon
        <4>2. rows[r].start <= h_s /\ h_s < h_s'
          BY <1>4, <1>5 DEF Scanning
        <4> QED BY <1>1, <2>5, <3>1, <4>1, <4>2 DEF Scanning
      <3>4. New \cap ip_hash = {} /\ ip_hash \subseteq ip_hash'
        BY <1>3, <1>6, <2>3
      <3> HIDE DEF New
      <3> QED BY <1>1, <2>1, <2>3, <3>1, <3>2, <3>3, <3>4, NoMore
    <2>4. CASE last_taken = taken /\ dump_list' = dump_list /\ c_s' = c_s
      <3>1. c_s' \in -1..MaxIP
        BY <2>4 DEF IInv, TypeOK
      <3>2. Scanning'
        <4>1. last_taken' = last_taken /\ c_s' = c_s /\ last_taken \in BOOLEAN
          BY <1>1, <1>4, <2>4 DEF Scanning
        <4>2. (last_taken <=> c_s = -1) /\ (c_s # -1 => rows[r].start <= c_s /\ c_s < h_s)
          BY <1>4 DEF Scanning
        <4>3. c_s # -1 => c_s < h_s'
          <5>1. c_s \in Int /\ h_s \in Nat /\ h_s' \in Nat /\ h_s < h_s'
            BY <1>4, <1>5
          <5> QED BY <4>2, <5>1
        <4> QED BY <1>1, <2>5, <4>1, <4>2, <4>3 DEF Scanning
      <3>3. CASE taken
        <4>1. c_s = -1 /\ Open' = {}
          BY <1>4, <2>4, <3>3 DEF Scanning, Open
        <4>2. ip_hash \subseteq ip_hash' /\ {} \cap ip_hash = {}
          BY <1>3
        <4> HIDE DEF New
        <4> QED BY <1>1, <2>1, <2>4, <3>1, <3>2, <4>1, <4>2, NoMore
      <3>4. CASE ~taken
        <4>1. c_s # -1 /\ c_s < h_s
          BY <1>4, <2>4, <3>4 DEF Scanning, taken
        <4>2. Open' = Open \cup New
          BY <1>4, <1>5, <2>4, <4>1 DEF Open
        <4>3. New \cap ip_hash = {} /\ ip_hash \subseteq ip_hash'
          BY <1>3, <1>6, <3>4
        <4> HIDE DEF New
        <4> QED BY <1>1, <2>1, <2>4, <3>1, <3>2, <4>2, <4>3, NoMore
      <3> QED BY <3>3, <3>4
    <2> QED BY <1>2, <2>2, <2>3, <2>4
  <1>10. TypeOK'
    <2> DEFINE last == (MaxIP + 1) \div B
    <2>1. ip_hash_p' <= last /\ last \in Nat
      BY <1>4, <1>7, Divided
    <2> HIDE DEF last
    <2>2. ip_hash_p' \in 0..last
      BY <1>3, <2>1
    <2>3. h_s' \in 0..(MaxIP + 1)
      BY <1>4, <1>5
    <2>4. ip_hash' \subseteq Addr
      BY <1>3, <1>4, <1>6
    <2>5. /\ rows' \in {<<>>, table'} /\ myData' \in {"null", "selected"}
          /\ r' \in 1..(Len(rows') + 1) /\ pc' \in {"scan", "overrun"}
      BY <1>1 DEF IInv, TypeOK
    <2> QED BY <1>3, <1>9, <2>2, <2>3, <2>4, <2>5 DEF TypeOK, last
  <1>11. CursorInStep'
    BY <1>3 DEF CursorInStep
  <1>12. Fresh' /\ rows' \in Seq(Row)
    BY <1>1 DEF IInv, Fresh
  <1> QED BY <1>8, <1>9, <1>10, <1>11, <1>12 DEF IInv

LEMMA NextInv == IInv /\ [Next]_vars => IInv'
  <1> SUFFICES ASSUME IInv, [Next]_vars PROVE IInv'
    OBVIOUS
  <1>1. CASE UNCHANGED vars
    <2>1. /\ table' = table /\ myData' = myData /\ rows' = rows /\ r' = r /\ h_s' = h_s
          /\ ip_hash_p' = ip_hash_p /\ h_s_ptr' = h_s_ptr /\ ip_hash' = ip_hash
          /\ last_taken' = last_taken /\ c_s' = c_s /\ dump_list' = dump_list /\ pc' = pc
      BY <1>1 DEF vars, source, scan, dump
    <2>2. TypeOK'
      BY <2>1 DEF IInv, TypeOK
    <2>3. BitmapExact' /\ CursorInStep'
      BY <2>1 DEF IInv, BitmapExact, Scanned, RowAddrs, CursorInStep, Address
    <2>4. Found' /\ Fresh' /\ (pc' = "scan" => Scanning')
      BY <2>1 DEF IInv, Found, Span, Open, Fresh, Scanning
    <2> QED BY <2>1, <2>2, <2>3, <2>4 DEF IInv
  <1> QED BY <1>1, ConnectingInv, QueryInv, FetchRowInv, ScanInv, FinishRowInv, WriteInv
          DEF Next

\* The inductive invariant of the export.
THEOREM Invariance == Spec => []IInv
  BY InitInv, NextInv, PTL DEF Spec
-----------------------------------------------------------------------------
\* The results.

\* Byte index and shift keep up with the address, also behind a skip
\* (main.cpp:203).
THEOREM CursorCorrect == Spec => []CursorInStep
  <1>1. IInv => CursorInStep
    BY DEF IInv
  <1> QED BY <1>1, Invariance, PTL

\* The bitmap holds the addresses of the scanned rows, and no other.
THEOREM BitmapCorrect == Spec => []BitmapExact
  <1>1. IInv => BitmapExact
    BY DEF IInv
  <1> QED BY <1>1, Invariance, PTL

\* Cursors, bitmap and list have their types: nothing is marked behind the last
\* address.
THEOREM TypeCorrect == Spec => []TypeOK
  <1>1. IInv => TypeOK
    BY DEF IInv
  <1> QED BY <1>1, Invariance, PTL

\* The ranges that are written never overlap.
THEOREM RangesAreDisjoint == Spec => []RangesDisjoint
  <1>1. IInv => RangesDisjoint
    <2> SUFFICES ASSUME IInv, NEW i \in DOMAIN dump_list, NEW j \in DOMAIN dump_list, i # j
                 PROVE  \/ dump_list[i].end < dump_list[j].start
                        \/ dump_list[j].end < dump_list[i].start
      BY DEF RangesDisjoint
    <2>1. dump_list[i] \in Row /\ dump_list[j] \in Row
      BY LenProperties, ElementOfSeq DEF IInv, TypeOK
    <2>2. /\ dump_list[i].start \in Nat /\ dump_list[i].end \in Nat
          /\ dump_list[i].start <= dump_list[i].end
          /\ dump_list[j].start \in Nat /\ dump_list[j].end \in Nat
          /\ dump_list[j].start <= dump_list[j].end
      BY <2>1, RowFacts
    <2>3. Span(dump_list[i]) \cap Span(dump_list[j]) = {}
      BY DEF IInv, Found
    <2>4. \A a : ~(a \in Span(dump_list[i]) /\ a \in Span(dump_list[j]))
      BY <2>3
    <2>5. /\ dump_list[i].start \in Span(dump_list[i])
          /\ dump_list[j].start \in Span(dump_list[j])
      BY <2>2 DEF Span
    <2> QED BY <2>2, <2>4, <2>5 DEF Span
  <1> QED BY <1>1, Invariance, PTL

\* Rows are fetched from a database that has been selected, and from no other.
Connected == pc \in {"fetch", "scan", "overrun", "written"} => myData = "selected"

\* A file is written only when a database has been selected: the export does
\* not write over the old file with one that has no record (main.cpp:36).
THEOREM NoDatabaseLeavesTheFile == Spec => []NoDatabaseNoFile
  <1>1. Init => Connected
    BY DEF Init, Connected
  <1>2. IInv /\ Connected /\ [Next]_vars => Connected'
    <2> SUFFICES ASSUME IInv, Connected, [Next]_vars PROVE Connected'
      OBVIOUS
    <2>1. CASE NoServer
      BY <2>1 DEF NoServer, Connected
    <2>2. CASE Connect
      BY <2>2 DEF Connect, Connected
    <2>3. CASE SelectFails
      BY <2>3 DEF SelectFails, Connected
    <2>4. CASE Query
      BY <2>4 DEF Query, source, Connected, IInv, TypeOK
    <2>5. CASE FetchRow
      BY <2>5 DEF FetchRow, source, Connected
    <2>6. CASE Scan
      <3>1. pc = "scan" /\ myData' = myData
        BY <2>6 DEF Scan, source
      <3> QED BY <3>1 DEF Connected
    <2>7. CASE FinishRow
      <3>1. pc = "scan" /\ myData' = myData
        BY <2>7 DEF FinishRow, source
      <3> QED BY <3>1 DEF Connected
    <2>8. CASE Write
      BY <2>8 DEF Write, source, Connected
    <2>9. CASE UNCHANGED vars
      BY <2>9 DEF vars, source, Connected
    <2> QED BY <2>1, <2>2, <2>3, <2>4, <2>5, <2>6, <2>7, <2>8, <2>9 DEF Next
  <1>3. Connected => NoDatabaseNoFile
    BY DEF Connected, NoDatabaseNoFile
  <1> QED BY <1>1, <1>2, <1>3, Invariance, PTL DEF Spec
-----------------------------------------------------------------------------
(***************************************************************************)
(* Which row a range comes from.                                           *)
(***************************************************************************)
\* Row w has every address of range d, and no row before w has one of them.
Owner(d, w) ==
    /\ d.data = rows[w].data
    /\ Span(d) \subseteq RowAddrs(w)
    /\ Span(d) \cap Scanned(w - 1) = {}

\* Every range has an owner, the open stretch has no address of an earlier row,
\* and every taken address is in a range or in the open stretch.
Owned ==
    /\ \A i \in DOMAIN dump_list : \E w \in 1..Len(rows) : Owner(dump_list[i], w)
    /\ pc = "scan" => Open \cap Scanned(r - 1) = {}
    /\ pc \in {"fetch", "scan"} =>
          \A a \in ip_hash : \/ pc = "scan" /\ a \in Open
                             \/ \E i \in DOMAIN dump_list : a \in Span(dump_list[i])

\* The invariant that the theorem about the file needs.
OInv == IInv /\ Owned /\ NarrowestRowWins

LEMMA InitOwned == Init => Owned /\ NarrowestRowWins
  <1> SUFFICES ASSUME Init PROVE Owned /\ NarrowestRowWins
    OBVIOUS
  <1>1. pc = "connect" /\ dump_list = <<>> /\ DOMAIN dump_list = {}
    BY EmptySeq DEF Init
  <1> QED BY <1>1 DEF Owned, NarrowestRowWins


\* The open stretch, of the row that is scanned, has that row as its owner.
LEMMA StretchOwned ==
    ASSUME NEW d, r \in 1..Len(rows), d.data = rows[r].data,
           Span(d) = Open, Open \subseteq RowAddrs(r), Open \cap Scanned(r - 1) = {}
    PROVE  \E w \in 1..Len(rows) : Owner(d, w)
  BY DEF Owner

\* A range that has an owner is appended; the taken addresses are in ranges.
LEMMA OwnedMore ==
    ASSUME Owned, dump_list \in Seq(Row), rows' = rows, r' \in {r, r + 1}, pc = "scan",
           NEW d \in Row, Span(d) = Open, \E w \in 1..Len(rows) : Owner(d, w),
           dump_list' = Append(dump_list, d),
           pc' = "scan" => Open' = {}, pc' \in {"fetch", "scan"} => ip_hash' = ip_hash
    PROVE  Owned'
  <1> DEFINE n == Len(dump_list)
  <1>1. n \in Nat /\ DOMAIN dump_list = 1..n
    BY LenProperties
  <1>2. /\ dump_list' \in Seq(Row) /\ DOMAIN dump_list' = 1..(n + 1)
        /\ dump_list'[n + 1] = d
        /\ \A i \in 1..n : dump_list'[i] = dump_list[i]
    BY <1>1, AppendProperties, LenProperties
  <1> HIDE DEF n
  <1>3. \A i \in 1..(n + 1) : i \in 1..n \/ i = n + 1
    BY <1>1
  <1>4. 1..n \subseteq 1..(n + 1) /\ n + 1 \in 1..(n + 1)
    BY <1>1
  <1>5. ASSUME NEW i \in 1..(n + 1)
        PROVE  \E w \in 1..Len(rows) : Owner(dump_list'[i], w)
    <2>1. CASE i \in 1..n
      BY <1>1, <1>2, <2>1 DEF Owned
    <2>2. CASE i = n + 1
      BY <1>2, <2>2
    <2> QED BY <1>3, <2>1, <2>2
  <1>6. ASSUME pc' \in {"fetch", "scan"}, NEW a \in ip_hash
        PROVE  \E i \in 1..(n + 1) : a \in Span(dump_list'[i])
    <2>1. CASE a \in Open
      BY <1>2, <1>4, <2>1
    <2>2. CASE \E i \in 1..n : a \in Span(dump_list[i])
      BY <1>2, <1>4, <2>2
    <2> QED BY <1>1, <2>1, <2>2 DEF Owned
  <1>7. \A i, w : Owner(dump_list[i], w)' <=> Owner(dump_list'[i], w)
    BY DEF Owner, Span, RowAddrs, Scanned
  <1>8. \A i \in DOMAIN dump_list' : \E w \in 1..Len(rows') : Owner(dump_list[i], w)'
    BY <1>2, <1>5, <1>7
  <1>9. pc' \in {"fetch", "scan"} =>
          \A a \in ip_hash' : \E i \in DOMAIN dump_list' : a \in Span(dump_list[i])'
    BY <1>2, <1>6 DEF Span
  <1> QED BY <1>8, <1>9 DEF Owned

\* No range is added.
LEMMA OwnedSame ==
    ASSUME Owned, rows' = rows, dump_list' = dump_list,
           pc' = "scan" => (Open \cap Scanned(r - 1) = {})',
           pc' \in {"fetch", "scan"} =>
              /\ pc \in {"fetch", "scan"}
              /\ \A a \in ip_hash' : \/ pc' = "scan" /\ a \in Open'
                                     \/ a \in ip_hash /\ ~(pc = "scan" /\ a \in Open)
    PROVE  Owned'
  <1>1. \A i \in DOMAIN dump_list' : \E w \in 1..Len(rows') : Owner(dump_list[i], w)'
    BY DEF Owned, Owner, Span, RowAddrs, Scanned
  <1>2. ASSUME pc' \in {"fetch", "scan"}, NEW a \in ip_hash'
        PROVE  \/ pc' = "scan" /\ a \in Open'
               \/ \E i \in DOMAIN dump_list' : a \in Span(dump_list[i])'
    <2>1. \/ pc' = "scan" /\ a \in Open'
          \/ \E i \in DOMAIN dump_list : a \in Span(dump_list[i])
      BY <1>2 DEF Owned
    <2> QED BY <2>1 DEF Span
  <1> QED BY <1>1, <1>2 DEF Owned

LEMMA ScanOwned == OInv /\ Scan => Owned'
  <1> SUFFICES ASSUME OInv, Scan PROVE Owned'
    OBVIOUS
  <1> DEFINE New == h_s..(h_s' - 1)
  <1>1. IInv /\ Owned
    BY DEF OInv
  <1>2. /\ rows' = rows /\ r' = r /\ pc = "scan" /\ pc' \in {"scan", "overrun"}
        /\ h_s' \in Nat /\ h_s < h_s' /\ ip_hash' = ip_hash \cup New
        /\ h_s \notin ip_hash \/ New = {h_s}
        /\ h_s \notin ip_hash => New \cap ip_hash = {}
        /\ Scanning /\ r \in 1..Len(rows) /\ rows[r] \in Row /\ rows[r].data \in Payloads
        /\ rows[r].start \in Nat /\ rows[r].end \in Nat /\ rows[r].end <= MaxIP
        /\ MaxIP \in Nat /\ c_s \in Int /\ h_s \in Nat /\ dump_list \in Seq(Row)
        /\ h_s <= rows[r].end
    <2>1. r \in 1..Len(rows)
      <3>1. Len(rows) \in Nat
        BY <1>1, LenProperties DEF IInv
      <3>2. r \in Nat /\ r >= 1 /\ r <= Len(rows)
        BY <1>1, ScanFacts
      <3> QED BY <3>1, <3>2
    <2>2. pc' = IF h_s' > MaxIP THEN "overrun" ELSE "scan"
      BY <1>1, ScanFacts
    <2>3. pc' \in {"scan", "overrun"}
      BY <2>2
    <2> QED BY <1>1, <2>1, <2>3, ScanFacts
  <1>3. Scanned(r - 1)' = Scanned(r - 1) /\ Scanned(r - 1) \subseteq ip_hash
    <2>1. Scanned(r - 1)' = Scanned(r - 1)
      BY <1>2 DEF Scanned, RowAddrs
    <2>2. Scanned(r - 1) \subseteq ip_hash
      BY <1>1 DEF IInv, BitmapExact
    <2> QED BY <2>1, <2>2
  <1>4. Open \cap Scanned(r - 1) = {}
    BY <1>1, <1>2 DEF Owned
  <1>5. CASE /\ ~last_taken /\ h_s \in ip_hash
             /\ dump_list' = Append(dump_list, Stretch(c_s, h_s - 1)) /\ c_s' = -1
    <2> DEFINE d == Stretch(c_s, h_s - 1)
    <2>1. c_s # -1 /\ rows[r].start <= c_s /\ c_s < h_s
      BY <1>2, <1>5 DEF Scanning
    <2>2. c_s \in Addr /\ h_s - 1 \in Addr /\ c_s <= h_s - 1
      BY <1>2, <2>1 DEF Addr
    <2>3. d = [start |-> c_s, end |-> h_s - 1, data |-> rows[r].data]
      BY DEF Stretch
    <2>4. d \in Row /\ Span(d) = Open /\ d.data = rows[r].data
      BY <1>2, <2>1, <2>2, <2>3 DEF Row, Span, Open
    <2>5. Open \subseteq RowAddrs(r)
      BY <1>2, <2>1 DEF Open, RowAddrs
    <2> HIDE DEF d
    <2>6. \E w \in 1..Len(rows) : Owner(d, w)
      BY <1>2, <1>4, <2>4, <2>5, StretchOwned
    <2>7. Open' = {}
      BY <1>5 DEF Open
    <2>8. ip_hash' = ip_hash
      BY <1>2, <1>5
    <2>9. dump_list' = Append(dump_list, d)
      BY <1>5 DEF d
    <2> QED BY <1>1, <1>2, <2>4, <2>6, <2>7, <2>8, <2>9, OwnedMore
  <1>6. CASE last_taken /\ h_s \notin ip_hash /\ dump_list' = dump_list /\ c_s' = h_s
    <2>1. Open' = New /\ Open = {}
      BY <1>2, <1>6 DEF Open, Scanning
    <2>2. (Open \cap Scanned(r - 1) = {})'
      BY <1>2, <1>3, <1>6, <2>1
    <2> HIDE DEF New
    <2>3. \A a \in ip_hash' : a \in Open' \/ (a \in ip_hash /\ ~(a \in Open))
      BY <1>2, <2>1
    <2> QED BY <1>1, <1>2, <1>6, <2>1, <2>2, <2>3, OwnedSame DEF Owned
  <1>7. CASE last_taken = (h_s \in ip_hash) /\ dump_list' = dump_list /\ c_s' = c_s
    <2>1. CASE h_s \in ip_hash
      <3>1. Open' = {} /\ Open = {} /\ ip_hash' = ip_hash
        BY <1>2, <1>7, <2>1 DEF Open, Scanning
      <3>2. (Open \cap Scanned(r - 1) = {})'
        BY <3>1
      <3> QED BY <1>1, <1>2, <1>7, <3>1, <3>2, OwnedSame
    <2>2. CASE h_s \notin ip_hash
      <3>1. c_s # -1 /\ c_s < h_s
        BY <1>2, <1>7, <2>2 DEF Scanning
      <3>2. Open' = Open \cup New
        BY <1>2, <1>7, <3>1 DEF Open
      <3>3. (Open \cap Scanned(r - 1) = {})'
        BY <1>2, <1>3, <1>4, <2>2, <3>2
      <3> HIDE DEF New
      <3>4. \A a \in ip_hash' : a \in Open' \/ (a \in ip_hash /\ ~(a \in Open))
        BY <1>2, <3>2
      <3>5. pc' \in {"fetch", "scan"} =>
              /\ pc \in {"fetch", "scan"}
              /\ \A a \in ip_hash' : \/ pc' = "scan" /\ a \in Open'
                                     \/ a \in ip_hash /\ ~(pc = "scan" /\ a \in Open)
        BY <1>2, <3>4
      <3> QED BY <1>1, <1>2, <1>7, <3>3, <3>5, OwnedSame
    <2> QED BY <2>1, <2>2
  <1>8. \/ /\ ~last_taken /\ h_s \in ip_hash
           /\ dump_list' = Append(dump_list, Stretch(c_s, h_s - 1)) /\ c_s' = -1
        \/ /\ last_taken /\ h_s \notin ip_hash
           /\ dump_list' = dump_list /\ c_s' = h_s
        \/ /\ last_taken = (h_s \in ip_hash)
           /\ dump_list' = dump_list /\ c_s' = c_s
    BY <1>1, ScanFacts
  <1> QED BY <1>5, <1>6, <1>7, <1>8

LEMMA FinishRowOwned == OInv /\ FinishRow => Owned'
  <1> SUFFICES ASSUME OInv, FinishRow PROVE Owned'
    OBVIOUS
  <1>1. IInv /\ Owned
    BY DEF OInv
  <1>2. /\ rows' = rows /\ r' = r + 1 /\ ip_hash' = ip_hash
        /\ pc = "scan" /\ pc' = "fetch" /\ h_s > rows[r].end
        /\ dump_list' = IF c_s # -1 THEN Append(dump_list, Stretch(c_s, rows[r].end))
                        ELSE dump_list
    BY DEF FinishRow, Push, scan, dump
  <1>3. Scanning /\ r \in 1..Len(rows) /\ rows[r] \in Row /\ dump_list \in Seq(Row)
    <2>1. Len(rows) \in Nat /\ r \in Nat /\ r >= 1 /\ Scanning /\ dump_list \in Seq(Row)
      BY <1>1, <1>2, LenProperties DEF IInv, TypeOK
    <2>2. r \in 1..Len(rows)
      BY <2>1 DEF Scanning
    <2> QED BY <1>1, <2>1, <2>2, ElementOfSeq DEF IInv
  <1>4. /\ h_s = rows[r].end + 1 /\ rows[r].start \in Nat /\ rows[r].end \in Nat
        /\ rows[r].end <= MaxIP /\ MaxIP \in Nat /\ rows[r].data \in Payloads /\ c_s \in Int
    <2>1. /\ rows[r].start \in Nat /\ rows[r].end \in Nat /\ rows[r].end <= MaxIP
          /\ MaxIP \in Nat /\ rows[r].data \in Payloads
      BY <1>3, RowFacts, MaxIPAssumption DEF Row
    <2>2. h_s \in Nat /\ c_s \in Int /\ h_s <= rows[r].end + 1
      BY <1>1, <1>3, <2>1 DEF Scanning, IInv, TypeOK
    <2> QED BY <1>2, <2>1, <2>2
  <1>5. CASE c_s = -1
    <2>1. Open = {} /\ dump_list' = dump_list
      BY <1>2, <1>5 DEF Open
    <2> QED BY <1>1, <1>2, <2>1, OwnedSame
  <1>6. CASE c_s # -1
    <2> DEFINE d == Stretch(c_s, rows[r].end)
    <2>1. rows[r].start <= c_s /\ c_s <= rows[r].end /\ c_s \in Addr /\ rows[r].end \in Addr
      <3>1. rows[r].start <= c_s /\ c_s < h_s
        BY <1>3, <1>6 DEF Scanning
      <3> QED BY <1>4, <3>1 DEF Addr
    <2>2. d = [start |-> c_s, end |-> rows[r].end, data |-> rows[r].data]
      BY DEF Stretch
    <2>3. d \in Row /\ Span(d) = Open /\ d.data = rows[r].data
      BY <1>4, <1>6, <2>1, <2>2 DEF Row, Span, Open
    <2>4. Open \subseteq RowAddrs(r)
      BY <1>4, <1>6, <2>1 DEF Open, RowAddrs
    <2>5. Open \cap Scanned(r - 1) = {}
      BY <1>1, <1>2 DEF Owned
    <2> HIDE DEF d
    <2>6. \E w \in 1..Len(rows) : Owner(d, w)
      BY <1>3, <2>3, <2>4, <2>5, StretchOwned
    <2>7. dump_list' = Append(dump_list, d)
      BY <1>2, <1>6 DEF d
    <2> QED BY <1>1, <1>2, <1>3, <2>3, <2>6, <2>7, OwnedMore
  <1> QED BY <1>5, <1>6

LEMMA OwnedInv == OInv /\ [Next]_vars => Owned'
  <1> SUFFICES ASSUME OInv, [Next]_vars PROVE Owned'
    OBVIOUS
  <1>1. IInv /\ Owned
    BY DEF OInv
  <1>2. CASE NoServer \/ Connect \/ SelectFails
    <2>1. /\ rows' = rows /\ dump_list' = dump_list /\ pc' \in {"query", "failed"}
      BY <1>2 DEF NoServer, Connect, SelectFails, dump
    <2> QED BY <1>1, <2>1, OwnedSame
  <1>3. CASE Query
    <2>1. dump_list' = <<>> /\ ip_hash' = {} /\ pc' # "scan"
      BY <1>1, <1>3 DEF Query, dump, scan, IInv, Fresh
    <2>2. DOMAIN dump_list' = {}
      BY <2>1, EmptySeq
    <2> QED BY <2>1, <2>2 DEF Owned
  <1>4. CASE FetchRow
    <2>1. /\ rows' = rows /\ dump_list' = dump_list /\ ip_hash' = ip_hash
          /\ pc = "fetch" /\ pc' = "scan" /\ c_s' = -1
      BY <1>4 DEF FetchRow, dump
    <2>2. Open' = {}
      BY <2>1 DEF Open
    <2>3. (Open \cap Scanned(r - 1) = {})'
      BY <2>2
    <2> QED BY <1>1, <2>1, <2>3, OwnedSame
  <1>5. CASE Write
    <2>1. /\ rows' = rows /\ dump_list' = dump_list /\ pc' \in {"written", "failed"}
      BY <1>5 DEF Write, dump
    <2> QED BY <1>1, <2>1, OwnedSame
  <1>6. CASE UNCHANGED vars
    <2>1. /\ rows' = rows /\ r' = r /\ h_s' = h_s /\ ip_hash' = ip_hash
          /\ c_s' = c_s /\ dump_list' = dump_list /\ pc' = pc
      BY <1>6 DEF vars, source, scan, dump
    <2> QED BY <1>1, <2>1 DEF Owned, Owner, Span, Open, Scanned, RowAddrs
  <1> QED BY <1>2, <1>3, <1>4, <1>5, <1>6, ScanOwned, FinishRowOwned DEF Next

\* What qsort leaves: every range of the list once, by their starts.
LEMMA SortedFacts ==
    ASSUME NEW list \in Seq(Row), NEW out \in Sorted(list)
    PROVE  /\ Len(list) \in Nat /\ DOMAIN out = 1..Len(list) /\ Len(out) = Len(list)
           /\ \A k \in 1..Len(list) : out[k] \in Row
           /\ \E p \in [1..Len(list) -> 1..Len(list)] :
                /\ \A j, k \in 1..Len(list) : p[j] = p[k] => j = k
                /\ \A i \in 1..Len(list) : \E k \in 1..Len(list) : p[k] = i
                /\ \A k \in 1..Len(list) : out[k] = list[p[k]]
                /\ \A j, k \in 1..Len(list) : j < k => out[j].start <= out[k].start
  <1> DEFINE n == Len(list)
  <1>1. n \in Nat /\ DOMAIN list = 1..n /\ \A i \in 1..n : list[i] \in Row
    BY LenProperties, ElementOfSeq
  <1> HIDE DEF n
  <1>2. PICK p \in Bijection(1..n, 1..n) :
           /\ \A j, k \in 1..n : j < k => ~Compare(list[p[k]], list[p[j]])
           /\ out = [k \in 1..n |-> list[p[k]]]
    BY <1>1 DEF Sorted
  <1>3. /\ p \in [1..n -> 1..n]
        /\ \A j, k \in 1..n : p[j] = p[k] => j = k
        /\ \A i \in 1..n : \E k \in 1..n : p[k] = i
    BY DEF Bijection, Injection, Surjection, IsInjective
  <1>4. /\ DOMAIN out = 1..n
        /\ \A k \in 1..n : out[k] = list[p[k]] /\ out[k] \in Row
    BY <1>1, <1>2, <1>3
  <1>5. Len(out) = n
    <2>1. out \in [1..n -> Row]
      BY <1>2, <1>4
    <2>2. out \in Seq(Row)
      BY <1>1, <2>1, SeqDef
    <2> QED BY <1>1, <1>4, <2>2, LenProperties
  <1>6. ASSUME NEW j \in 1..n, NEW k \in 1..n, j < k
        PROVE  out[j].start <= out[k].start
    <2>1. ~(out[k].start < out[j].start)
      BY <1>2, <1>4, <1>6 DEF Compare
    <2>2. out[j].start \in Nat /\ out[k].start \in Nat
      BY <1>4, RowFacts
    <2> QED BY <2>1, <2>2
  <1>7. \E q \in [1..n -> 1..n] :
           /\ \A j, k \in 1..n : q[j] = q[k] => j = k
           /\ \A i \in 1..n : \E k \in 1..n : q[k] = i
           /\ \A k \in 1..n : out[k] = list[q[k]]
           /\ \A j, k \in 1..n : j < k => out[j].start <= out[k].start
    BY <1>3, <1>4, <1>6
  <1> QED BY <1>1, <1>4, <1>5, <1>7 DEF n

\* Disjoint ranges in the order of their starts are a data file.
LEMMA OutputIsDataFile ==
    ASSUME IInv, NEW list \in Sorted(dump_list)
    PROVE  IsDataFile(Output(list))
  <1> DEFINE n == Len(dump_list)
             f == Output(list)
  <1>1. dump_list \in Seq(Row) /\ n \in Nat /\ DOMAIN dump_list = 1..n
    BY LenProperties DEF IInv, TypeOK
  <1>2. /\ Len(dump_list) \in Nat /\ DOMAIN list = 1..Len(dump_list)
        /\ Len(list) = Len(dump_list)
        /\ \A k \in 1..Len(dump_list) : list[k] \in Row
        /\ \E p \in [1..Len(dump_list) -> 1..Len(dump_list)] :
             /\ \A j, k \in 1..Len(dump_list) : p[j] = p[k] => j = k
             /\ \A i \in 1..Len(dump_list) : \E k \in 1..Len(dump_list) : p[k] = i
             /\ \A k \in 1..Len(dump_list) : list[k] = dump_list[p[k]]
             /\ \A j, k \in 1..Len(dump_list) : j < k => list[j].start <= list[k].start
    <2> HIDE DEF n
    <2> QED BY <1>1, SortedFacts
  <1>3. PICK p \in [1..n -> 1..n] :
             /\ \A j, k \in 1..n : p[j] = p[k] => j = k
             /\ \A k \in 1..n : list[k] = dump_list[p[k]]
             /\ \A j, k \in 1..n : j < k => list[j].start <= list[k].start
    BY <1>2
  <1>4. n \in Nat /\ DOMAIN list = 1..n /\ Len(list) = n /\ \A k \in 1..n : list[k] \in Row
    BY <1>2
  <1> HIDE DEF n
  <1>5. \A k \in 1..n : /\ list[k].start \in Addr /\ list[k].end \in Addr
                         /\ list[k].data \in Payloads /\ list[k].start <= list[k].end
    BY <1>4 DEF Row
  <1>6. ASSUME NEW j \in 1..n, NEW k \in 1..n, j < k
        PROVE  list[j].end < list[k].start
    <2>1. p[j] \in 1..n /\ p[k] \in 1..n /\ p[j] # p[k]
      BY <1>3, <1>6
    <2>2. Span(list[j]) \cap Span(list[k]) = {}
      BY <1>1, <1>3, <2>1 DEF IInv, Found
    <2>3. /\ list[j].start \in Nat /\ list[j].end \in Nat /\ list[j].start <= list[j].end
          /\ list[k].start \in Nat /\ list[k].end \in Nat /\ list[k].start <= list[k].end
      BY <1>4, RowFacts
    <2>4. list[j].start <= list[k].start
      BY <1>3, <1>6
    <2>5. list[k].start \in Span(list[k]) /\ list[k].start \notin Span(list[j])
      BY <2>2, <2>3 DEF Span
    <2> QED BY <2>3, <2>4, <2>5 DEF Span
  <1>7. /\ f.n = n /\ f.start = [k \in 1..n |-> list[k].start]
        /\ f.end = [k \in 1..n |-> list[k].end]
        /\ f.ptr = [k \in 1..n |-> 3 * n + k]
        /\ f.data = [k \in 1..n |-> list[k].data]
    BY <1>4 DEF Output
  <1> HIDE DEF f
  <1>8. /\ f.n \in Nat /\ f.start \in [1..f.n -> Addr] /\ f.end \in [1..f.n -> Addr]
        /\ f.ptr = [k \in 1..f.n |-> 3 * f.n + k] /\ f.data \in [1..f.n -> Payloads]
    BY <1>1, <1>5, <1>7
  <1>9. \A k \in 1..f.n : f.start[k] <= f.end[k]
    BY <1>5, <1>7
  <1>10. \A j, k \in 1..f.n : j < k => f.end[j] < f.start[k]
    BY <1>6, <1>7
  <1>11. IsDataFile(f)
    BY <1>8, <1>9, <1>10 DEF IsDataFile
  <1> QED BY <1>11 DEF f

\* The rows that have an address, and the first of them.
Having(a) == {i \in DOMAIN rows : a \in RowAddrs(i)}
FirstHaving(a) == {i \in Having(a) : \A j \in Having(a) : i <= j}

\* The owner of a range is the first row that has an address of the range.
LEMMA OwnerIsFirst ==
    ASSUME rows \in Seq(Row), NEW d, NEW w \in 1..Len(rows), Owner(d, w), NEW a \in Span(d)
    PROVE  FirstHaving(a) = {w}
  <1>1. Len(rows) \in Nat /\ DOMAIN rows = 1..Len(rows)
    BY LenProperties
  <1>2. w \in Having(a)
    BY <1>1 DEF Owner, Having
  <1>3. ASSUME NEW j \in Having(a) PROVE w <= j
    <2>1. j \in 1..Len(rows) /\ a \in RowAddrs(j)
      BY <1>1 DEF Having
    <2>2. ~(j \in 1..(w - 1))
      BY <2>1 DEF Owner, Scanned
    <2> QED BY <1>1, <2>1, <2>2
  <1>4. ASSUME NEW i \in FirstHaving(a) PROVE i = w
    <2>1. i <= w /\ w <= i /\ i \in 1..Len(rows)
      BY <1>1, <1>2, <1>3 DEF FirstHaving, Having
    <2> QED BY <1>1, <2>1
  <1> QED BY <1>2, <1>3, <1>4 DEF FirstHaving

\* The list that is written gives every address to the first row that has it.
LEMMA OutputIsRight ==
    ASSUME IInv, Owned, pc = "fetch", r > Len(rows), NEW list \in Sorted(dump_list), NEW a \in Addr
    PROVE  {Output(list).data[k] : k \in {k \in 1..Output(list).n : Covers(Output(list), k, a)}}
              = {rows[i].data : i \in FirstHaving(a)}
  <1> DEFINE n == Len(dump_list)
             f == Output(list)
  <1>1. dump_list \in Seq(Row) /\ n \in Nat /\ DOMAIN dump_list = 1..n
    BY LenProperties DEF IInv, TypeOK
  <1>2. /\ Len(dump_list) \in Nat /\ DOMAIN list = 1..Len(dump_list)
        /\ Len(list) = Len(dump_list)
        /\ \A k \in 1..Len(dump_list) : list[k] \in Row
        /\ \E p \in [1..Len(dump_list) -> 1..Len(dump_list)] :
             /\ \A j, k \in 1..Len(dump_list) : p[j] = p[k] => j = k
             /\ \A i \in 1..Len(dump_list) : \E k \in 1..Len(dump_list) : p[k] = i
             /\ \A k \in 1..Len(dump_list) : list[k] = dump_list[p[k]]
             /\ \A j, k \in 1..Len(dump_list) : j < k => list[j].start <= list[k].start
    <2> HIDE DEF n
    <2> QED BY <1>1, SortedFacts
  <1>3. PICK p \in [1..n -> 1..n] :
             /\ \A i \in 1..n : \E k \in 1..n : p[k] = i
             /\ \A k \in 1..n : list[k] = dump_list[p[k]]
    BY <1>2
  <1>4. n \in Nat /\ DOMAIN list = 1..n /\ Len(list) = n /\ \A k \in 1..n : list[k] \in Row
    BY <1>2
  <1> HIDE DEF n
  <1>5. /\ f.n = n
        /\ \A k \in 1..n : f.data[k] = list[k].data /\ (Covers(f, k, a) <=> a \in Span(list[k]))
    <2>1. /\ f.n = n /\ f.start = [k \in 1..n |-> list[k].start]
          /\ f.end = [k \in 1..n |-> list[k].end]
          /\ f.data = [k \in 1..n |-> list[k].data]
      BY <1>4 DEF Output
    <2>2. \A k \in 1..n : list[k].start \in Nat /\ list[k].end \in Nat
      BY <1>4, RowFacts
    <2>3. a \in Nat
      BY MaxIPAssumption DEF Addr
    <2> HIDE DEF f
    <2> QED BY <2>1, <2>2, <2>3 DEF Covers, Span
  <1>6. rows \in Seq(Row) /\ Len(rows) \in Nat /\ DOMAIN rows = 1..Len(rows) /\ r = Len(rows) + 1
    BY LenProperties DEF IInv, TypeOK
  <1>7. ASSUME NEW k \in 1..n, a \in Span(list[k])
        PROVE  \E w \in 1..Len(rows) : FirstHaving(a) = {w} /\ list[k].data = rows[w].data
    <2>1. PICK w \in 1..Len(rows) : Owner(list[k], w)
      BY <1>1, <1>3 DEF Owned
    <2>2. FirstHaving(a) = {w}
      BY <1>6, <1>7, <2>1, OwnerIsFirst
    <2> QED BY <2>1, <2>2 DEF Owner
  <1>8. ASSUME NEW i \in FirstHaving(a)
        PROVE  \E k \in 1..n : a \in Span(list[k])
    <2>1. i \in 1..Len(rows) /\ a \in RowAddrs(i)
      BY <1>6 DEF FirstHaving, Having
    <2>2. ip_hash = Scanned(Len(rows))
      <3>1. r - 1 = Len(rows)
        BY <1>6
      <3> QED BY <3>1 DEF IInv, BitmapExact
    <2>3. a \in ip_hash
      BY <2>1, <2>2 DEF Scanned
    <2>4. PICK m \in 1..n : a \in Span(dump_list[m])
      BY <1>1, <2>3 DEF Owned
    <2> QED BY <1>3, <2>4
  <1> HIDE DEF f
  <1>9. {f.data[k] : k \in {k \in 1..f.n : Covers(f, k, a)}} = {rows[i].data : i \in FirstHaving(a)}
    <2>1. ASSUME NEW k \in 1..n, Covers(f, k, a)
          PROVE  \E i \in FirstHaving(a) : f.data[k] = rows[i].data
      BY <1>5, <1>7, <2>1
    <2>2. ASSUME NEW i \in FirstHaving(a)
          PROVE  \E k \in 1..n : Covers(f, k, a) /\ f.data[k] = rows[i].data
      <3>1. PICK k \in 1..n : a \in Span(list[k])
        BY <1>8
      <3>2. PICK w \in 1..Len(rows) : FirstHaving(a) = {w} /\ list[k].data = rows[w].data
        BY <1>7, <3>1
      <3>3. i = w
        BY <3>2
      <3> QED BY <1>5, <3>1, <3>2, <3>3
    <2> QED BY <1>5, <2>1, <2>2
  <1> QED BY <1>9 DEF f

LEMMA FileInv == OInv /\ [Next]_vars => NarrowestRowWins'
  <1> SUFFICES ASSUME OInv, [Next]_vars, pc' = "written" PROVE NarrowestRowWins'
    BY DEF NarrowestRowWins
  <1>1. IInv /\ Owned /\ NarrowestRowWins
    BY DEF OInv
  <1>2. CASE Write
    <2>1. /\ pc = "fetch" /\ r > Len(rows) /\ rows' = rows
          /\ \E list \in Sorted(dump_list) : file' = Output(list)
      BY <1>2 DEF Write
    <2>2. PICK list \in Sorted(dump_list) : file' = Output(list)
      BY <2>1
    <2>3. IsDataFile(file')
      BY <1>1, <2>2, OutputIsDataFile
    <2>4. \A a \in Addr : {file'.data[k] : k \in {k \in 1..file'.n : Covers(file', k, a)}}
                            = {rows[i].data : i \in FirstHaving(a)}
      <3>1. \A a \in Addr :
               {Output(list).data[k] : k \in {k \in 1..Output(list).n : Covers(Output(list), k, a)}}
                  = {rows[i].data : i \in FirstHaving(a)}
        BY <1>1, <2>1, OutputIsRight
      <3> QED BY <2>2, <3>1
    <2>5. \A i : RowAddrs(i)' = RowAddrs(i)
      BY <2>1 DEF RowAddrs
    <2>6. \A a \in Addr :
              LET of == {i \in DOMAIN rows : a \in RowAddrs(i)'}
              IN  {file'.data[k] : k \in {k \in 1..file'.n : Covers(file', k, a)}} =
                  {rows[i].data : i \in {i \in of : \A j \in of : i <= j}}
      BY <2>4, <2>5 DEF FirstHaving, Having
    <2> QED BY <2>1, <2>3, <2>6 DEF NarrowestRowWins
  <1>3. CASE UNCHANGED vars
    <2>1. rows' = rows /\ pc' = pc /\ file' = file
      BY <1>3 DEF vars
    <2>2. \A i : RowAddrs(i)' = RowAddrs(i)
      BY <2>1 DEF RowAddrs
    <2> QED BY <1>1, <2>1, <2>2 DEF NarrowestRowWins
  <1>4. /\ ~NoServer /\ ~Connect /\ ~SelectFails /\ ~Query /\ ~FetchRow /\ ~FinishRow
    BY DEF NoServer, Connect, SelectFails, Query, FetchRow, FinishRow
  <1>5. ~Scan
    BY <1>1, ScanFacts
  <1> QED BY <1>2, <1>3, <1>4, <1>5 DEF Next

LEMMA OInvariance == Spec => []OInv
  <1>1. Init => OInv
    BY InitInv, InitOwned DEF OInv
  <1>2. OInv /\ [Next]_vars => OInv'
    BY NextInv, OwnedInv, FileInv DEF OInv
  <1> QED BY <1>1, <1>2, PTL DEF Spec

\* The file that an export writes is well formed, and for every address it has
\* the strings of the first row of the query that has the address, the narrowest
\* one, and nothing for an address that no row has (main.cpp:110).
THEOREM FileGivesNarrowest == Spec => []NarrowestRowWins
  <1>1. OInv => NarrowestRowWins
    BY DEF OInv
  <1> QED BY <1>1, OInvariance, PTL
-----------------------------------------------------------------------------
(***************************************************************************)
(* How many ranges there can be.  Every stretch of free addresses that a   *)
(* row finds but the last one lies before taken addresses, so it joins two *)
(* blocks of taken addresses: ranges and blocks are counted together.      *)
(***************************************************************************)
\* One for a stretch that is open.
OpenOne == IF c_s # -1 THEN 1 ELSE 0

\* Each row adds two at most: its first and last address may be where a block
\* begins and ends, and the range of a row's last stretch is found at its end.
Count ==
    /\ pc \notin {"scan", "overrun"} => Len(dump_list) + NEnds(ip_hash) <= 2 * (r - 1)
    /\ pc \in {"scan", "overrun"} =>
          /\ h_s = rows[r].start => Len(dump_list) + OpenOne + NEnds(ip_hash) <= 2 * (r - 1)
          /\ h_s > rows[r].start =>
                Len(dump_list) + OpenOne + NEnds(ip_hash)
                   <= 2 * (r - 1) + 1 + (IF c_s # -1 /\ h_s \notin ip_hash THEN 1 ELSE 0)

\* An overrun ends the scan behind the first address of its row.
Overrun == pc = "overrun" => r <= Len(rows) /\ h_s > rows[r].start

\* The invariant that the theorem about the list's length needs.
CInv == IInv /\ Count /\ Overrun

\* The arithmetic of one iteration: L ranges, k ends, an open stretch or none.
LEMMA CountStep ==
    ASSUME NEW L \in Nat, NEW k \in Nat, NEW o \in {0, 1}, NEW m \in {0, 1}, NEW e \in {0, 1},
           NEW q \in Int
    PROVE  /\ L + o + k <= q => L + 1 + (k - m + e) <= q + 1 + e
           /\ o = 1 /\ L + o + k <= q + 1 + 1 => L + 1 + (k - 1 + e) <= q + 1 + e
           /\ o = 0 /\ L + o + k <= q + 1 => L + 1 + (k - 1 + e) <= q + 1 + e
  OBVIOUS

LEMMA OneBefore ==
    ASSUME NEW h \in Nat, NEW g \in Nat, h < g
    PROVE  g - 1 \in Nat /\ h <= g - 1 /\ (g - 1) + 1 = g
  OBVIOUS

\* One iteration of the scan.
LEMMA ScanCount ==
    ASSUME IInv, Count, Scan
    PROVE  /\ h_s' > rows[r].start
           /\ Len(dump_list') + OpenOne' + NEnds(ip_hash')
                 <= 2 * (r - 1) + 1 + (IF c_s' # -1 /\ h_s' \notin ip_hash' THEN 1 ELSE 0)
  <1> DEFINE L == Len(dump_list)
             q == 2 * (r - 1)
             taken == h_s \in ip_hash
             e == IF h_s' \notin ip_hash THEN 1 ELSE 0
             m == IF h_s - 1 \in ip_hash THEN 1 ELSE 0
  <1>1. /\ pc = "scan" /\ h_s' \in Nat /\ h_s < h_s' /\ ip_hash' = ip_hash \cup h_s..(h_s' - 1)
        /\ taken => h_s..(h_s' - 1) = {h_s}
        /\ ~taken => h_s..(h_s' - 1) \cap ip_hash = {}
        /\ Scanning /\ r \in Nat /\ rows[r].start \in Nat /\ c_s \in Int /\ h_s \in Nat
        /\ dump_list \in Seq(Row) /\ ip_hash \subseteq Addr
    BY ScanFacts
  <1>2. \/ ~last_taken /\ taken /\ dump_list' = Append(dump_list, Stretch(c_s, h_s - 1)) /\ c_s' = -1
        \/ last_taken /\ ~taken /\ dump_list' = dump_list /\ c_s' = h_s
        \/ last_taken = taken /\ dump_list' = dump_list /\ c_s' = c_s
    BY ScanFacts
  <1>3. L \in Nat /\ NEnds(ip_hash) \in Nat /\ q \in Int
    BY <1>1, LenProperties, EndsFinite
  <1>4. /\ rows[r].start <= h_s /\ last_taken \in BOOLEAN /\ (last_taken <=> c_s = -1)
        /\ c_s # -1 => rows[r].start <= c_s /\ c_s < h_s
    BY <1>1 DEF Scanning
  <1>5. /\ h_s = rows[r].start => L + OpenOne + NEnds(ip_hash) <= q
        /\ h_s > rows[r].start =>
              L + OpenOne + NEnds(ip_hash) <= q + 1 + (IF c_s # -1 /\ ~taken THEN 1 ELSE 0)
    BY <1>1 DEF Count
  <1>6. h_s' > rows[r].start
    BY <1>1, <1>4
  <1>7. CASE taken
    <2>1. ip_hash' = ip_hash /\ NEnds(ip_hash') = NEnds(ip_hash)
      BY <1>1, <1>7
    <2>2. L + OpenOne + NEnds(ip_hash) <= q + 1
      <3>1. OpenOne \in {0, 1}
        BY DEF OpenOne
      <3>2. h_s = rows[r].start \/ h_s > rows[r].start
        BY <1>1, <1>4
      <3>3. h_s > rows[r].start => L + OpenOne + NEnds(ip_hash) <= q + 1 + 0
        BY <1>5, <1>7
      <3> HIDE DEF L, q
      <3> QED BY <1>3, <1>5, <3>1, <3>2, <3>3
    <2>3. Len(dump_list') + OpenOne' = L + OpenOne
      <3>1. CASE ~last_taken
        <4>1. dump_list' = Append(dump_list, Stretch(c_s, h_s - 1)) /\ c_s' = -1 /\ c_s # -1
          BY <1>2, <1>4, <1>7, <3>1
        <4>2. Stretch(c_s, h_s - 1) \in Row
          <5>1. /\ rows[r].data \in Payloads /\ rows[r].end \in Nat /\ rows[r].end <= MaxIP
                /\ h_s <= rows[r].end /\ MaxIP \in Nat
            BY ScanFacts
          <5>2. c_s \in Addr /\ h_s - 1 \in Addr /\ c_s <= h_s - 1
            BY <1>1, <1>4, <4>1, <5>1 DEF Addr
          <5> QED BY <5>1, <5>2 DEF Stretch, Row
        <4>3. Len(dump_list') = L + 1
          BY <1>1, <4>1, <4>2, AppendProperties
        <4>4. OpenOne = 1 /\ OpenOne' = 0
          BY <4>1 DEF OpenOne
        <4> HIDE DEF L
        <4> QED BY <1>3, <4>3, <4>4
      <3>2. CASE last_taken
        <4>1. dump_list' = dump_list /\ c_s' = c_s
          BY <1>2, <1>7, <3>2
        <4> QED BY <4>1 DEF OpenOne
      <3> QED BY <3>1, <3>2, <1>4
    <2> DEFINE f == IF c_s' # -1 /\ h_s' \notin ip_hash' THEN 1 ELSE 0
    <2>4. f \in {0, 1} /\ OpenOne \in {0, 1}
      BY DEF OpenOne
    <2>5. Len(dump_list') + OpenOne' + NEnds(ip_hash') <= q + 1 + f
      <3> DEFINE x == Len(dump_list') + OpenOne'
      <3>1. x = L + OpenOne
        BY <2>3
      <3>2. x + NEnds(ip_hash') <= q + 1 + f
        <4> HIDE DEF x, L, q, f
        <4> QED BY <1>3, <2>1, <2>2, <2>4, <3>1
      <3> QED BY <3>2
    <2> QED BY <1>6, <2>5
  <1>8. CASE ~taken
    <2>1. dump_list' = dump_list /\ c_s' \in Int /\ c_s' # -1 /\ OpenOne' = 1
      <3>1. CASE last_taken
        <4>1. dump_list' = dump_list /\ c_s' = h_s
          BY <1>2, <1>8, <3>1
        <4>2. c_s' \in Int /\ c_s' # -1
          BY <1>1, <4>1
        <4> QED BY <4>1, <4>2 DEF OpenOne
      <3>2. CASE ~last_taken
        <4>1. dump_list' = dump_list /\ c_s' = c_s /\ c_s # -1
          BY <1>2, <1>4, <1>8, <3>2
        <4> QED BY <1>1, <4>1 DEF OpenOne
      <3> QED BY <1>4, <3>1, <3>2
    <2>2. NEnds(ip_hash') = NEnds(ip_hash) - m + e
      <3>1. h_s' - 1 \in Nat /\ h_s <= h_s' - 1 /\ (h_s' - 1) + 1 = h_s'
        BY <1>1, OneBefore
      <3>2. h_s..(h_s' - 1) \cap ip_hash = {}
        BY <1>1, <1>8
      <3>3. h_s \in Nat /\ ip_hash \subseteq Addr
        BY <1>1
      <3>4. NEnds(ip_hash \cup h_s..(h_s' - 1)) =
               NEnds(ip_hash) - (IF h_s - 1 \in ip_hash THEN 1 ELSE 0)
                  + (IF (h_s' - 1) + 1 \notin ip_hash THEN 1 ELSE 0)
        BY <3>1, <3>2, <3>3, EndsAfter
      <3> QED BY <1>1, <3>1, <3>4
    <2>3. (IF c_s' # -1 /\ h_s' \notin ip_hash' THEN 1 ELSE 0) = e
      <3> DEFINE g == h_s'
      <3>1. g \notin h_s..(g - 1)
        <4>1. g \in Nat /\ h_s \in Nat
          BY <1>1
        <4> HIDE DEF g
        <4> QED BY <4>1
      <3> QED BY <1>1, <2>1, <3>1
    <2>4. m \in {0, 1} /\ e \in {0, 1} /\ OpenOne \in {0, 1}
      BY DEF OpenOne
    <2>5. L + 1 + (NEnds(ip_hash) - m + e) <= q + 1 + e
      <3>1. CASE h_s = rows[r].start
        <4>1. L + OpenOne + NEnds(ip_hash) <= q
          BY <1>5, <3>1
        <4> HIDE DEF L, q, m, e
        <4> QED BY <1>3, <2>4, <4>1, CountStep
      <3>2. CASE h_s > rows[r].start
        <4>1. m = 1
          <5>1. h_s - 1 \in rows[r].start..(h_s - 1)
            BY <1>1, <3>2
          <5>2. h_s - 1 \in ip_hash
            BY <1>1, <5>1 DEF IInv, BitmapExact
          <5> QED BY <5>2
        <4>2. CASE c_s # -1
          <5>1. OpenOne = 1 /\ L + OpenOne + NEnds(ip_hash) <= q + 1 + 1
            BY <1>5, <1>8, <3>2, <4>2 DEF OpenOne
          <5> HIDE DEF L, q, m, e
          <5> QED BY <1>3, <2>4, <4>1, <5>1, CountStep
        <4>3. CASE c_s = -1
          <5>1. OpenOne = 0 /\ L + OpenOne + NEnds(ip_hash) <= q + 1 + 0
            BY <1>5, <3>2, <4>3 DEF OpenOne
          <5> HIDE DEF L, q, m, e
          <5>2. L + OpenOne + NEnds(ip_hash) <= q + 1
            BY <1>3, <5>1
          <5> QED BY <1>3, <2>4, <4>1, <5>1, <5>2, CountStep
        <4> QED BY <4>2, <4>3
      <3> QED BY <1>1, <1>4, <3>1, <3>2
    <2>6. Len(dump_list') = L
      BY <2>1
    <2> HIDE DEF L, q, m, e, taken
    <2>7. Len(dump_list') + OpenOne' + NEnds(ip_hash') <= q + 1 + e
      BY <1>3, <2>1, <2>2, <2>4, <2>5, <2>6
    <2> QED BY <1>6, <2>3, <2>7 DEF q
  <1> QED BY <1>7, <1>8

LEMMA InitCount == Init => Count /\ Overrun
  <1> SUFFICES ASSUME Init PROVE Count /\ Overrun
    OBVIOUS
  <1>1. pc = "connect" /\ dump_list = <<>> /\ ip_hash = {} /\ r = 1
    BY DEF Init
  <1>2. Len(dump_list) = 0 /\ NEnds(ip_hash) = 0
    BY <1>1, EmptySeq, NoEnds
  <1> QED BY <1>1, <1>2 DEF Count, Overrun

\* A finished row: the open stretch has become a range.
LEMMA FinishRowCount ==
    ASSUME CInv, FinishRow
    PROVE  Count'
  <1> DEFINE L == Len(dump_list)
             k == NEnds(ip_hash)
             f == IF c_s # -1 /\ h_s \notin ip_hash THEN 1 ELSE 0
  <1>1. IInv /\ Count
    BY DEF CInv
  <1>2. /\ rows' = rows /\ r' = r + 1 /\ ip_hash' = ip_hash
        /\ pc = "scan" /\ pc' = "fetch" /\ h_s > rows[r].end
        /\ dump_list' = IF c_s # -1 THEN Append(dump_list, Stretch(c_s, rows[r].end))
                        ELSE dump_list
    BY DEF FinishRow, Push, scan, dump
  <1>3. /\ dump_list \in Seq(Row) /\ rows[r] \in Row /\ Scanning
        /\ r \in Nat /\ h_s \in Nat /\ c_s \in Int
    <2>1. Len(rows) \in Nat /\ r \in Nat /\ r >= 1 /\ Scanning
      BY <1>1, <1>2, LenProperties DEF IInv, TypeOK
    <2>2. r \in 1..Len(rows)
      BY <2>1 DEF Scanning
    <2> QED BY <1>1, <2>1, <2>2, ElementOfSeq DEF IInv, TypeOK
  <1>4. /\ rows[r].start \in Nat /\ rows[r].end \in Nat /\ rows[r].end <= MaxIP
        /\ rows[r].start <= rows[r].end /\ MaxIP \in Nat /\ rows[r].data \in Payloads
    BY <1>3, RowFacts, MaxIPAssumption DEF Row
  <1>5. L \in Nat /\ k \in Nat
    BY <1>1, <1>3, LenProperties, EndsFinite DEF IInv, TypeOK
  <1>6. h_s > rows[r].start
    BY <1>2, <1>3, <1>4
  <1>7. L + OpenOne + k <= 2 * (r - 1) + 1 + f
    BY <1>1, <1>2, <1>6 DEF Count
  <1>8. f \in {0, 1} /\ OpenOne \in {0, 1}
    BY DEF OpenOne
  <1>9. Len(dump_list') = L + OpenOne
    <2>1. CASE c_s = -1
      <3>1. dump_list' = dump_list /\ OpenOne = 0
        BY <1>2, <2>1 DEF OpenOne
      <3> QED BY <1>5, <3>1
    <2>2. CASE c_s # -1
      <3>1. c_s \in Addr /\ rows[r].end \in Addr /\ c_s <= rows[r].end
        <4>1. rows[r].start <= c_s /\ c_s < h_s /\ h_s <= rows[r].end + 1
          BY <1>3, <2>2 DEF Scanning
        <4>2. c_s <= rows[r].end /\ c_s >= 0 /\ c_s <= MaxIP
          <5>1. c_s \in Int /\ h_s \in Nat
            BY <1>3
          <5> QED BY <1>4, <4>1, <5>1
        <4> QED BY <1>3, <1>4, <4>2 DEF Addr
      <3>2. Stretch(c_s, rows[r].end) \in Row
        BY <1>4, <3>1 DEF Stretch, Row
      <3>3. Len(dump_list') = L + 1
        BY <1>2, <1>3, <2>2, <3>2, AppendProperties
      <3>4. OpenOne = 1
        BY <2>2 DEF OpenOne
      <3> HIDE DEF L
      <3> QED BY <3>3, <3>4
    <2> QED BY <2>1, <2>2
  <1>10. Len(dump_list') + k <= 2 * (r' - 1)
    <2> DEFINE M == Len(dump_list')
    <2>1. M = L + OpenOne
      BY <1>9
    <2> HIDE DEF L, k, f, M
    <2>2. M + k <= 2 * ((r + 1) - 1)
      BY <1>3, <1>5, <1>7, <1>8, <2>1
    <2> QED BY <1>2, <2>2 DEF M
  <1>11. NEnds(ip_hash)' = k
    BY <1>2 DEF NEnds, Ends
  <1> QED BY <1>2, <1>10, <1>11 DEF Count

LEMMA CountInv == CInv /\ [Next]_vars => Count' /\ Overrun'
  <1> SUFFICES ASSUME CInv, [Next]_vars PROVE Count' /\ Overrun'
    OBVIOUS
  <1>1. IInv /\ Count /\ Overrun
    BY DEF CInv
  <1>2. CASE NoServer \/ Connect \/ SelectFails \/ Query \/ Write
    <2>1. /\ r' = r /\ ip_hash' = ip_hash /\ dump_list' = dump_list
          /\ pc \notin {"scan", "overrun"} /\ pc' \notin {"scan", "overrun"}
      BY <1>2 DEF NoServer, Connect, SelectFails, Query, Write, scan, dump
    <2>2. NEnds(ip_hash)' = NEnds(ip_hash)
      BY <2>1 DEF NEnds, Ends
    <2> QED BY <1>1, <2>1, <2>2 DEF Count, Overrun
  <1>3. CASE FetchRow
    <2>1. /\ rows' = rows /\ r' = r /\ ip_hash' = ip_hash /\ dump_list' = dump_list
          /\ pc = "fetch" /\ pc' = "scan" /\ h_s' = rows[r].start /\ c_s' = -1 /\ r <= Len(rows)
      BY <1>3 DEF FetchRow, dump
    <2>2. NEnds(ip_hash)' = NEnds(ip_hash) /\ OpenOne' = 0
      BY <2>1 DEF NEnds, Ends, OpenOne
    <2>3. Len(dump_list) + NEnds(ip_hash) <= 2 * (r - 1)
      BY <1>1, <2>1 DEF Count
    <2>4. Len(dump_list) \in Nat /\ rows[r].start \in Nat
      <3>1. r \in 1..Len(rows) /\ dump_list \in Seq(Row)
        BY <1>1, <2>1, LenProperties DEF IInv, TypeOK
      <3>2. rows[r] \in Row
        BY <1>1, <3>1, ElementOfSeq DEF IInv
      <3> QED BY <3>1, <3>2, RowFacts, LenProperties
    <2>5. Len(dump_list') + OpenOne' + NEnds(ip_hash)' <= 2 * (r' - 1)
      BY <2>1, <2>2, <2>3, <2>4
    <2>6. ~(h_s' > rows'[r'].start)
      BY <2>1, <2>4
    <2> QED BY <2>1, <2>5, <2>6 DEF Count, Overrun
  <1>4. CASE Scan
    <2>1. /\ h_s' > rows[r].start
          /\ Len(dump_list') + OpenOne' + NEnds(ip_hash')
                 <= 2 * (r - 1) + 1 + (IF c_s' # -1 /\ h_s' \notin ip_hash' THEN 1 ELSE 0)
      BY <1>1, <1>4, ScanCount
    <2>2. /\ rows' = rows /\ r' = r /\ r <= Len(rows) /\ rows[r].start \in Nat /\ h_s' \in Nat
          /\ pc' = IF h_s' > MaxIP THEN "overrun" ELSE "scan"
      BY <1>1, <1>4, ScanFacts
    <2>3. NEnds(ip_hash)' = NEnds(ip_hash')
      BY DEF NEnds, Ends
    <2>4. pc' \in {"scan", "overrun"}
      BY <2>2
    <2>5. ~(h_s' = rows'[r'].start)
      BY <2>1, <2>2
    <2> QED BY <2>1, <2>2, <2>3, <2>4, <2>5 DEF Count, Overrun
  <1>5. CASE FinishRow
    <2>1. Count'
      BY <1>5, FinishRowCount
    <2>2. pc' = "fetch"
      BY <1>5 DEF FinishRow
    <2> QED BY <2>1, <2>2 DEF Overrun
  <1>6. CASE UNCHANGED vars
    <2>1. /\ rows' = rows /\ r' = r /\ h_s' = h_s /\ ip_hash' = ip_hash
          /\ c_s' = c_s /\ dump_list' = dump_list /\ pc' = pc
      BY <1>6 DEF vars, source, scan, dump
    <2>2. NEnds(ip_hash)' = NEnds(ip_hash) /\ OpenOne' = OpenOne
      BY <2>1 DEF NEnds, Ends, OpenOne
    <2> QED BY <1>1, <2>1, <2>2 DEF Count, Overrun
  <1> QED BY <1>2, <1>3, <1>4, <1>5, <1>6 DEF Next

\* The bound on the number of ranges, at every moment.
LEMMA CountBounds ==
    ASSUME CInv
    PROVE  /\ Len(dump_list) \in Nat /\ Len(rows) \in Nat
           /\ Len(dump_list) <= IF rows = <<>> THEN 0 ELSE 2 * Len(rows) - 1
           /\ pc = "scan" => rows # <<>>
  <1> DEFINE L == Len(dump_list)
             n == Len(rows)
             k == NEnds(ip_hash)
             f == IF c_s # -1 /\ h_s \notin ip_hash THEN 1 ELSE 0
  <1>1. IInv /\ Count /\ Overrun
    BY DEF CInv
  <1>2. /\ L \in Nat /\ n \in Nat /\ k \in Nat /\ (ip_hash # {} => k >= 1)
        /\ r \in Nat /\ 1 <= r /\ r <= n + 1 /\ h_s \in Nat
    <2>1. L \in Nat /\ n \in Nat
      BY <1>1, LenProperties DEF IInv, TypeOK
    <2>2. k \in Nat /\ (ip_hash # {} => k >= 1)
      BY <1>1, EndsFinite DEF IInv, TypeOK
    <2>3. r \in 1..(n + 1) /\ h_s \in 0..(MaxIP + 1)
      BY <1>1 DEF IInv, TypeOK
    <2>4. h_s \in Nat
      BY <2>3, MaxIPAssumption
    <2> QED BY <2>1, <2>2, <2>3, <2>4
  <1>3. n >= 1 => rows # <<>>
    BY EmptySeq
  <1>4. ASSUME NEW i \in 1..n
        PROVE  /\ rows[i].start \in Nat /\ rows[i].end \in Nat
               /\ rows[i].start \in RowAddrs(i) /\ rows[i].start <= MaxIP
    <2>1. rows[i] \in Row
      BY <1>1, ElementOfSeq DEF IInv
    <2> QED BY <2>1, RowFacts, MaxIPAssumption DEF RowAddrs
  <1>5. f \in {0, 1} /\ OpenOne \in {0, 1} /\ f <= OpenOne
    BY DEF OpenOne
  <1>6. pc \in {"scan", "overrun"} => r <= n
    BY <1>1 DEF IInv, Scanning, Overrun
  <1>7. CASE pc \notin {"scan", "overrun"}
    <2>1. L + k <= 2 * (r - 1)
      BY <1>1, <1>7 DEF Count
    <2>2. CASE r = 1
      <3> HIDE DEF L, n, k
      <3>1. L <= 0 /\ (rows # <<>> => L <= 2 * n - 1)
        <4>1. rows # <<>> => n # 0
          <5>1. rows \in Seq(Row)
            BY <1>1 DEF IInv
          <5> QED BY <5>1, EmptySeq DEF n
        <4> QED BY <1>2, <2>1, <2>2, <4>1
      <3> QED BY <1>2, <1>7, <3>1 DEF L, n
    <2>3. CASE r # 1
      <3>1. 1 \in 1..(r - 1) /\ 1 \in 1..n
        BY <1>2, <2>3
      <3>2. ip_hash = Scanned(r - 1)
        BY <1>1, <1>7 DEF IInv, BitmapExact
      <3>3. rows[1].start \in Scanned(r - 1)
        BY <1>4, <3>1 DEF Scanned
      <3>4. k >= 1
        BY <1>2, <3>2, <3>3
      <3> HIDE DEF L, n, k
      <3>5. n >= 1 /\ L <= 2 * n - 1
        BY <1>2, <2>1, <2>3, <3>4
      <3> QED BY <1>2, <1>3, <1>7, <3>5 DEF L, n
    <2> QED BY <2>2, <2>3
  <1>8. CASE pc \in {"scan", "overrun"}
    <2>1. r \in 1..n
      BY <1>2, <1>6, <1>8
    <2>2. CASE h_s = rows[r].start
      <3>1. L + OpenOne + k <= 2 * (r - 1)
        BY <1>1, <1>8, <2>2 DEF Count
      <3> HIDE DEF L, n, k, f
      <3>2. n >= 1 /\ L <= 2 * n - 1
        BY <1>2, <1>5, <2>1, <3>1
      <3> QED BY <1>2, <1>3, <3>2 DEF L, n
    <2>3. CASE h_s > rows[r].start
      <3>1. L + OpenOne + k <= 2 * (r - 1) + 1 + f
        BY <1>1, <1>8, <2>3 DEF Count
      <3>2. rows[r].start \in ip_hash
        <4>1. CASE pc = "scan"
          <5>1. rows[r].start \in rows[r].start..(h_s - 1)
            BY <1>2, <1>4, <2>1, <2>3
          <5> QED BY <1>1, <4>1, <5>1 DEF IInv, BitmapExact
        <4>2. CASE pc = "overrun"
          <5>1. rows[r].start \in rows[r].start..MaxIP
            BY <1>4, <2>1, MaxIPAssumption
          <5> QED BY <1>1, <4>2, <5>1 DEF IInv, BitmapExact
        <4> QED BY <1>8, <4>1, <4>2
      <3>3. k >= 1
        BY <1>2, <3>2
      <3> HIDE DEF L, n, k, f
      <3>4. n >= 1 /\ L <= 2 * n - 1
        BY <1>2, <1>5, <2>1, <3>1, <3>3
      <3> QED BY <1>2, <1>3, <3>4 DEF L, n
    <2>4. h_s >= rows[r].start
      <3>1. pc = "scan" => rows[r].start <= h_s
        BY <1>1 DEF IInv, Scanning
      <3>2. pc = "overrun" => h_s > rows[r].start
        BY <1>1 DEF Overrun
      <3>3. rows[r].start \in Nat
        BY <1>4, <2>1
      <3> HIDE DEF L, n, k, f
      <3> QED BY <1>2, <1>8, <3>1, <3>2, <3>3
    <2> QED BY <1>2, <1>4, <2>1, <2>2, <2>3, <2>4
  <1> QED BY <1>7, <1>8

\* The room for the ranges.
Room == dump_list_size = 4 * Len(rows)

LEMMA RoomInv == CInv /\ Room /\ [Next]_vars => Room'
  <1> SUFFICES ASSUME CInv, Room, [Next]_vars PROVE Room'
    OBVIOUS
  <1>1. /\ Len(dump_list) \in Nat /\ Len(rows) \in Nat
        /\ Len(dump_list) <= IF rows = <<>> THEN 0 ELSE 2 * Len(rows) - 1
        /\ pc = "scan" => rows # <<>>
    BY CountBounds
  <1>2. pc = "scan" => ~(Len(dump_list) + 1 > dump_list_size)
    <2>1. ASSUME pc = "scan" PROVE Len(dump_list) + 1 <= 4 * Len(rows)
      BY <1>1, <2>1
    <2> QED BY <1>1, <2>1 DEF Room
  <1>3. CASE Scan
    <2>1. pc = "scan" /\ rows' = rows
      BY <1>3 DEF Scan
    <2>2. dump_list_size' = dump_list_size
      BY <1>2, <1>3, <2>1 DEF Scan, Push, dump
    <2> QED BY <2>1, <2>2 DEF Room
  <1>4. CASE FinishRow
    <2>1. pc = "scan" /\ rows' = rows
      BY <1>4 DEF FinishRow
    <2>2. dump_list_size' = dump_list_size
      BY <1>2, <1>4, <2>1 DEF FinishRow, Push, dump
    <2> QED BY <2>1, <2>2 DEF Room
  <1>5. CASE Query
    <2>1. \/ rows' = table /\ dump_list_size' = 4 * Len(table)
          \/ rows' = rows /\ dump_list_size' = dump_list_size
      BY <1>5 DEF Query
    <2> QED BY <2>1 DEF Room
  <1>6. CASE NoServer \/ Connect \/ SelectFails \/ FetchRow \/ Write \/ UNCHANGED vars
    <2>1. rows' = rows /\ dump_list_size' = dump_list_size
      BY <1>6 DEF NoServer, Connect, SelectFails, FetchRow, Write, vars, dump
    <2> QED BY <2>1 DEF Room
  <1> QED BY <1>3, <1>4, <1>5, <1>6 DEF Next

\* However the rows overlap, n rows leave 2n-1 ranges at most: the list of 4n
\* that main allocates is never enlarged, and pushToList never takes the branch
\* that frees it (main.cpp:62).
THEOREM ListIsLargeEnough == Spec => []NeverEnlarged
  <1>1. Init => CInv /\ Room
    <2>1. Init => Room
      BY EmptySeq DEF Init, Room
    <2> QED BY <2>1, InitInv, InitCount DEF CInv
  <1>2. CInv /\ Room /\ [Next]_vars => (CInv /\ Room)'
    BY NextInv, CountInv, RoomInv DEF CInv
  <1>3. CInv /\ Room => NeverEnlarged
    BY CountBounds DEF NeverEnlarged, Room
  <1> QED BY <1>1, <1>2, <1>3, PTL DEF Spec
=============================================================================
