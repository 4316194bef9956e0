------------------------- MODULE BbipPublishProofs --------------------------
(***************************************************************************)
(* Proofs about a handle on a file that is being written, for files of any *)
(* size and address width, at any place where stdio may cut the output.    *)
(***************************************************************************)
EXTENDS BbipFileFacts, BbipPublish, TLAPS

Steps == {"start", "end", "ptr"}

\* What slot k of an array holds when it was read from the finished file.
Final(s, k) == Word(New, FirstCell(s) + k - 1)

LEMMA NewFacts ==
    /\ IsDataFile(New) /\ n \in Nat /\ n > 0 /\ Size = 4 * n + 1 /\ Size \in Nat
    /\ \A k \in 1..n : BlobCell(New, k) = 3 * n + k
  <1>1. IsDataFile(New) /\ n > 0
    BY PublishAssumption DEF n
  <1>2. n \in Nat
    BY <1>1 DEF IsDataFile, n
  <1>3. Size = 4 * n + 1 /\ Size \in Nat
    BY <1>2 DEF Size
  <1>4. \A k \in 1..n : BlobCell(New, k) = 3 * n + k
    BY DEF BlobCell, n
  <1> QED BY <1>1, <1>2, <1>3, <1>4

LEMMA NewWords ==
    /\ \A k \in 1..n :
          /\ Final("start", k) = New.start[k] /\ Final("end", k) = New.end[k]
          /\ Final("ptr", k) = BlobCell(New, k)
          /\ New.start[k] \in Nat /\ New.end[k] \in Nat
    /\ \A c \in 0..(3 * n) : Word(New, c) \in Nat
  <1>1. IsDataFile(New) /\ n > 0
    BY NewFacts
  <1>2. n \in Nat
    BY NewFacts
  <1>3. ASSUME NEW k \in 1..n
        PROVE  /\ Final("start", k) = New.start[k] /\ Final("end", k) = New.end[k]
               /\ Final("ptr", k) = BlobCell(New, k)
               /\ New.start[k] \in Nat /\ New.end[k] \in Nat
    <2>1. /\ FirstCell("start") + k - 1 = StartCell(New, k)
          /\ FirstCell("end") + k - 1 = EndCell(New, k)
          /\ FirstCell("ptr") + k - 1 = PtrCell(New, k)
      BY <1>2 DEF FirstCell, StartCell, EndCell, PtrCell, n
    <2> QED BY <1>1, <2>1, Words DEF Final, n
  <1>4. ASSUME NEW c \in 0..(3 * n)
        PROVE  Word(New, c) \in Nat
    <2>1. /\ New.start \in [1..n -> Nat] /\ New.end \in [1..n -> Nat]
          /\ New.ptr = [k \in 1..n |-> 3 * n + k]
      BY <1>1, MaxIPAssumption DEF IsDataFile, n, Addr
    <2>2. CASE c = 0
      BY <1>2, <2>2 DEF Word, n
    <2>3. CASE c \in 1..n
      BY <1>2, <2>1, <2>3 DEF Word, n
    <2>4. CASE c \in (n + 1)..(2 * n)
      <3>1. c - n \in 1..n /\ c # 0 /\ ~(c <= n) /\ c <= 2 * n
        BY <1>2, <2>4
      <3>2. Word(New, c) = New.end[c - n]
        BY <3>1 DEF Word, n
      <3> QED BY <2>1, <3>1, <3>2
    <2>5. CASE c \in (2 * n + 1)..(3 * n)
      <3>1. c - 2 * n \in 1..n /\ c # 0 /\ ~(c <= n) /\ ~(c <= 2 * n)
        BY <1>2, <2>5
      <3>2. Word(New, c) = New.ptr[c - 2 * n]
        BY <3>1 DEF Word, n
      <3>3. New.ptr[c - 2 * n] = 3 * n + (c - 2 * n)
        BY <2>1, <3>1
      <3> QED BY <1>2, <3>1, <3>2, <3>3
    <2> QED BY <1>2, <2>2, <2>3, <2>4, <2>5
  <1> QED BY <1>3, <1>4

\* The places of the cells in the output.
LEMMA Places ==
    \A c \in 0..(Size - 1) :
        /\ Position(c) \in 1..Size
        /\ c = 0 => Position(c) = 1
        /\ c \in 1..(3 * n) => Position(c) = n + 1 + c
        /\ c > 3 * n => Position(c) = c - 3 * n + 1
  BY NewFacts DEF Position

\* How long the unfinished file is: nothing, a header, or the index and blobs.
LEMMA LengthFacts ==
    ASSUME flushed \in 0..(2 * Size)
    PROVE  /\ Length \in 0..Size
           /\ flushed < 2 => Length = 0
           /\ flushed \in {2, 3} => Length = 1
           /\ flushed >= 4 => Length >= 3 * n + 2
           /\ flushed >= 2 * (n + 1) => Length = Size
  <1> DEFINE there == {c \in 0..(Size - 1) : Whole(c)}
  <1>1. \A c \in 0..(Size - 1) : Whole(c) <=> 2 * Position(c) <= flushed
    BY DEF Whole
  <1>2. Length = IF there = {} THEN 0 ELSE 1 + CHOOSE c \in there : \A d \in there : d <= c
    BY DEF Length
  <1>3. ASSUME there # {}
        PROVE  \E c \in there : Length = 1 + c /\ \A d \in there : d <= c
    <2>1. Size - 1 \in Nat /\ there \in SUBSET (0..(Size - 1))
      BY NewFacts
    <2>2. \E c \in there : \A d \in there : d <= c
      <3> HIDE DEF there
      <3> QED BY <1>3, <2>1, Largest
    <2> HIDE DEF there
    <2> QED BY <1>2, <1>3, <2>2
  <1>4. \A c \in there : c \in 0..(Size - 1) /\ 2 * Position(c) <= flushed
    BY <1>1
  <1>5. CASE flushed < 2
    <2>1. there = {}
      BY <1>4, <1>5, Places, NewFacts
    <2> QED BY <1>2, <1>5, <2>1, NewFacts
  <1>6. CASE flushed \in {2, 3}
    <2>1. \A c \in there : c = 0
      BY <1>4, <1>6, Places, NewFacts
    <2>2. 0 \in there
      BY <1>1, <1>6, Places, NewFacts
    <2> HIDE DEF there
    <2>3. Length = 1
      BY <1>3, <2>1, <2>2
    <2> QED BY <1>6, <2>3, NewFacts
  <1>7. CASE flushed >= 4
    <2>1. 3 * n + 1 \in there
      <3>1. 3 * n + 1 \in 0..(Size - 1) /\ 3 * n + 1 > 3 * n /\ (3 * n + 1) - 3 * n + 1 = 2
        BY NewFacts
      <3>2. Position(3 * n + 1) = 2
        BY <3>1, Places
      <3> QED BY <1>1, <1>7, <3>1, <3>2
    <2>2. PICK c \in there : Length = 1 + c /\ \A d \in there : d <= c
      BY <1>3, <2>1
    <2>3. c \in 0..(Size - 1) /\ 3 * n + 1 <= c
      BY <2>1, <2>2
    <2>4. ASSUME flushed >= 2 * (n + 1) PROVE Length = Size
      <3>1. 4 * n \in 0..(Size - 1) /\ 4 * n > 3 * n /\ 4 * n - 3 * n + 1 = n + 1
        BY NewFacts
      <3>2. Position(4 * n) = n + 1
        BY <3>1, Places
      <3>3. 4 * n \in there
        BY <1>1, <2>4, <3>1, <3>2
      <3>4. 4 * n <= c
        BY <2>2, <3>3
      <3> QED BY <2>2, <2>3, <3>4, NewFacts
    <2>5. Length \in 0..Size /\ Length >= 3 * n + 2
      BY <2>2, <2>3, NewFacts
    <2> QED BY <1>7, <2>4, <2>5
  <1>8. flushed >= 2 * (n + 1) => flushed >= 4
    BY NewFacts
  <1> QED BY <1>5, <1>6, <1>7, <1>8

\* What a word of the index is while the file is written.
LEMMA WordNowFacts ==
    ASSUME flushed \in 0..(2 * Size), NEW c \in 1..(3 * n)
    PROVE  /\ WordNow(c) \in Nat
           /\ WordNow(c) \in {0, Word(New, c), Torn(Word(New, c))}
           /\ flushed < 4 => WordNow(c) = 0
           /\ WordNow(c) # 0 => \A d \in 1..(c - 1) : WordNow(d) = Word(New, d)
           /\ flushed = 2 * Size => WordNow(c) = Word(New, c)
  <1>1. \A d \in 1..(3 * n) :
            /\ d \in 0..(Size - 1) /\ Position(d) = n + 1 + d /\ Position(d) \in 1..Size
            /\ Word(New, d) \in Nat
    BY NewFacts, NewWords, Places
  <1>2. \A v \in Nat : Torn(v) \in Nat
    BY DEF Torn
  <1>3. /\ WordNow(c) \in {0, Word(New, c), Torn(Word(New, c))}
        /\ Whole(c) => WordNow(c) = Word(New, c)
        /\ WordNow(c) # 0 => Whole(c) \/ Half(c)
    BY DEF WordNow, Unwritten
  <1>4. flushed < 4 => ~Whole(c) /\ ~Half(c)
    BY <1>1, NewFacts DEF Whole, Half
  <1>5. ASSUME WordNow(c) # 0, NEW d \in 1..(c - 1)
        PROVE  WordNow(d) = Word(New, d)
    <2>1. d \in 1..(3 * n) /\ d < c
      BY NewFacts
    <2>2. 2 * Position(d) <= flushed
      BY <1>1, <1>3, <1>5, <2>1, NewFacts DEF Whole, Half
    <2> QED BY <2>2 DEF WordNow, Whole
  <1>6. flushed = 2 * Size => Whole(c)
    BY <1>1, NewFacts DEF Whole
  <1> QED BY <1>1, <1>2, <1>3, <1>4, <1>5, <1>6

\* What a reader finds in the index.
LEMMA ViewFacts ==
    ASSUME old \in Olds, flushed \in 0..(2 * Size)
    PROVE  /\ view.n = n
           /\ Word(view, 0) = n
           /\ \A c \in 1..(3 * n) :
                 /\ Word(view, c) \in Nat
                 /\ exporter # "waiting" => Word(view, c) = WordNow(c)
  <1>1. n \in Nat /\ n > 0
    BY NewFacts
  <1>2. CASE exporter = "waiting"
    <2>1. view = old /\ IsDataFile(old) /\ old.n = n
      BY <1>2, PublishAssumption DEF view, n
    <2>2. /\ old.start \in [1..n -> Nat] /\ old.end \in [1..n -> Nat]
          /\ old.ptr = [k \in 1..n |-> 3 * n + k]
      BY <2>1, MaxIPAssumption DEF IsDataFile, Addr
    <2>3. ASSUME NEW c \in 1..(3 * n)
          PROVE  Word(old, c) \in Nat
      <3>1. CASE c \in 1..n
        BY <1>1, <2>1, <2>2, <3>1 DEF Word
      <3>2. CASE c \in (n + 1)..(2 * n)
        <4>1. c - n \in 1..n /\ c # 0 /\ ~(c <= n) /\ c <= 2 * n
          BY <1>1, <3>2
        <4> QED BY <2>1, <2>2, <4>1 DEF Word
      <3>3. CASE c \in (2 * n + 1)..(3 * n)
        <4>1. c - 2 * n \in 1..n /\ c # 0 /\ ~(c <= n) /\ ~(c <= 2 * n)
          BY <1>1, <3>3
        <4>2. Word(old, c) = old.ptr[c - 2 * n]
          BY <2>1, <4>1 DEF Word
        <4>3. old.ptr[c - 2 * n] = 3 * n + (c - 2 * n)
          BY <2>2, <4>1
        <4> QED BY <1>1, <4>1, <4>2, <4>3
      <3> QED BY <1>1, <3>1, <3>2, <3>3
    <2> QED BY <1>2, <2>1, <2>3 DEF Word
  <1>3. CASE exporter # "waiting"
    <2>1. /\ view.n = n
          /\ view.start = [k \in 1..n |-> WordNow(StartCell(New, k))]
          /\ view.end = [k \in 1..n |-> WordNow(EndCell(New, k))]
          /\ view.ptr = [k \in 1..n |-> WordNow(PtrCell(New, k))]
      BY <1>3 DEF view
    <2>2. ASSUME NEW c \in 1..(3 * n)
          PROVE  Word(view, c) = WordNow(c)
      <3>1. CASE c \in 1..n
        <4>1. c # 0 /\ c <= n /\ StartCell(New, c) = c
          BY <1>1, <3>1 DEF StartCell
        <4> QED BY <2>1, <3>1, <4>1 DEF Word
      <3>2. CASE c \in (n + 1)..(2 * n)
        <4>1. /\ c - n \in 1..n /\ c # 0 /\ ~(c <= n) /\ c <= 2 * n
              /\ EndCell(New, c - n) = c
          BY <1>1, <3>2 DEF EndCell, n
        <4> QED BY <2>1, <4>1 DEF Word
      <3>3. CASE c \in (2 * n + 1)..(3 * n)
        <4>1. /\ c - 2 * n \in 1..n /\ c # 0 /\ ~(c <= n) /\ ~(c <= 2 * n)
              /\ PtrCell(New, c - 2 * n) = c
          BY <1>1, <3>3 DEF PtrCell, n
        <4> QED BY <2>1, <4>1 DEF Word
      <3> QED BY <1>1, <3>1, <3>2, <3>3
    <2>3. \A c \in 1..(3 * n) : WordNow(c) \in Nat
      BY WordNowFacts
    <2> QED BY <1>3, <2>1, <2>2, <2>3 DEF Word
  <1> QED BY <1>2, <1>3

\* Types, where the handle is, and what the exporter's progress says of it.
Common ==
    /\ TypeOK
    /\ old \in Olds /\ reader \in {"bbip", "sinaip"}
    /\ opened = "no" <=> pc \in {"new", "failed"}
    /\ opened = "no" => raw = {} /\ whole = FALSE /\ late = FALSE
    /\ pc = "search" => 1 <= i_s /\ i_s <= i_e + 1
    /\ pc = "keyed" => key < n
    /\ exporter = "done" => flushed = 2 * Size
    /\ opened = "new" => exporter # "waiting"
    /\ whole => opened = "new" /\ flushed >= 2 * (n + 1) /\ mapped = Size
    /\ late => exporter = "done"
    /\ ip \in Addr /\ ptr \in Nat /\ bbip_errno \in 0..3

\* A slot that the lookup needs is filled from its cell.
LEMMA LoadedFacts ==
    ASSUME NEW array \in [0..n -> Nat], NEW s \in 0..n, NEW c \in 0..(3 * n),
           old \in Olds, flushed \in 0..(2 * Size)
    PROVE  /\ H!Loaded(array, s, c) \in [0..n -> Nat]
           /\ \A k \in 0..n : k # s => H!Loaded(array, s, c)[k] = array[k]
           /\ s # 0 => H!Loaded(array, s, c)[0] = array[0]
           /\ array[s] # 0 => H!Loaded(array, s, c)[s] = array[s]
           /\ array[s] = 0 => H!Loaded(array, s, c)[s] = Word(view, c)
  <1>1. H!Word(view, c) = Word(view, c)
    BY DEF H!Word, Word
  <1>2. Word(view, c) \in Nat
    BY ViewFacts, NewFacts
  <1>3. H!Loaded(array, s, c) = IF array[s] = 0 THEN [array EXCEPT ![s] = Word(view, c)] ELSE array
    BY <1>1 DEF H!Loaded
  <1>4. 0 \in 0..n
    BY NewFacts
  <1> QED BY <1>2, <1>3, <1>4

LEMMA Arrays ==
    /\ Array("start") = index_start /\ Array("end") = index_end /\ Array("ptr") = index_ptr
    /\ Array("start")' = index_start' /\ Array("end")' = index_end' /\ Array("ptr")' = index_ptr'
    /\ FirstCell("start") = 1 /\ FirstCell("end") = n + 1 /\ FirstCell("ptr") = 2 * n + 1
  BY DEF Array, FirstCell, StartCell, EndCell, PtrCell, n

\* The slots of an index that is in use.
LEMMA IndexTypes ==
    ASSUME Common, pc \notin {"new", "failed"}
    PROVE  /\ index_start \in [0..n -> Nat] /\ index_end \in [0..n -> Nat]
           /\ index_ptr \in [0..n -> Nat]
  BY Arrays DEF Common, TypeOK, HasIndex

\* What one array is after a step of a lookup: empty slots above 0 and below n
\* may have been read.
Filled(before, after, first) ==
    /\ after \in [0..n -> Nat]
    /\ \A k \in 1..n : \/ after[k] = before[k]
                       \/ k < n /\ before[k] = 0 /\ after[k] = Word(view, first + k - 1)

\* What a step of the lookup does.
Effect ==
    /\ Filled(index_start, index_start', 1)
    /\ Filled(index_end, index_end', n + 1)
    /\ Filled(index_ptr, index_ptr', 2 * n + 1)
    /\ index_start'[0] \in {index_start[0], n} /\ index_end'[0] = index_end[0]
    /\ pc \in {"search", "keyed"} /\ pc' \in {"search", "keyed", "answered"}
    /\ i_s' \in 0..(n + 1) /\ i_e' \in 0..n /\ key' \in 0..n /\ ptr' \in Nat
    /\ pc' = "search" => 1 <= i_s' /\ i_s' <= i_e' + 1
    /\ pc' = "keyed" => key' < n
    /\ ip' = ip /\ bbip_errno' = bbip_errno

LEMMA FilledSame ==
    ASSUME NEW a \in [0..n -> Nat], NEW first PROVE Filled(a, a, first)
  BY DEF Filled

LEMMA FilledLoaded ==
    ASSUME NEW a \in [0..n -> Nat], NEW s \in 0..(n - 1), NEW c \in 0..(3 * n),
           NEW first \in Nat, s # 0 => c = first + s - 1,
           old \in Olds, flushed \in 0..(2 * Size)
    PROVE  Filled(a, H!Loaded(a, s, c), first)
  <1>1. n \in Nat /\ s \in 0..n
    BY NewFacts
  <1> DEFINE b == H!Loaded(a, s, c)
  <1>2. /\ b \in [0..n -> Nat]
        /\ \A k \in 0..n : k # s => b[k] = a[k]
        /\ a[s] # 0 => b[s] = a[s]
        /\ a[s] = 0 => b[s] = Word(view, c)
    BY <1>1, LoadedFacts
  <1> HIDE DEF b
  <1>3. ASSUME NEW k \in 1..n
        PROVE  b[k] = a[k] \/ (k < n /\ a[k] = 0 /\ b[k] = Word(view, first + k - 1))
    <2>1. CASE k = s
      <3>1. k < n /\ c = first + k - 1
        BY <1>1, <2>1
      <3> QED BY <1>2, <2>1, <3>1
    <2>2. CASE k # s
      BY <1>1, <1>2, <2>2
    <2> QED BY <2>1, <2>2
  <1>4. b \in [0..n -> Nat]
    BY <1>2
  <1> QED BY <1>3, <1>4 DEF Filled, b

LEMMA ProbeEffect == Common /\ H!Probe => Effect
  <1> SUFFICES ASSUME Common, H!Probe PROVE Effect
    OBVIOUS
  <1> DEFINE mid == (i_s + i_e) \div 2
             slot == mid - 1
  <1>1. /\ pc = "search" /\ i_s <= i_e /\ 1 <= i_s
        /\ i_s \in 0..(n + 1) /\ i_e \in 0..n /\ key \in 0..n /\ ip \in Nat /\ ptr \in Nat
        /\ n \in Nat /\ old \in Olds /\ flushed \in 0..(2 * Size)
    BY MaxIPAssumption, NewFacts DEF Common, TypeOK, H!Probe, Addr
  <1>2. mid \in i_s..i_e /\ slot \in 0..(n - 1) /\ mid \in 1..n /\ slot \in 0..n /\ slot \in 0..(3 * n)
    BY <1>1
  <1>3. /\ index_start \in [0..n -> Nat] /\ index_end \in [0..n -> Nat] /\ index_ptr \in [0..n -> Nat]
    BY <1>1, IndexTypes
  <1>4. /\ index_start' = H!Loaded(index_start, slot, slot)
        /\ ptr' = IF index_start[slot] = 0 THEN slot ELSE ptr
        /\ \/ /\ key' = slot
              /\ pc' = "keyed"
              /\ i_s' = i_s /\ i_e' = i_e
           \/ /\ i_e' = mid - 1
              /\ i_s' = i_s /\ key' = key /\ pc' = pc
           \/ /\ i_s' = mid + 1
              /\ i_e' = i_e /\ key' = key /\ pc' = pc
        /\ index_end' = index_end /\ index_ptr' = index_ptr
        /\ ip' = ip /\ bbip_errno' = bbip_errno
    BY DEF H!Probe, H!opened, H!StartCell, H!HighAfter, H!LowAfter
  <1> HIDE DEF slot
  <1>5. Filled(index_start, index_start', 1)
    <2>1. 1 \in Nat /\ slot = 1 + slot - 1
      BY <1>2
    <2>2. Filled(index_start, H!Loaded(index_start, slot, slot), 1)
      BY <1>1, <1>2, <1>3, <2>1, FilledLoaded
    <2> QED BY <1>4, <2>2
  <1>6. Filled(index_end, index_end', n + 1) /\ Filled(index_ptr, index_ptr', 2 * n + 1)
    BY <1>3, <1>4, FilledSame
  <1>7. index_start'[0] \in {index_start[0], n} /\ index_end'[0] = index_end[0]
    <2>1. CASE slot = 0
      <3>1. /\ H!Loaded(index_start, slot, slot)[slot] \in {index_start[slot], Word(view, slot)}
            /\ Word(view, 0) = n
        BY <1>1, <1>2, <1>3, LoadedFacts, ViewFacts
      <3> QED BY <1>4, <2>1, <3>1
    <2>2. CASE slot # 0
      <3>1. H!Loaded(index_start, slot, slot)[0] = index_start[0]
        BY <1>1, <1>2, <1>3, <2>2, LoadedFacts
      <3> QED BY <1>4, <3>1
    <2> QED BY <1>4, <2>1, <2>2
  <1>8. /\ i_s' \in 0..(n + 1) /\ i_e' \in 0..n /\ key' \in 0..n /\ ptr' \in Nat
        /\ pc' = "search" => 1 <= i_s' /\ i_s' <= i_e' + 1
        /\ pc' = "keyed" => key' < n
    <2> HIDE DEF mid
    <2> QED BY <1>1, <1>2, <1>4
  <1> QED BY <1>1, <1>4, <1>5, <1>6, <1>7, <1>8 DEF Effect

LEMMA DecideEffect == Common /\ H!Decide => Effect
  <1> SUFFICES ASSUME Common, H!Decide PROVE Effect
    OBVIOUS
  <1> DEFINE slot == i_e - 1
             start == IF i_e > 1 THEN H!Loaded(index_start, slot, slot) ELSE index_start
             end == IF i_e > 1 THEN H!Loaded(index_end, slot, n + slot) ELSE index_end
  <1>1. /\ pc = "search" /\ i_s > i_e
        /\ i_s \in 0..(n + 1) /\ i_e \in 0..n /\ key \in 0..n /\ ip \in Nat /\ ptr \in Nat
        /\ n \in Nat /\ n > 0 /\ old \in Olds /\ flushed \in 0..(2 * Size)
    BY MaxIPAssumption, NewFacts DEF Common, TypeOK, H!Decide, Addr
  <1>2. view.n = n
    BY <1>1, ViewFacts
  <1>3. /\ index_start \in [0..n -> Nat] /\ index_end \in [0..n -> Nat] /\ index_ptr \in [0..n -> Nat]
    BY <1>1, IndexTypes
  <1>4. /\ index_start' = start
        /\ index_end' = end
        /\ ptr' \in {ptr, n + slot, slot} /\ (~(i_e > 1) => ptr' = ptr)
        /\ key' \in {slot, 0} /\ (~(i_e >= 1) => key' = 0)
        /\ pc' = "keyed"
        /\ index_ptr' = index_ptr /\ i_s' = i_s /\ i_e' = i_e
        /\ ip' = ip /\ bbip_errno' = bbip_errno
    BY <1>2 DEF H!Decide, H!opened, H!StartCell, H!EndCell
  <1>5. i_e > 1 => slot \in 0..(n - 1) /\ slot # 0 /\ slot \in 0..(3 * n) /\ n + slot \in 0..(3 * n)
                   /\ slot \in 0..n /\ slot = 1 + slot - 1 /\ n + slot = (n + 1) + slot - 1
    BY <1>1
  <1>6. Filled(index_start, index_start', 1) /\ Filled(index_end, index_end', n + 1)
        /\ index_start'[0] = index_start[0] /\ index_end'[0] = index_end[0]
    <2>1. CASE i_e > 1
      <3> HIDE DEF slot
      <3>1. index_start' = H!Loaded(index_start, slot, slot)
            /\ index_end' = H!Loaded(index_end, slot, n + slot)
        BY <1>4, <2>1
      <3>2. /\ Filled(index_start, H!Loaded(index_start, slot, slot), 1)
            /\ Filled(index_end, H!Loaded(index_end, slot, n + slot), n + 1)
        <4>1. 1 \in Nat /\ n + 1 \in Nat
          BY <1>1
        <4>2. Filled(index_start, H!Loaded(index_start, slot, slot), 1)
          BY <1>1, <1>3, <1>5, <2>1, <4>1, FilledLoaded
        <4>3. Filled(index_end, H!Loaded(index_end, slot, n + slot), n + 1)
          BY <1>1, <1>3, <1>5, <2>1, <4>1, FilledLoaded
        <4> QED BY <4>2, <4>3
      <3>3. /\ H!Loaded(index_start, slot, slot)[0] = index_start[0]
            /\ H!Loaded(index_end, slot, n + slot)[0] = index_end[0]
        <4>1. H!Loaded(index_start, slot, slot)[0] = index_start[0]
          BY <1>1, <1>3, <1>5, <2>1, LoadedFacts
        <4>2. H!Loaded(index_end, slot, n + slot)[0] = index_end[0]
          BY <1>1, <1>3, <1>5, <2>1, LoadedFacts
        <4> QED BY <4>1, <4>2
      <3> QED BY <3>1, <3>2, <3>3
    <2>2. CASE ~(i_e > 1)
      <3>1. index_start' = index_start /\ index_end' = index_end
        BY <1>4, <2>2
      <3> QED BY <1>3, <3>1, FilledSame
    <2> QED BY <2>1, <2>2
  <1>7. Filled(index_ptr, index_ptr', 2 * n + 1)
    BY <1>3, <1>4, FilledSame
  <1>8. /\ i_s' \in 0..(n + 1) /\ i_e' \in 0..n /\ key' \in 0..n /\ ptr' \in Nat /\ key' < n
    BY <1>1, <1>4
  <1> QED BY <1>1, <1>4, <1>6, <1>7, <1>8 DEF Effect

LEMMA NothingEffect == Common /\ H!ReturnNothing => Effect
  <1> SUFFICES ASSUME Common, H!ReturnNothing PROVE Effect
    OBVIOUS
  <1>1. /\ pc = "keyed" /\ pc' = "answered" /\ ptr' = ptr
        /\ index_start' = index_start /\ index_end' = index_end /\ index_ptr' = index_ptr
        /\ i_s' = i_s /\ i_e' = i_e /\ key' = key /\ ip' = ip /\ bbip_errno' = bbip_errno
    BY DEF H!ReturnNothing, H!opened, H!index, H!search
  <1>2. i_s \in 0..(n + 1) /\ i_e \in 0..n /\ key \in 0..n /\ ptr \in Nat
    BY DEF Common, TypeOK
  <1> QED BY <1>1, <1>2, IndexTypes, FilledSame DEF Effect

LEMMA RecordEffect ==
    Common /\ H!ReturnRecord /\ ptr' \in {ptr, index_ptr'[key] + 1} => Effect
  <1> SUFFICES ASSUME Common, H!ReturnRecord, ptr' \in {ptr, index_ptr'[key] + 1}
               PROVE  Effect
    OBVIOUS
  <1>1. /\ pc = "keyed" /\ pc' = "answered" /\ key # 0
        /\ index_start' = index_start /\ index_end' = index_end
        /\ index_ptr' = H!Loaded(index_ptr, key, H!PtrCell(view, key))
        /\ i_s' = i_s /\ i_e' = i_e /\ key' = key /\ ip' = ip /\ bbip_errno' = bbip_errno
    BY DEF H!ReturnRecord, H!opened, H!search
  <1>2. /\ i_s \in 0..(n + 1) /\ i_e \in 0..n /\ key \in 0..n /\ key < n /\ ptr \in Nat
        /\ old \in Olds /\ flushed \in 0..(2 * Size) /\ n \in Nat
    BY <1>1, NewFacts DEF Common, TypeOK
  <1>3. H!PtrCell(view, key) = 2 * n + key
    BY <1>2, ViewFacts DEF H!PtrCell
  <1>4. /\ index_start \in [0..n -> Nat] /\ index_end \in [0..n -> Nat] /\ index_ptr \in [0..n -> Nat]
    BY <1>1, IndexTypes
  <1>5. 2 * n + key \in 0..(3 * n) /\ 2 * n + key = (2 * n + 1) + key - 1 /\ key \in 0..(n - 1)
        /\ 2 * n + 1 \in Nat
    BY <1>1, <1>2
  <1>6. Filled(index_ptr, index_ptr', 2 * n + 1)
    BY <1>1, <1>2, <1>3, <1>4, <1>5, FilledLoaded
  <1>7. ptr' \in Nat
    BY <1>2, <1>6 DEF Filled
  <1>8. Filled(index_start, index_start', 1) /\ Filled(index_end, index_end', n + 1)
    BY <1>1, <1>4, FilledSame
  <1> QED BY <1>1, <1>2, <1>6, <1>7, <1>8 DEF Effect

LEMMA LookupEffect == Common /\ Lookup => Effect /\ UNCHANGED <<disk, history, raw>>
  BY ProbeEffect, DecideEffect, NothingEffect, RecordEffect
     DEF Lookup, H!SearchReturn, H!LuaReturn

\* The type invariant with the arrays by their names.
LEMMA Types ==
    TypeOK <=>
        /\ exporter \in {"waiting", "writing", "stopped", "done"}
        /\ flushed \in 0..(2 * Size) /\ mapped \in 0..Size
        /\ opened \in {"no", "old", "new"}
        /\ raw \subseteq Steps \X (1..n)
        /\ pc \in {"new", "failed", "idle", "search", "keyed", "answered", "killed", "astray",
                   "start", "end", "ptr", "convert"}
        /\ opened # "no" => /\ index_start \in [0..n -> Nat] /\ index_end \in [0..n -> Nat]
                            /\ index_ptr \in [0..n -> Nat]
        /\ i_s \in 0..(n + 1) /\ i_e \in 0..n /\ key \in 0..n
  BY Arrays DEF TypeOK, HasIndex, Steps

LEMMA TypesNext ==
    ASSUME /\ exporter' \in {"waiting", "writing", "stopped", "done"}
           /\ flushed' \in 0..(2 * Size) /\ mapped' \in 0..Size
           /\ opened' \in {"no", "old", "new"}
           /\ raw' \subseteq Steps \X (1..n)
           /\ pc' \in {"new", "failed", "idle", "search", "keyed", "answered", "killed", "astray",
                       "start", "end", "ptr", "convert"}
           /\ opened' # "no" => /\ index_start' \in [0..n -> Nat] /\ index_end' \in [0..n -> Nat]
                                /\ index_ptr' \in [0..n -> Nat]
           /\ i_s' \in 0..(n + 1) /\ i_e' \in 0..n /\ key' \in 0..n
    PROVE  TypeOK'
  <1>1. \A s \in Steps : opened' # "no" => Array(s)' \in [0..n -> Nat]
    BY Arrays DEF Steps
  <1> QED BY <1>1 DEF TypeOK, HasIndex, Steps

LEMMA Exporters ==
    flushed \in Nat /\ (Truncate \/ Flush \/ Stop \/ Finish) =>
        /\ exporter \in {"waiting", "writing"} /\ UNCHANGED <<old, had, reader, handle>>
        /\ exporter' # "waiting" /\ (exporter' = "done" => flushed' = 2 * Size)
        /\ flushed' = flushed \/ (flushed < 2 * Size /\ flushed' \in {2, flushed + 1} /\ exporter = "writing"
                                  /\ flushed' > flushed /\ exporter' = exporter)
        /\ exporter' \in {"writing", "stopped", "done"}
  <1> SUFFICES ASSUME flushed \in Nat, Truncate \/ Flush \/ Stop \/ Finish
               PROVE  /\ exporter \in {"waiting", "writing"} /\ UNCHANGED <<old, had, reader, handle>>
                      /\ exporter' # "waiting" /\ (exporter' = "done" => flushed' = 2 * Size)
                      /\ flushed' = flushed \/ (flushed < 2 * Size /\ flushed' \in {2, flushed + 1} /\ exporter = "writing"
                                                /\ flushed' > flushed /\ exporter' = exporter)
                      /\ exporter' \in {"writing", "stopped", "done"}
    OBVIOUS
  <1>1. CASE Truncate BY <1>1 DEF Truncate
  <1>2. CASE Flush
    <2>1. (flushed = 0 => 2 > flushed) /\ flushed + 1 > flushed
      OBVIOUS
    <2> QED BY <1>2, <2>1 DEF Flush
  <1>3. CASE Stop BY <1>3 DEF Stop
  <1>4. CASE Finish BY <1>4 DEF Finish
  <1> QED BY <1>1, <1>2, <1>3, <1>4

LEMMA CommonInit == Init => Common
  <1> SUFFICES ASSUME Init PROVE Common
    OBVIOUS
  <1>1. n \in Nat /\ n > 0 /\ Size \in Nat
    BY NewFacts
  <1>2. TypeOK
    BY <1>1, Types DEF Init
  <1>3. 0 \in Addr /\ reader \in {"bbip", "sinaip"}
    BY MaxIPAssumption, PublishAssumption DEF Init, Addr
  <1> QED BY <1>2, <1>3 DEF Init, Common

LEMMA CommonExports == Common /\ (Truncate \/ Flush \/ Stop \/ Finish) => Common'
  <1> SUFFICES ASSUME Common, Truncate \/ Flush \/ Stop \/ Finish PROVE Common'
    OBVIOUS
  <1>1. /\ exporter \in {"waiting", "writing"} /\ UNCHANGED <<old, had, reader, handle>>
        /\ exporter' # "waiting" /\ (exporter' = "done" => flushed' = 2 * Size)
        /\ flushed' = flushed \/ (flushed < 2 * Size /\ flushed' \in {2, flushed + 1} /\ exporter = "writing"
                                  /\ flushed' > flushed /\ exporter' = exporter)
        /\ exporter' \in {"writing", "stopped", "done"}
    BY Exporters DEF Common, TypeOK
  <1>2. UNCHANGED <<opened, mapped, whole, late, raw, index_start, index_end, index_ptr, ptr, pc,
                    bbip_errno, ip, i_s, i_e, key, answer, old, had, reader>>
    BY <1>1 DEF handle, history, index, search
  <1>3. flushed \in 0..(2 * Size) /\ Size \in Nat /\ Size >= 5
    BY NewFacts DEF Common, TypeOK
  <1>4. flushed' \in 0..(2 * Size) /\ flushed' >= flushed
    BY <1>1, <1>3
  <1>5. TypeOK'
    BY <1>1, <1>2, <1>4, Types, TypesNext DEF Common
  <1>6. whole' => opened' = "new" /\ flushed' >= 2 * (n + 1) /\ mapped' = Size
    BY <1>2, <1>3, <1>4, NewFacts DEF Common
  <1>7. late' = FALSE \/ ~late
    BY <1>1 DEF Common
  <1> QED BY <1>1, <1>2, <1>5, <1>6, <1>7 DEF Common

LEMMA OpenEffect ==
    ASSUME Common, Open
    PROVE  /\ UNCHANGED <<old, had, reader, exporter, flushed, raw, late, ptr, bbip_errno, ip, i_s, i_e, key, answer>>
           /\ pc = "new" /\ pc' = "idle"
           /\ index_start' = [k \in 0..n |-> 0] /\ index_end' = [k \in 0..n |-> 0]
           /\ index_ptr' = [k \in 0..n |-> 0]
           /\ opened' = IF exporter = "waiting" THEN "old" ELSE "new"
           /\ mapped' = LengthNow /\ mapped' \in 0..Size
           /\ whole' => opened' = "new" /\ flushed >= 2 * (n + 1) /\ mapped' = Size
           /\ whole' \in BOOLEAN
  <1>1. old \in Olds /\ flushed \in 0..(2 * Size)
    BY DEF Common, TypeOK
  <1>2. H!Slots = 0..n
    BY <1>1, ViewFacts DEF H!Slots
  <1>3. /\ UNCHANGED <<disk, raw, late>>
        /\ pc = "new" /\ pc' = "idle"
        /\ index_start' = [k \in 0..n |-> 0] /\ index_end' = [k \in 0..n |-> 0]
        /\ index_ptr' = [k \in 0..n |-> 0]
        /\ UNCHANGED <<ptr, bbip_errno, ip, i_s, i_e, key, answer>>
        /\ opened' = IF exporter = "waiting" THEN "old" ELSE "new"
        /\ mapped' = LengthNow
        /\ whole' = (exporter # "waiting" /\ \A k \in 1..n : Whole(BlobCell(New, k)))
    BY <1>2 DEF Open, H!BbipInit, H!opened, H!search, Mapped
  <1>4. LengthNow \in 0..Size
    <2>1. Length \in 0..Size /\ Size \in 0..Size
      BY <1>1, LengthFacts, NewFacts
    <2> QED BY <2>1 DEF LengthNow
  <1>5. ASSUME whole'
        PROVE  flushed >= 2 * (n + 1) /\ LengthNow = Size
    <2>1. n \in 1..n /\ BlobCell(New, n) = 4 * n
      BY NewFacts
    <2>2. 4 * n \in 0..(Size - 1) /\ 4 * n > 3 * n /\ 4 * n - 3 * n + 1 = n + 1
      BY NewFacts
    <2>3. Position(4 * n) = n + 1
      BY <2>2, Places
    <2>4. 2 * (n + 1) <= flushed
      BY <1>3, <1>5, <2>1, <2>3 DEF Whole
    <2>5. flushed >= 2 * (n + 1)
      BY <1>1, <2>4, NewFacts
    <2> QED BY <1>1, <1>3, <1>5, <2>5, LengthFacts DEF LengthNow
  <1> QED BY <1>3, <1>4, <1>5 DEF disk

LEMMA CommonOpen == Common /\ Open => Common'
  <1> SUFFICES ASSUME Common, Open PROVE Common'
    OBVIOUS
  <1>1. n \in Nat
    BY NewFacts
  <1>2. [k \in 0..n |-> 0] \in [0..n -> Nat]
    OBVIOUS
  <1>3. TypeOK'
    BY <1>2, Types, TypesNext, OpenEffect DEF Common
  <1>4. /\ UNCHANGED <<old, reader, exporter, flushed, raw, late, ptr, bbip_errno, ip, i_s, i_e, key>>
        /\ pc' = "idle" /\ opened' = IF exporter = "waiting" THEN "old" ELSE "new"
        /\ whole' => opened' = "new" /\ flushed >= 2 * (n + 1) /\ mapped' = Size
    BY OpenEffect
  <1>5. opened' # "no" /\ (opened' = "new" => exporter' # "waiting")
    BY <1>4
  <1> QED BY <1>3, <1>4, <1>5 DEF Common

LEMMA CommonOpenFails == Common /\ OpenFails => Common'
  <1> SUFFICES ASSUME Common, OpenFails PROVE Common'
    OBVIOUS
  <1>1. /\ UNCHANGED <<disk, history, raw, index_start, index_end, index_ptr, ptr, ip, i_s, i_e, key, answer>>
        /\ pc = "new" /\ pc' = "failed" /\ bbip_errno' \in 1..3
    BY DEF OpenFails, H!BbipInitFails, H!index, H!search
  <1>2. TypeOK'
    BY <1>1, Types, TypesNext DEF Common, disk, history
  <1> QED BY <1>1, <1>2 DEF Common, disk, history

LEMMA CommonReopen == Common /\ Reopen => Common'
  <1> SUFFICES ASSUME Common, Reopen PROVE Common'
    OBVIOUS
  <1>1. /\ UNCHANGED disk
        /\ pc' = "new" /\ opened' = "no" /\ mapped' = 0 /\ whole' = FALSE /\ late' = FALSE
        /\ raw' = {} /\ ptr' = 0 /\ bbip_errno' = 0
        /\ ip' = 0 /\ i_s' = 0 /\ i_e' = 0 /\ key' = 0
    BY DEF Reopen
  <1>2. 0 \in Addr /\ n \in Nat /\ Size \in Nat
    BY MaxIPAssumption, NewFacts DEF Addr
  <1>3. TypeOK'
    BY <1>1, <1>2, Types, TypesNext DEF Common, disk
  <1> QED BY <1>1, <1>2, <1>3 DEF Common, disk

LEMMA QueryEffect ==
    ASSUME Common, NEW a \in Addresses, Query(a)
    PROVE  /\ UNCHANGED <<disk, opened, mapped, whole, raw, index_start, index_end, index_ptr, ptr,
                          bbip_errno, key, answer>>
           /\ raw = {} /\ pc \in {"idle", "answered"} /\ pc' = "search"
           /\ ip' = a /\ i_s' = 1 /\ i_e' = n
           /\ late' = (exporter = "done")
  <1>1. view.n = n
    BY ViewFacts DEF Common, TypeOK
  <1> QED BY <1>1 DEF Query, H!Query, H!Ready, H!opened, H!index

LEMMA CommonQuery == ASSUME NEW a \in Addresses PROVE Common /\ Query(a) => Common'
  <1> SUFFICES ASSUME Common, Query(a) PROVE Common'
    OBVIOUS
  <1>1. a \in Addr /\ n \in Nat /\ 1 \in 0..(n + 1) /\ n \in 0..n /\ 1 <= n + 1
    BY PublishAssumption, NewFacts
  <1>2. TypeOK'
    BY <1>1, Types, TypesNext, QueryEffect DEF Common, disk
  <1>3. /\ UNCHANGED <<old, reader, exporter, flushed, opened, mapped, whole, raw, ptr, bbip_errno, key>>
        /\ pc \in {"idle", "answered"} /\ pc' = "search" /\ ip' = a /\ i_s' = 1 /\ i_e' = n
        /\ late' = (exporter = "done")
    BY QueryEffect DEF disk
  <1>4. opened # "no"
    BY <1>3 DEF Common
  <1>5. late' => exporter' = "done"
    BY <1>3
  <1>6. /\ opened' # "no" /\ pc' \notin {"new", "failed"}
        /\ pc' = "search" => 1 <= i_s' /\ i_s' <= i_e' + 1
        /\ ip' \in Addr
    BY <1>1, <1>3, <1>4
  <1>7. /\ exporter' = "done" => flushed' = 2 * Size
        /\ opened' = "new" => exporter' # "waiting"
        /\ whole' => opened' = "new" /\ flushed' >= 2 * (n + 1) /\ mapped' = Size
        /\ ptr' \in Nat /\ bbip_errno' \in 0..3
        /\ old' \in Olds /\ reader' \in {"bbip", "sinaip"}
    BY <1>3 DEF Common
  <1> QED BY <1>2, <1>3, <1>5, <1>6, <1>7 DEF Common

LEMMA CommonLookup == Common /\ Lookup => Common'
  <1> SUFFICES ASSUME Common, Lookup PROVE Common'
    OBVIOUS
  <1>1. Effect /\ UNCHANGED <<disk, history, raw>>
    BY LookupEffect
  <1>2. TypeOK'
    BY <1>1, Types, TypesNext DEF Common, disk, history, Effect, Filled
  <1> QED BY <1>1, <1>2 DEF Common, disk, history, Effect

LEMMA CommonDies == Common /\ (Killed \/ Astray) => Common'
  <1> SUFFICES ASSUME Common, Killed \/ Astray PROVE Common'
    OBVIOUS
  <1>1. /\ UNCHANGED <<disk, history, raw, index, ptr, bbip_errno, search, answer>>
        /\ pc' \in {"killed", "astray"}
    BY DEF Killed, Astray
  <1>2. pc \notin {"new", "failed"}
    <2>1. CASE Astray
      BY <2>1 DEF Astray
    <2>2. CASE Killed
      <3>1. PICK c : c \in Touched
        BY <2>2 DEF Killed
      <3> QED BY <3>1 DEF Touched
    <2> QED BY <2>1, <2>2
  <1>3. TypeOK'
    BY <1>1, Types, TypesNext DEF Common, disk, history, index, search
  <1> QED BY <1>1, <1>2, <1>3 DEF Common, disk, history, index, search

\* What one fread of a preload finds, and leaves in the array.
LEMMA PresentFacts ==
    ASSUME Common, NEW s \in Steps
    PROVE  /\ Present(FirstCell(s)) \in 0..n
           /\ exporter # "waiting" =>
                 /\ flushed < 4 => Present(FirstCell(s)) = 0
                 /\ flushed >= 4 => Present(FirstCell(s)) = n
  <1> DEFINE first == FirstCell(s)
  <1>1. n \in Nat /\ n > 0 /\ Size = 4 * n + 1 /\ Size \in Nat
    BY NewFacts
  <1>2. first \in 1..(2 * n + 1)
    BY <1>1, Arrays DEF Steps
  <1>3. flushed \in 0..(2 * Size)
    BY DEF Common, TypeOK
  <1>4. LengthNow \in 0..Size
    <2>1. Length \in 0..Size /\ Size \in 0..Size
      BY <1>1, <1>3, LengthFacts
    <2> QED BY <2>1 DEF LengthNow
  <1>5. exporter # "waiting" => /\ flushed < 4 => LengthNow \in {0, 1}
                                /\ flushed >= 4 => LengthNow >= 3 * n + 2
    <2>1. flushed < 4 => flushed < 2 \/ flushed \in {2, 3}
      BY <1>1, <1>3
    <2> QED BY <1>3, <2>1, LengthFacts DEF LengthNow
  <1> HIDE DEF first
  <1>6. Present(first) = IF LengthNow < first THEN 0
                         ELSE IF LengthNow - first < n THEN LengthNow - first ELSE n
    BY DEF Present
  <1>7. Present(first) \in 0..n
    BY <1>1, <1>2, <1>4, <1>6
  <1>8. LengthNow \in {0, 1} => Present(first) = 0
    BY <1>1, <1>2, <1>6
  <1>9. LengthNow >= 3 * n + 2 => Present(first) = n
    BY <1>1, <1>2, <1>4, <1>6
  <1> QED BY <1>5, <1>7, <1>8, <1>9 DEF first

LEMMA ReadFacts ==
    ASSUME Common, pc \in Steps, NEW s \in Steps
    PROVE  /\ AfterRead(s) \in [0..n -> Nat] /\ Array(s) \in [0..n -> Nat]
           /\ AfterRead(s)[0] = Array(s)[0]
           /\ \A k \in 1..n : AfterRead(s)[k] = IF k <= Present(FirstCell(s))
                                                THEN Word(view, FirstCell(s) + k - 1)
                                                ELSE Array(s)[k]
  <1> DEFINE first == FirstCell(s)
             present == Present(first)
             array == Array(s)
  <1>1. n \in Nat /\ n > 0
    BY NewFacts
  <1>2. first \in 1..(2 * n + 1)
    BY <1>1, Arrays DEF Steps
  <1>3. present \in 0..n
    BY PresentFacts
  <1>4. array \in [0..n -> Nat]
    <2>1. pc \notin {"new", "failed"}
      BY DEF Steps
    <2> QED BY <2>1, IndexTypes, Arrays DEF Steps
  <1>5. \A c \in 1..(3 * n) : Word(view, c) \in Nat
    BY ViewFacts DEF Common, TypeOK
  <1>6. AfterRead(s) = [k \in 0..n |-> IF k \in 1..present THEN Word(view, first + k - 1) ELSE array[k]]
    BY DEF AfterRead
  <1> HIDE DEF first, present, array
  <1>7. \A k \in 1..present : first + k - 1 \in 1..(3 * n)
    BY <1>1, <1>2, <1>3
  <1>8. AfterRead(s) \in [0..n -> Nat]
    BY <1>4, <1>5, <1>6, <1>7
  <1>9. 0 \in 0..n /\ 0 \notin 1..present /\ \A k \in 1..n : k \in 0..n /\ (k \in 1..present <=> k <= present)
    BY <1>1, <1>3
  <1>10. AfterRead(s)[0] = array[0]
    BY <1>6, <1>9
  <1>11. \A k \in 1..n : AfterRead(s)[k] = IF k <= present THEN Word(view, first + k - 1) ELSE array[k]
    BY <1>6, <1>9
  <1> QED BY <1>4, <1>8, <1>10, <1>11 DEF first, present, array

\* The step of the preload that reads an array, by its name.
LEMMA ReadEffect ==
    ASSUME Common, PreloadReads
    PROVE  /\ pc \in Steps /\ UNCHANGED <<disk, history, ptr, bbip_errno, search, answer>>
           /\ pc' \in {"idle", "end", "ptr", "convert"}
           /\ \A s \in Steps : Array(s)' = IF s = pc THEN AfterRead(s) ELSE Array(s)
           /\ raw' = RawAfterRead(pc)
           /\ pc' = IF reader = "bbip" /\ Present(FirstCell(pc)) < n THEN "idle"
                    ELSE CASE pc = "start" -> "end" [] pc = "end" -> "ptr" [] pc = "ptr" -> "convert"
  BY Arrays DEF PreloadReads, Steps

LEMMA RawTypes ==
    ASSUME Common, NEW s \in Steps
    PROVE  RawAfterRead(s) \subseteq Steps \X (1..n)
  <1>1. raw \subseteq Steps \X (1..n)
    BY DEF Common, TypeOK, Steps
  <1>2. Present(FirstCell(s)) \in 0..n /\ n \in Nat
    BY PresentFacts, NewFacts
  <1>3. \A k \in 1..Present(FirstCell(s)) : k \in 1..n
    BY <1>2
  <1>4. {w \in raw : w[1] # s \/ w[2] > Present(FirstCell(s))} \subseteq Steps \X (1..n)
    BY <1>1
  <1>5. {<<s, k>> : k \in {k \in 1..Present(FirstCell(s)) : AfterRead(s)[k] # 0}} \subseteq Steps \X (1..n)
    BY <1>3
  <1> QED BY <1>4, <1>5 DEF RawAfterRead

LEMMA CommonPreload == Common /\ (PreloadStarts \/ PreloadReads \/ PreloadConverts) => Common'
  <1> SUFFICES ASSUME Common, PreloadStarts \/ PreloadReads \/ PreloadConverts PROVE Common'
    OBVIOUS
  <1>1. /\ UNCHANGED <<disk, history, ptr, bbip_errno, search, answer>>
        /\ pc \notin {"new", "failed"} /\ pc' \in {"idle", "start", "end", "ptr", "convert"}
        /\ raw' \subseteq Steps \X (1..n)
        /\ index_start' \in [0..n -> Nat] /\ index_end' \in [0..n -> Nat] /\ index_ptr' \in [0..n -> Nat]
    <2>1. CASE PreloadStarts
      <3>1. /\ UNCHANGED <<disk, history, raw, index, ptr, bbip_errno, search, answer>>
            /\ pc \in {"idle", "answered"} /\ pc' = "start"
        BY <2>1 DEF PreloadStarts, H!Ready
      <3>2. raw \subseteq Steps \X (1..n)
        BY Types DEF Common
      <3>3. /\ index_start \in [0..n -> Nat] /\ index_end \in [0..n -> Nat] /\ index_ptr \in [0..n -> Nat]
        BY <3>1, IndexTypes
      <3> QED BY <3>1, <3>2, <3>3 DEF index
    <2>2. CASE PreloadReads
      <3>1. /\ pc \in Steps /\ UNCHANGED <<disk, history, ptr, bbip_errno, search, answer>>
            /\ pc' \in {"idle", "end", "ptr", "convert"}
            /\ \A s \in Steps : Array(s)' = IF s = pc THEN AfterRead(s) ELSE Array(s)
            /\ raw' = RawAfterRead(pc)
        BY <2>2, ReadEffect
      <3>2. \A s \in Steps : AfterRead(s) \in [0..n -> Nat] /\ Array(s) \in [0..n -> Nat]
        BY <3>1, ReadFacts
      <3>3. \A s \in Steps : Array(s)' \in [0..n -> Nat]
        BY <3>1, <3>2
      <3>4. raw' \subseteq Steps \X (1..n)
        BY <3>1, RawTypes
      <3>5. index_start' \in [0..n -> Nat] /\ index_end' \in [0..n -> Nat] /\ index_ptr' \in [0..n -> Nat]
        BY <3>3, Arrays DEF Steps
      <3> QED BY <3>1, <3>4, <3>5 DEF Steps
    <2>3. CASE PreloadConverts
      <3>1. /\ UNCHANGED <<disk, history, index, ptr, bbip_errno, search, answer>>
            /\ pc = "convert" /\ pc' = "idle" /\ raw' \subseteq Steps \X (1..n)
        BY <2>3 DEF PreloadConverts, Steps
      <3>2. /\ index_start \in [0..n -> Nat] /\ index_end \in [0..n -> Nat] /\ index_ptr \in [0..n -> Nat]
        BY <3>1, IndexTypes
      <3> QED BY <3>1, <3>2 DEF index
    <2> QED BY <2>1, <2>2, <2>3
  <1>2. TypeOK'
    BY <1>1, Types, TypesNext DEF Common, disk, history, search
  <1> QED BY <1>1, <1>2 DEF Common, disk, history, search

LEMMA CommonNext == Common /\ [Next]_vars => Common'
  <1> SUFFICES ASSUME Common, [Next]_vars PROVE Common'
    OBVIOUS
  <1>1. CASE UNCHANGED vars
    <2>1. UNCHANGED <<old, had, reader, exporter, flushed, opened, mapped, whole, late, raw, index_start,
                      index_end, index_ptr, ptr, pc, bbip_errno, ip, i_s, i_e, key, answer>>
      BY <1>1 DEF vars, disk, history, index, search
    <2>2. TypeOK'
      BY <2>1, Types, TypesNext DEF Common
    <2> QED BY <2>1, <2>2 DEF Common
  <1> QED BY <1>1, CommonExports, CommonOpen, CommonOpenFails, CommonReopen, CommonQuery,
             CommonLookup, CommonDies, CommonPreload DEF Next

-----------------------------------------------------------------------------
\* What an array holds of a file of which so much is written: in each slot
\* nothing, the word, or its first bytes; and when its last slot is not empty, it
\* was read when all words before that one were there.
Held(array, first, written) ==
    \A k \in 1..n :
        LET w == Word(New, first + k - 1)
        IN  /\ array[k] \in {0, w, Torn(w)}
            /\ written < 4 => array[k] = 0
            /\ k < n /\ array[n] # 0 => array[k] = w

\* The index of a handle that was opened on the new file.
Cached ==
    opened = "new" =>
        /\ index_start[0] \in {0, n} /\ index_end[0] = 0
        /\ Held(index_start, 1, flushed)
        /\ Held(index_end, n + 1, flushed)
        /\ Held(index_ptr, 2 * n + 1, flushed)

LEMMA HeldEmpty ==
    ASSUME NEW first, NEW written PROVE Held([k \in 0..n |-> 0], first, written)
  BY NewFacts DEF Held

LEMMA HeldLater ==
    ASSUME NEW a, NEW first, NEW p \in Nat, NEW q \in Nat, p <= q, Held(a, first, p)
    PROVE  Held(a, first, q)
  <1>1. q < 4 => p < 4
    OBVIOUS
  <1> QED BY <1>1 DEF Held

LEMMA HeldSame ==
    ASSUME NEW a, NEW b, NEW first, NEW p, Held(a, first, p), \A k \in 1..n : b[k] = a[k]
    PROVE  Held(b, first, p)
  <1>1. n \in 1..n
    BY NewFacts
  <1> QED BY <1>1 DEF Held

\* One word that is read now.
LEMMA WordRead ==
    ASSUME Common, exporter # "waiting", NEW c \in 1..(3 * n)
    PROVE  /\ Word(view, c) \in {0, Word(New, c), Torn(Word(New, c))}
           /\ flushed < 4 => Word(view, c) = 0
           /\ Word(New, c) = 0 => Word(view, c) = 0
           /\ Word(view, c) # 0 => \A d \in 1..(c - 1) : Word(view, d) = Word(New, d)
  <1>1. old \in Olds /\ flushed \in 0..(2 * Size) /\ n \in Nat
    BY NewFacts DEF Common, TypeOK
  <1>2. Word(view, c) = WordNow(c) /\ \A d \in 1..(c - 1) : Word(view, d) = WordNow(d)
    BY <1>1, ViewFacts
  <1>3. Torn(0) = 0
    BY DEF Torn
  <1> QED BY <1>1, <1>2, <1>3, WordNowFacts

LEMMA HeldFilled ==
    ASSUME Common, exporter # "waiting", NEW first \in {1, n + 1, 2 * n + 1},
           NEW a, NEW b, Held(a, first, flushed), Filled(a, b, first)
    PROVE  Held(b, first, flushed)
  <1>1. n \in Nat /\ n \in 1..n
    BY NewFacts
  <1>2. b[n] = a[n]
    BY <1>1 DEF Filled
  <1>3. ASSUME NEW k \in 1..n
        PROVE  /\ b[k] \in {0, Word(New, first + k - 1), Torn(Word(New, first + k - 1))}
               /\ flushed < 4 => b[k] = 0
               /\ k < n /\ b[n] # 0 => b[k] = Word(New, first + k - 1)
    <2>1. first + k - 1 \in 1..(3 * n)
      BY <1>1
    <2>2. /\ a[k] \in {0, Word(New, first + k - 1), Torn(Word(New, first + k - 1))}
          /\ flushed < 4 => a[k] = 0
          /\ k < n /\ a[n] # 0 => a[k] = Word(New, first + k - 1)
      BY DEF Held
    <2>3. CASE b[k] = a[k]
      BY <1>2, <2>2, <2>3
    <2>4. CASE b[k] # a[k]
      <3>1. k < n /\ a[k] = 0 /\ b[k] = Word(view, first + k - 1)
        BY <2>4 DEF Filled
      <3> QED BY <1>2, <2>1, <2>2, <3>1, WordRead
    <2> QED BY <2>3, <2>4
  <1> QED BY <1>3 DEF Held

LEMMA HeldRead ==
    ASSUME Common, exporter # "waiting", NEW first \in {1, n + 1, 2 * n + 1},
           NEW a, NEW b, Held(a, first, flushed),
           \/ \A k \in 1..n : b[k] = a[k]
           \/ \A k \in 1..n : b[k] = Word(view, first + k - 1)
    PROVE  Held(b, first, flushed)
  <1>1. CASE \A k \in 1..n : b[k] = a[k]
    BY <1>1, HeldSame
  <1>2. CASE \A k \in 1..n : b[k] = Word(view, first + k - 1)
    <2>1. n \in Nat /\ n \in 1..n
      BY NewFacts
    <2>2. ASSUME NEW k \in 1..n
          PROVE  /\ b[k] \in {0, Word(New, first + k - 1), Torn(Word(New, first + k - 1))}
                 /\ flushed < 4 => b[k] = 0
                 /\ k < n /\ b[n] # 0 => b[k] = Word(New, first + k - 1)
      <3>1. first + k - 1 \in 1..(3 * n) /\ first + n - 1 \in 1..(3 * n)
        BY <2>1
      <3>2. k < n => first + k - 1 \in 1..((first + n - 1) - 1)
        BY <2>1
      <3>3. b[k] = Word(view, first + k - 1) /\ b[n] = Word(view, first + n - 1)
        BY <1>2, <2>1
      <3> QED BY <3>1, <3>2, <3>3, WordRead
    <2> QED BY <2>2 DEF Held
  <1> QED BY <1>1, <1>2

\* One fread of a preload of a handle on the new file finds all words or none.
LEMMA ReadsAllOrNone ==
    ASSUME Common, pc \in Steps, exporter # "waiting", NEW s \in Steps
    PROVE  \/ /\ flushed < 4 /\ Present(FirstCell(s)) = 0
              /\ \A k \in 1..n : AfterRead(s)[k] = Array(s)[k]
           \/ /\ flushed >= 4 /\ Present(FirstCell(s)) = n
              /\ \A k \in 1..n : AfterRead(s)[k] = Word(view, FirstCell(s) + k - 1)
  <1>1. \A k \in 1..n : ~(k <= 0) /\ k <= n
    BY NewFacts
  <1>2. flushed \in Nat
    BY NewFacts DEF Common, TypeOK
  <1>3. CASE flushed < 4
    <2>1. Present(FirstCell(s)) = 0
      BY <1>3, PresentFacts
    <2> QED BY <1>1, <1>3, <2>1, ReadFacts
  <1>4. CASE flushed >= 4
    <2>1. Present(FirstCell(s)) = n
      BY <1>4, PresentFacts
    <2> QED BY <1>1, <1>4, <2>1, ReadFacts
  <1> QED BY <1>2, <1>3, <1>4

LEMMA CachedRead ==
    ASSUME Common, Cached, PreloadReads PROVE Cached'
  <1> SUFFICES ASSUME opened' = "new" PROVE Cached'
    BY DEF Cached
  <1>1. /\ pc \in Steps /\ UNCHANGED <<disk, history>>
        /\ \A s \in Steps : Array(s)' = IF s = pc THEN AfterRead(s) ELSE Array(s)
    BY ReadEffect
  <1>2. opened = "new" /\ exporter # "waiting" /\ flushed' = flushed
    BY <1>1 DEF Common, disk, history
  <1>3. ASSUME NEW s \in Steps, Held(Array(s), FirstCell(s), flushed)
        PROVE  Held(Array(s)', FirstCell(s), flushed')
    <2>1. FirstCell(s) \in {1, n + 1, 2 * n + 1}
      BY Arrays DEF Steps
    <2>2. Held(AfterRead(s), FirstCell(s), flushed)
      BY <1>1, <1>2, <1>3, <2>1, ReadsAllOrNone, HeldRead
    <2> QED BY <1>1, <1>2, <1>3, <2>2
  <1>4. /\ Held(index_start', 1, flushed') /\ Held(index_end', n + 1, flushed')
        /\ Held(index_ptr', 2 * n + 1, flushed')
    BY <1>2, <1>3, Arrays DEF Cached, Steps
  <1>5. \A s \in Steps : AfterRead(s)[0] = Array(s)[0]
    BY <1>1, ReadFacts
  <1>6. index_start'[0] = index_start[0] /\ index_end'[0] = index_end[0]
    BY <1>1, <1>5, Arrays DEF Steps
  <1> QED BY <1>2, <1>4, <1>6 DEF Cached

LEMMA CachedNext == Common /\ Cached /\ [Next]_vars => Cached'
  <1> SUFFICES ASSUME Common, Cached, [Next]_vars, opened' = "new"
               PROVE  /\ index_start'[0] \in {0, n} /\ index_end'[0] = 0
                      /\ Held(index_start', 1, flushed')
                      /\ Held(index_end', n + 1, flushed')
                      /\ Held(index_ptr', 2 * n + 1, flushed')
    BY DEF Cached
  <1>1. flushed \in Nat
    BY NewFacts DEF Common, TypeOK
  <1>2. CASE Truncate \/ Flush \/ Stop \/ Finish
    <2>1. flushed' \in Nat /\ flushed <= flushed'
      BY <1>1, <1>2, Exporters
    <2>2. UNCHANGED <<opened, index_start, index_end, index_ptr>>
      BY <1>1, <1>2, Exporters DEF handle, history, index
    <2> QED BY <1>1, <2>1, <2>2, HeldLater DEF Cached
  <1>3. CASE Open
    <2>1. /\ index_start' = [k \in 0..n |-> 0] /\ index_end' = [k \in 0..n |-> 0]
          /\ index_ptr' = [k \in 0..n |-> 0] /\ 0 \in 0..n
      BY <1>3, OpenEffect, NewFacts
    <2> QED BY <2>1, HeldEmpty
  <1>4. CASE Lookup
    <2>1. Effect /\ UNCHANGED <<opened, exporter, flushed>>
      BY <1>4, LookupEffect DEF disk, history
    <2>2. opened = "new" /\ exporter # "waiting" /\ flushed' = flushed
      BY <2>1 DEF Common
    <2>3. 1 \in {1, n + 1, 2 * n + 1} /\ n + 1 \in {1, n + 1, 2 * n + 1} /\ 2 * n + 1 \in {1, n + 1, 2 * n + 1}
      OBVIOUS
    <2>4. /\ Held(index_start', 1, flushed)
          /\ Held(index_end', n + 1, flushed)
          /\ Held(index_ptr', 2 * n + 1, flushed)
      BY <2>1, <2>2, <2>3, HeldFilled DEF Cached, Effect
    <2> QED BY <2>1, <2>2, <2>4 DEF Cached, Effect
  <1>5. CASE PreloadReads
    BY <1>5, CachedRead DEF Cached
  <1>6. ~Reopen /\ ~OpenFails
    BY DEF Reopen, OpenFails, history, H!BbipInitFails, Common
  <1>7. CASE UNCHANGED <<opened, flushed, index_start, index_end, index_ptr>>
    BY <1>7 DEF Cached
  <1>8. ASSUME NEW a \in Addresses, Query(a)
        PROVE  UNCHANGED <<opened, flushed, index_start, index_end, index_ptr>>
    BY <1>8, QueryEffect DEF disk
  <1>9. Killed \/ Astray \/ PreloadStarts \/ PreloadConverts \/ UNCHANGED vars =>
            UNCHANGED <<opened, flushed, index_start, index_end, index_ptr>>
    BY DEF Killed, Astray, PreloadStarts, PreloadConverts, vars, disk, history, index
  <1> QED BY <1>2, <1>3, <1>4, <1>5, <1>6, <1>7, <1>8, <1>9 DEF Next

-----------------------------------------------------------------------------
\* The arrays that a preload has read when it is at p.
Seen(p) ==
    IF p = "end" THEN {"start"}
    ELSE IF p = "ptr" THEN {"start", "end"}
    ELSE IF p = "convert" THEN Steps
    ELSE {}

\* In a handle of the new file only a running preload has words in the byte order
\* of the file: all that are not 0 of the arrays it has read.
Unread ==
    opened = "new" =>
        \A s \in Steps, k \in 1..n :
            <<s, k>> \in raw <=> s \in Seen(pc) /\ Array(s)[k] # 0

LEMMA HeldZero ==
    ASSUME Cached, opened = "new", flushed < 4
    PROVE  \A s \in Steps, k \in 1..n : Array(s)[k] = 0
  BY Arrays DEF Cached, Held, Steps

LEMMA UnreadRead ==
    ASSUME Common, Cached, Unread, PreloadReads PROVE Unread'
  <1> SUFFICES ASSUME opened' = "new", NEW s \in Steps, NEW k \in 1..n
               PROVE  <<s, k>> \in raw' <=> s \in Seen(pc') /\ Array(s)'[k] # 0
    BY DEF Unread
  <1>1. /\ pc \in Steps /\ UNCHANGED <<disk, history>>
        /\ \A x \in Steps : Array(x)' = IF x = pc THEN AfterRead(x) ELSE Array(x)
        /\ raw' = RawAfterRead(pc)
        /\ pc' = IF reader = "bbip" /\ Present(FirstCell(pc)) < n THEN "idle"
                 ELSE CASE pc = "start" -> "end" [] pc = "end" -> "ptr" [] pc = "ptr" -> "convert"
    BY ReadEffect
  <1>2. opened = "new" /\ exporter # "waiting" /\ n \in Nat /\ flushed \in Nat
    BY <1>1, NewFacts DEF Common, TypeOK, disk, history
  <1>3. <<s, k>> \in raw <=> s \in Seen(pc) /\ Array(s)[k] # 0
    BY <1>2 DEF Unread
  <1>4. <<s, k>> \in raw' <=> \/ <<s, k>> \in raw /\ (s # pc \/ k > Present(FirstCell(pc)))
                              \/ s = pc /\ k \in 1..Present(FirstCell(pc)) /\ AfterRead(pc)[k] # 0
    <2>1. /\ <<s, k>>[1] = s /\ <<s, k>>[2] = k
          /\ \A j : <<s, k>> = <<pc, j>> <=> s = pc /\ k = j
      OBVIOUS
    <2>2. <<s, k>> \in {<<pc, j>> : j \in {j \in 1..Present(FirstCell(pc)) : AfterRead(pc)[j] # 0}}
             <=> s = pc /\ k \in 1..Present(FirstCell(pc)) /\ AfterRead(pc)[k] # 0
      BY <2>1
    <2>3. <<s, k>> \in {w \in raw : w[1] # pc \/ w[2] > Present(FirstCell(pc))}
             <=> <<s, k>> \in raw /\ (s # pc \/ k > Present(FirstCell(pc)))
      BY <2>1
    <2> QED BY <1>1, <2>2, <2>3 DEF RawAfterRead
  <1>5. pc \notin Seen(pc)
    BY <1>1 DEF Seen, Steps
  <1>6. CASE flushed < 4
    <2>1. /\ Present(FirstCell(pc)) = 0
          /\ \A j \in 1..n : AfterRead(pc)[j] = Array(pc)[j]
      BY <1>1, <1>2, <1>6, ReadsAllOrNone
    <2>2. Array(s)[k] = 0 /\ Array(pc)[k] = 0
      BY <1>1, <1>2, <1>6, HeldZero
    <2>3. Array(s)'[k] = 0
      BY <1>1, <2>1, <2>2
    <2>4. <<s, k>> \notin raw
      BY <1>3, <2>2
    <2>5. ~(k \in 1..0)
      OBVIOUS
    <2> QED BY <1>4, <2>1, <2>3, <2>4, <2>5
  <1>7. CASE flushed >= 4
    <2>1. Present(FirstCell(pc)) = n
      BY <1>1, <1>2, <1>7, ReadsAllOrNone
    <2>2. k \in 1..n /\ ~(k > n) /\ ~(n < n)
      BY <1>2
    <2>3. pc' = CASE pc = "start" -> "end" [] pc = "end" -> "ptr" [] pc = "ptr" -> "convert"
      BY <1>1, <2>1, <2>2
    <2>4. s \in Seen(pc') <=> s \in Seen(pc) \/ s = pc
      BY <1>1, <2>3 DEF Seen, Steps
    <2>5. CASE s = pc
      <3>1. Array(s)' = AfterRead(pc)
        BY <1>1, <2>5
      <3> QED BY <1>3, <1>4, <1>5, <2>1, <2>2, <2>4, <2>5, <3>1
    <2>6. CASE s # pc
      <3>1. Array(s)' = Array(s)
        BY <1>1, <2>6
      <3> QED BY <1>3, <1>4, <2>4, <2>6, <3>1
    <2> QED BY <2>5, <2>6
  <1> QED BY <1>2, <1>6, <1>7

LEMMA UnreadNext == Common /\ Cached /\ Unread /\ [Next]_vars => Unread'
  <1> SUFFICES ASSUME Common, Cached, Unread, [Next]_vars PROVE Unread'
    OBVIOUS
  <1>1. CASE UNCHANGED <<opened, raw, pc, index_start, index_end, index_ptr>>
    BY <1>1 DEF Unread, Array
  <1>2. CASE /\ opened' = opened /\ raw' = raw
             /\ pc \notin {"end", "ptr", "convert"} /\ pc' \notin {"end", "ptr", "convert"}
    BY <1>2 DEF Unread, Seen
  <1>3. CASE Truncate \/ Flush \/ Stop \/ Finish
    <2>1. flushed \in Nat
      BY NewFacts DEF Common, TypeOK
    <2> QED BY <1>1, <1>3, <2>1, Exporters DEF handle, history, index
  <1>4. CASE Open
    <2>1. pc = "new" /\ pc' = "idle" /\ raw' = raw
      BY <1>4, OpenEffect
    <2>2. raw = {}
      BY <2>1 DEF Common
    <2> QED BY <2>1, <2>2 DEF Unread, Seen
  <1>5. CASE Lookup
    <2>1. Effect /\ UNCHANGED <<opened, raw>>
      BY <1>5, LookupEffect DEF history
    <2> QED BY <1>2, <2>1 DEF Effect
  <1>6. CASE PreloadReads
    BY <1>6, UnreadRead
  <1>7. CASE PreloadConverts
    <2> SUFFICES ASSUME opened' = "new", NEW s \in Steps, NEW k \in 1..n
                 PROVE  <<s, k>> \notin raw' /\ Seen(pc') = {}
      BY DEF Unread
    <2>1. /\ pc = "convert" /\ pc' = "idle" /\ opened = "new"
          /\ raw' = {w \in Steps \X (1..n) : Array(w[1])[w[2]] # 0 /\ w \notin raw}
      BY <1>7 DEF PreloadConverts, Steps, history
    <2>2. <<s, k>> \in raw <=> Array(s)[k] # 0
      BY <2>1 DEF Unread, Seen
    <2>3. <<s, k>>[1] = s /\ <<s, k>>[2] = k
      OBVIOUS
    <2> QED BY <2>1, <2>2, <2>3 DEF Seen
  <1>8. ~Reopen \/ opened' # "new"
    BY DEF Reopen
  <1>9. ASSUME NEW a \in Addresses, Query(a)
        PROVE  Unread'
    <2>1. /\ opened' = opened /\ raw' = raw /\ pc \in {"idle", "answered"} /\ pc' = "search"
      BY <1>9, QueryEffect
    <2> QED BY <1>2, <2>1
  <1>10. CASE OpenFails \/ PreloadStarts
    <2>1. /\ opened' = opened /\ raw' = raw /\ pc \in {"new", "idle", "answered"} /\ pc' \in {"failed", "start"}
      BY <1>10 DEF OpenFails, PreloadStarts, history, H!BbipInitFails, H!Ready
    <2> QED BY <1>2, <2>1
  <1>11. CASE Killed \/ Astray
    <2>1. opened' = opened /\ raw' = raw /\ pc' \in {"killed", "astray"}
      BY <1>11 DEF Killed, Astray, history
    <2>2. pc \in {"search", "keyed"}
      <3>1. CASE Astray
        BY <3>1 DEF Astray
      <3>2. CASE Killed
        <4>1. PICK c : c \in Touched
          BY <3>2 DEF Killed
        <4> QED BY <4>1 DEF Touched
      <3> QED BY <1>11, <3>1, <3>2
    <2> QED BY <1>2, <2>1, <2>2
  <1>12. CASE UNCHANGED vars
    BY <1>1, <1>12 DEF vars, history, index
  <1>13. Reopen => Unread'
    BY <1>8 DEF Unread
  <1> QED BY <1>3, <1>4, <1>5, <1>6, <1>7, <1>9, <1>10, <1>11, <1>12, <1>13 DEF Next

\* Everything a lookup touches is in a file whose blobs are all there.
LEMMA SafeNext == Common /\ Cached /\ WholeIsSafe /\ [Next]_vars => WholeIsSafe'
  <1> SUFFICES ASSUME Common, Cached, WholeIsSafe, [Next]_vars, pc' = "killed", whole'
               PROVE  FALSE
    BY DEF WholeIsSafe
  <1>1. CASE Killed
    <2>1. UNCHANGED <<disk, history>> /\ \E c \in Touched : c >= mapped \/ c >= LengthNow
      BY <1>1 DEF Killed
    <2>2. whole
      BY <2>1 DEF history
    <2>3. /\ opened = "new" /\ exporter # "waiting" /\ mapped = Size /\ flushed >= 2 * (n + 1)
          /\ old \in Olds /\ flushed \in 0..(2 * Size)
      BY <2>2 DEF Common, TypeOK
    <2>4. LengthNow = Size
      BY <2>3, LengthFacts DEF LengthNow
    <2>5. n \in Nat /\ Size = 4 * n + 1
      BY NewFacts
    <2>6. i_s \in 0..(n + 1) /\ i_e \in 0..n /\ key \in 0..n
      BY DEF Common, TypeOK
    <2>7. ASSUME NEW k \in 1..n
          PROVE  /\ index_ptr[k] \in Nat /\ index_ptr[k] <= 4 * n
                 /\ Word(view, 2 * n + k) \in Nat /\ Word(view, 2 * n + k) <= 4 * n
      <3>1. Word(New, (2 * n + 1) + k - 1) = 3 * n + k /\ Word(New, 2 * n + k) = 3 * n + k
        <4>1. Final("ptr", k) = 3 * n + k
          BY NewFacts, NewWords
        <4>2. (2 * n + 1) + k - 1 = 2 * n + k
          BY <2>5
        <4> QED BY <4>1, <4>2, Arrays DEF Final
      <3>2. index_ptr[k] \in {0, 3 * n + k, Torn(3 * n + k)}
        BY <2>3, <3>1 DEF Cached, Held
      <3>3. 2 * n + k \in 1..(3 * n)
        BY <2>5
      <3>4. Word(view, 2 * n + k) \in {0, 3 * n + k, Torn(3 * n + k)}
        BY <2>3, <3>1, <3>3, WordRead
      <3>5. Torn(3 * n + k) \in Nat /\ Torn(3 * n + k) <= 4 * n
        BY <2>5 DEF Torn
      <3> QED BY <2>5, <3>2, <3>4, <3>5
    <2>8. \A c \in Touched : c \in Int /\ c <= 4 * n
      <3> SUFFICES ASSUME NEW c \in Touched PROVE c \in Int /\ c <= 4 * n
        OBVIOUS
      <3>1. CASE pc = "search" /\ i_s <= i_e
        <4> DEFINE slot == (i_s + i_e) \div 2 - 1
        <4>2. Touched = {x \in {StartCell(New, slot)} : index_start[slot] = 0}
          BY <2>6, <3>1 DEF Touched
        <4>1. c = slot
          BY <4>2 DEF StartCell
        <4> QED BY <2>5, <2>6, <3>1, <4>1
      <3>2. CASE pc = "search" /\ i_s > i_e /\ i_e > 1
        <4>1. ~(i_s <= i_e)
          BY <2>6, <3>2
        <4>2. c = i_e - 1 \/ c = n + (i_e - 1)
          BY <3>2, <4>1 DEF Touched, StartCell, EndCell, n
        <4> QED BY <2>5, <2>6, <3>2, <4>2
      <3>3. CASE pc = "keyed" /\ key # 0
        <4>1. c \in {2 * n + key, Word(view, 2 * n + key), index_ptr[key]}
          BY <3>3 DEF Touched, PtrCell, n
        <4>2. key \in 1..n
          BY <2>6, <3>3
        <4> QED BY <2>5, <2>7, <4>1, <4>2
      <3>4. (pc = "search" /\ i_s <= i_e) \/ (pc = "search" /\ i_s > i_e /\ i_e > 1) \/ (pc = "keyed" /\ key # 0)
        BY DEF Touched
      <3> QED BY <3>1, <3>2, <3>3, <3>4
    <2>9. PICK c \in Touched : c >= Size
      BY <2>1, <2>3, <2>4
    <2>10. c \in Int /\ c <= 4 * n
      BY <2>8, <2>9
    <2> QED BY <2>5, <2>9, <2>10
  <1>2. CASE Truncate \/ Flush \/ Stop \/ Finish \/ UNCHANGED vars
    <2>1. flushed \in Nat
      BY NewFacts DEF Common, TypeOK
    <2>2. pc' = pc /\ whole' = whole
      BY <1>2, <2>1, Exporters DEF handle, history, vars
    <2> QED BY <2>2 DEF WholeIsSafe
  <1>3. ~Open /\ ~Lookup
    BY OpenEffect, LookupEffect DEF Effect
  <1>4. \A a \in Addresses : ~Query(a)
    BY QueryEffect
  <1>5. ~PreloadReads
    BY ReadEffect
  <1>6. ~OpenFails /\ ~Reopen /\ ~Astray /\ ~PreloadStarts /\ ~PreloadConverts
    BY DEF OpenFails, H!BbipInitFails, Reopen, Astray, PreloadStarts, PreloadConverts
  <1> QED BY <1>1, <1>2, <1>3, <1>4, <1>5, <1>6 DEF Next

-----------------------------------------------------------------------------
\* A lookup that begins when the file is done is one of BbipHandle on the
\* finished file, with an index as a preload or as none has left it: what is
\* proved there holds of it.
Handle == INSTANCE BbipHandleProofs WITH
    Files <- Olds \cup {New}, fp <- stream, file <- view, preloaded <- Full

\* What BbipHandle assumes holds here.
LEMMA HandleAssumptions ==
    /\ Handle!MaxIPAssumption /\ Handle!WAssumption /\ Handle!PowersAssumption
    /\ Handle!FilesAssumption /\ Handle!WidthAssumption /\ Handle!NullAssumption
  BY PublishAssumption, MaxIPAssumption, WAssumption, PowersAssumption
     DEF Handle!FilesAssumption, Handle!WidthAssumption, Handle!NullAssumption,
         Handle!MaxIPAssumption, Handle!WAssumption, Handle!PowersAssumption,
         IsDataFile, Handle!IsDataFile, Addr, Handle!Addr

\* A lookup that is under way, or has ended, on the finished file.
Settling ==
    /\ opened = "new" /\ late /\ Settled
    /\ pc \in {"search", "keyed", "answered"}

Right == Settling => Handle!IInv

\* The file when it is done.
LEMMA DoneView ==
    ASSUME exporter = "done", flushed = 2 * Size
    PROVE  /\ IsDataFile(view) /\ view.n = n /\ stream = "data"
           /\ \A k \in 1..n : /\ view.start[k] = New.start[k] /\ view.end[k] = New.end[k]
                              /\ view.data[k] = New.data[k]
  <1>1. n \in Nat /\ n > 0 /\ Size = 4 * n + 1 /\ Size \in Nat /\ IsDataFile(New)
        /\ flushed \in 0..(2 * Size)
    BY NewFacts
  <1>2. /\ view.n = n
        /\ view.start = [k \in 1..n |-> WordNow(StartCell(New, k))]
        /\ view.end = [k \in 1..n |-> WordNow(EndCell(New, k))]
        /\ view.ptr = [k \in 1..n |-> WordNow(PtrCell(New, k))]
        /\ view.data = [k \in 1..n |-> IF Whole(BlobCell(New, k)) THEN New.data[k] ELSE Garbage]
    BY DEF view
  <1>3. ASSUME NEW k \in 1..n
        PROVE  /\ WordNow(StartCell(New, k)) = New.start[k]
               /\ WordNow(EndCell(New, k)) = New.end[k]
               /\ WordNow(PtrCell(New, k)) = 3 * n + k
               /\ Whole(BlobCell(New, k))
    <2>1. /\ StartCell(New, k) = k /\ EndCell(New, k) = n + k /\ PtrCell(New, k) = 2 * n + k
          /\ BlobCell(New, k) = 3 * n + k
      BY NewFacts DEF StartCell, EndCell, PtrCell, n
    <2>2. /\ k \in 1..(3 * n) /\ n + k \in 1..(3 * n) /\ 2 * n + k \in 1..(3 * n)
          /\ 3 * n + k \in 0..(Size - 1)
      BY <1>1
    <2>3. /\ WordNow(k) = Word(New, k) /\ WordNow(n + k) = Word(New, n + k)
          /\ WordNow(2 * n + k) = Word(New, 2 * n + k)
      BY <1>1, <2>2, WordNowFacts
    <2>4. /\ Word(New, StartCell(New, k)) = New.start[k] /\ Word(New, EndCell(New, k)) = New.end[k]
          /\ Word(New, PtrCell(New, k)) = BlobCell(New, k)
      BY <1>1, Words DEF n
    <2>5. Position(3 * n + k) \in 1..Size
      BY <2>2, Places
    <2>6. Whole(3 * n + k)
      BY <1>1, <2>5 DEF Whole
    <2> QED BY <2>1, <2>3, <2>4, <2>6
  <1>4. \A k \in 1..n : /\ view.start[k] = New.start[k] /\ view.end[k] = New.end[k]
                        /\ view.data[k] = New.data[k] /\ view.ptr[k] = 3 * n + k
    BY <1>2, <1>3
  <1>5. view.ptr = [k \in 1..n |-> 3 * n + k]
    BY <1>2, <1>3
  <1>6. /\ \A k \in 1..n : New.start[k] \in Addr /\ New.end[k] \in Addr /\ New.data[k] \in Payloads
        /\ \A k \in 1..n : New.start[k] <= New.end[k]
        /\ \A j, k \in 1..n : j < k => New.end[j] < New.start[k]
    BY <1>1 DEF IsDataFile, n
  <1>7. /\ view.start \in [1..n -> Addr] /\ view.end \in [1..n -> Addr]
        /\ view.data \in [1..n -> Payloads]
    BY <1>2, <1>4, <1>6
  <1>8. IsDataFile(view)
    BY <1>1, <1>2, <1>4, <1>5, <1>6, <1>7 DEF IsDataFile
  <1>9. stream = "data"
    <2>1. Length = Size
      BY <1>1, LengthFacts
    <2> QED BY <1>1, <2>1 DEF stream, LengthNow
  <1> QED BY <1>2, <1>4, <1>8, <1>9

\* What the lookup of BbipHandle relies on, at any time of it.
LEMMA IndexIsRight ==
    Common /\ Cached /\ Settling => Handle!TypeOK /\ Handle!IndexCache
  <1> SUFFICES ASSUME Common, Cached, Settling PROVE Handle!TypeOK /\ Handle!IndexCache
    OBVIOUS
  <1>1. /\ exporter = "done" /\ flushed = 2 * Size /\ opened = "new"
        /\ pc \in {"search", "keyed", "answered"} /\ Settled
    BY DEF Settling, Common
  <1>2. /\ IsDataFile(view) /\ view.n = n /\ stream = "data" /\ n \in Nat /\ n > 0
        /\ \A k \in 1..n : view.start[k] = New.start[k] /\ view.end[k] = New.end[k]
        /\ \A k \in 1..n : BlobCell(New, k) = 3 * n + k
    BY <1>1, DoneView, NewFacts
  <1>3. Handle!IsDataFile(view)
    BY <1>2 DEF IsDataFile, Handle!IsDataFile, Addr, Handle!Addr
  <1>4. /\ index_start \in [0..n -> Nat] /\ index_end \in [0..n -> Nat] /\ index_ptr \in [0..n -> Nat]
    BY <1>1, IndexTypes
  <1>5. /\ i_s \in Nat /\ i_e \in Nat /\ key \in Nat /\ ip \in Addr /\ ptr \in Nat /\ bbip_errno \in 0..3
    BY NewFacts DEF Common, TypeOK
  <1>6. Full \in BOOLEAN
    BY DEF Full
  <1>7. Handle!TypeOK
    BY <1>1, <1>2, <1>3, <1>4, <1>5, <1>6
       DEF Handle!TypeOK, Handle!Opened, Handle!Slot, Handle!Slots, Addr, Handle!Addr
  <1>8. index_start[0] \in {0, n} /\ index_end[0] = 0
    BY <1>1 DEF Cached
  <1>9. \A k \in 1..n : Handle!BlobCell(view, k) = BlobCell(New, k)
    BY <1>2 DEF Handle!BlobCell
  <1>10. Handle!IndexCache
    <2>1. \A k \in 1..n : /\ index_start[k] \in {0, New.start[k]}
                          /\ index_end[k] \in {0, New.end[k]}
                          /\ index_ptr[k] \in {0, BlobCell(New, k)}
      BY <1>1 DEF Settled
    <2>2. Full => \A k \in 1..n : /\ index_start[k] = New.start[k]
                                  /\ index_end[k] = New.end[k]
                                  /\ index_ptr[k] = BlobCell(New, k)
      BY DEF Full
    <2>3. Handle!Opened
      BY <1>1 DEF Handle!Opened
    <2> QED BY <1>2, <1>8, <1>9, <2>1, <2>2, <2>3 DEF Handle!IndexCache
  <1> QED BY <1>7, <1>10

\* A lookup that begins.
LEMMA BeginsRight ==
    Common /\ Cached /\ Settling /\ pc = "search" /\ i_s = 1 /\ i_e = n => Handle!IInv
  <1> SUFFICES ASSUME Common, Cached, Settling, pc = "search", i_s = 1, i_e = n PROVE Handle!IInv
    OBVIOUS
  <1>1. Handle!TypeOK /\ Handle!IndexCache
    BY IndexIsRight
  <1>2. view.n = n /\ n \in Nat /\ n > 0
    <2>1. exporter = "done" /\ flushed = 2 * Size
      BY DEF Settling, Common
    <2> QED BY <2>1, DoneView, NewFacts
  <1>3. Handle!SearchWindow
    BY <1>2 DEF Handle!SearchWindow
  <1>4. Handle!KeyFits /\ Handle!AnswerSound /\ Handle!FindsCovered
    BY DEF Handle!KeyFits, Handle!AnswerSound, Handle!FindsCovered
  <1> QED BY <1>1, <1>3, <1>4 DEF Handle!IInv

LEMMA BeginsRightNext ==
    (Common /\ Cached /\ Settling /\ pc = "search" /\ i_s = 1 /\ i_e = n)' => Handle!IInv'
  BY BeginsRight, PTL

\* A step of a lookup completes no array: its last slot is never read, and when
\* that one is filled, so were all the others.
LEMMA Completes ==
    ASSUME NEW first \in {1, n + 1, 2 * n + 1}, NEW a, NEW b,
           Common, exporter = "done", Held(a, first, flushed), Filled(a, b, first),
           n > 1 => Word(New, first + n - 1) # 0
    PROVE  (\A k \in 1..n : a[k] = Word(New, first + k - 1))
              <=> (\A k \in 1..n : b[k] = Word(New, first + k - 1))
  <1>1. n \in Nat /\ n \in 1..n
    BY NewFacts
  <1>2. \A k \in 1..n : Word(view, first + k - 1) = Word(New, first + k - 1)
    <2>1. \A k \in 1..n : first + k - 1 \in 1..(3 * n)
      BY <1>1
    <2>2. old \in Olds /\ flushed \in 0..(2 * Size) /\ flushed = 2 * Size /\ exporter # "waiting"
      BY DEF Common, TypeOK
    <2> QED BY <2>1, <2>2, ViewFacts, WordNowFacts
  <1>3. \A k \in 1..n : b[k] = a[k] \/ (a[k] = 0 /\ b[k] = Word(New, first + k - 1))
    BY <1>2 DEF Filled
  <1>4. b[n] = a[n]
    BY <1>1 DEF Filled
  <1>5. ASSUME \A k \in 1..n : b[k] = Word(New, first + k - 1), NEW k \in 1..n
        PROVE  a[k] = Word(New, first + k - 1)
    <2>1. CASE k = n
      BY <1>1, <1>4, <1>5, <2>1
    <2>2. CASE k # n
      <3>1. k < n /\ n > 1
        BY <1>1, <2>2
      <3>2. a[n] # 0
        BY <1>1, <1>4, <1>5, <3>1
      <3> QED BY <3>1, <3>2 DEF Held
    <2> QED BY <2>1, <2>2
  <1>6. ASSUME \A k \in 1..n : a[k] = Word(New, first + k - 1), NEW k \in 1..n
        PROVE  b[k] = Word(New, first + k - 1)
    BY <1>3, <1>6
  <1> QED BY <1>5, <1>6

\* The words of the file in the order of its cells.
LEMMA CellWords ==
    \A k \in 1..n : /\ Word(New, 1 + k - 1) = New.start[k]
                    /\ Word(New, (n + 1) + k - 1) = New.end[k]
                    /\ Word(New, (2 * n + 1) + k - 1) = BlobCell(New, k)
  BY NewWords, Arrays DEF Final

LEMMA LastIsNotZero ==
    n > 1 => /\ Word(New, 1 + n - 1) # 0 /\ Word(New, (n + 1) + n - 1) # 0
             /\ Word(New, (2 * n + 1) + n - 1) # 0
  <1> SUFFICES ASSUME n > 1
               PROVE  /\ Word(New, 1 + n - 1) # 0 /\ Word(New, (n + 1) + n - 1) # 0
                      /\ Word(New, (2 * n + 1) + n - 1) # 0
    OBVIOUS
  <1>1. IsDataFile(New) /\ n \in Nat /\ n \in 1..n /\ n - 1 \in 1..n /\ n - 1 < n
    BY NewFacts
  <1>2. /\ New.end[n - 1] < New.start[n] /\ New.start[n] <= New.end[n]
    BY <1>1 DEF IsDataFile, n
  <1>3. New.start[n] \in Nat /\ New.end[n] \in Nat /\ New.end[n - 1] \in Nat /\ BlobCell(New, n) = 3 * n + n
    BY <1>1, NewWords, NewFacts
  <1> QED BY <1>1, <1>2, <1>3, CellWords

LEMMA LookupSettles ==
    ASSUME Common, Cached, Lookup, Settling'
    PROVE  Settling /\ view' = view /\ stream' = stream /\ Full' = Full
  <1>1. Effect /\ UNCHANGED <<disk, history, raw>>
    BY LookupEffect
  <1>2. /\ opened = "new" /\ late /\ exporter = "done" /\ pc \in {"search", "keyed"}
        /\ opened' = opened /\ flushed' = flushed /\ exporter' = exporter /\ old' = old /\ had' = had
    BY <1>1 DEF disk, history, Settling, Effect, Common
  <1>3. \A k \in 1..n : /\ index_start'[k] = index_start[k] \/ index_start[k] = 0
                        /\ index_end'[k] = index_end[k] \/ index_end[k] = 0
                        /\ index_ptr'[k] = index_ptr[k] \/ index_ptr[k] = 0
    BY <1>1 DEF Effect, Filled
  <1>4. Settled
    BY <1>3 DEF Settled, Settling
  <1>5. view' = view /\ stream' = stream
    BY <1>2 DEF view, WordNow, Whole, Half, Unwritten, stream, LengthNow, Length
  <1>6. Full' = Full
    <2>1. 1 \in {1, n + 1, 2 * n + 1} /\ n + 1 \in {1, n + 1, 2 * n + 1} /\ 2 * n + 1 \in {1, n + 1, 2 * n + 1}
      OBVIOUS
    <2>2. /\ Held(index_start, 1, flushed) /\ Filled(index_start, index_start', 1)
          /\ Held(index_end, n + 1, flushed) /\ Filled(index_end, index_end', n + 1)
          /\ Held(index_ptr, 2 * n + 1, flushed) /\ Filled(index_ptr, index_ptr', 2 * n + 1)
      BY <1>1, <1>2 DEF Cached, Effect
    <2>3. (\A k \in 1..n : index_start[k] = Word(New, 1 + k - 1))
             <=> (\A k \in 1..n : index_start'[k] = Word(New, 1 + k - 1))
      BY <1>2, <2>1, <2>2, LastIsNotZero, Completes
    <2>4. (\A k \in 1..n : index_end[k] = Word(New, (n + 1) + k - 1))
             <=> (\A k \in 1..n : index_end'[k] = Word(New, (n + 1) + k - 1))
      BY <1>2, <2>1, <2>2, LastIsNotZero, Completes
    <2>5. (\A k \in 1..n : index_ptr[k] = Word(New, (2 * n + 1) + k - 1))
             <=> (\A k \in 1..n : index_ptr'[k] = Word(New, (2 * n + 1) + k - 1))
      BY <1>2, <2>1, <2>2, LastIsNotZero, Completes
    <2>6. Full <=> /\ \A k \in 1..n : index_start[k] = Word(New, 1 + k - 1)
                   /\ \A k \in 1..n : index_end[k] = Word(New, (n + 1) + k - 1)
                   /\ \A k \in 1..n : index_ptr[k] = Word(New, (2 * n + 1) + k - 1)
      BY <1>2, CellWords DEF Full, HasIndex
    <2>7. Full' <=> /\ \A k \in 1..n : index_start'[k] = Word(New, 1 + k - 1)
                    /\ \A k \in 1..n : index_end'[k] = Word(New, (n + 1) + k - 1)
                    /\ \A k \in 1..n : index_ptr'[k] = Word(New, (2 * n + 1) + k - 1)
      BY <1>2, CellWords DEF Full, HasIndex
    <2>8. Full \in BOOLEAN /\ Full' \in BOOLEAN
      BY DEF Full
    <2> QED BY <2>3, <2>4, <2>5, <2>6, <2>7, <2>8
  <1> QED BY <1>2, <1>4, <1>5, <1>6 DEF Settling

\* Then it is a step of BbipHandle's lookup with that index.
LEMMA StepIsHandles ==
    ASSUME Lookup, view' = view, stream' = stream, Full' = Full
    PROVE  \/ Handle!Probe \/ Handle!Decide \/ Handle!ReturnNothing
           \/ Handle!SearchReturn \/ Handle!LuaReturn
  <1>1. CASE H!Probe
    BY <1>1 DEF H!Probe, Handle!Probe, H!opened, Handle!opened, H!Loaded, Handle!Loaded, H!StartCell,
                Handle!StartCell, H!HighAfter, Handle!HighAfter, H!LowAfter, Handle!LowAfter,
                H!Word, Handle!Word
  <1>2. CASE H!Decide
    BY <1>2 DEF H!Decide, Handle!Decide, H!opened, Handle!opened, H!Loaded, Handle!Loaded, H!StartCell,
                Handle!StartCell, H!EndCell, Handle!EndCell, H!InRange, Handle!InRange,
                H!Word, Handle!Word
  <1>3. CASE H!ReturnNothing
    BY <1>3 DEF H!ReturnNothing, Handle!ReturnNothing, H!opened, Handle!opened, H!index, Handle!index,
                H!search, Handle!search, H!NoAnswer, Handle!NoAnswer
  <1>4. ASSUME H!ReturnRecord PROVE Handle!ReturnRecord
    BY <1>4 DEF H!ReturnRecord, Handle!ReturnRecord, H!opened, Handle!opened, H!Loaded, Handle!Loaded,
                H!PtrCell, Handle!PtrCell, H!search, Handle!search, H!Word, Handle!Word,
                H!Strings, Handle!Strings, H!Garbage, Handle!Garbage,
                H!RangeToCidrSize, Handle!RangeToCidrSize, H!Wide, Handle!Wide
  <1> QED BY <1>1, <1>2, <1>3, <1>4
      DEF Lookup, H!SearchReturn, H!LuaReturn, Handle!SearchReturn, Handle!LuaReturn

LEMMA LookupRight == Common /\ Cached /\ Right /\ Lookup => Right'
  <1> SUFFICES ASSUME Common, Cached, Right, Lookup, Settling' PROVE Handle!IInv'
    BY DEF Right
  <1>1. Settling /\ view' = view /\ stream' = stream /\ Full' = Full
    BY LookupSettles
  <1>2. Handle!IInv
    BY <1>1 DEF Right
  <1>3. \/ Handle!Probe \/ Handle!Decide \/ Handle!ReturnNothing
        \/ Handle!SearchReturn \/ Handle!LuaReturn
    BY <1>1, StepIsHandles
  <1>4. ptr' \in Nat
    BY LookupEffect DEF Effect
  <1>5. CASE Handle!Probe
    BY <1>2, <1>5, HandleAssumptions, Handle!ProbeInv
  <1>6. CASE Handle!Decide
    BY <1>2, <1>6, HandleAssumptions, Handle!DecideInv
  <1>7. CASE Handle!ReturnNothing
    BY <1>2, <1>7, HandleAssumptions, Handle!ReturnNothingInv
  <1>8. CASE Handle!ReturnRecord
    BY <1>2, <1>4, <1>8, HandleAssumptions, Handle!ReturnRecordInv
  <1> QED BY <1>3, <1>5, <1>6, <1>7, <1>8 DEF Handle!SearchReturn, Handle!LuaReturn

LEMMA RightNext == Common /\ Cached /\ Right /\ [Next]_vars => Right'
  <1> SUFFICES ASSUME Common, Cached, Right, [Next]_vars PROVE Right'
    OBVIOUS
  <1>1. CASE Lookup
    BY <1>1, LookupRight
  <1>2. ASSUME NEW a \in Addresses, Query(a), Settling'
        PROVE  Handle!IInv'
    <2>1. Common' /\ Cached'
      BY <1>2, CommonNext, CachedNext DEF Next
    <2>2. pc' = "search" /\ i_s' = 1 /\ i_e' = n
      BY <1>2, QueryEffect
    <2>3. n' = n
      BY DEF n
    <2> QED BY <1>2, <2>1, <2>2, <2>3, BeginsRightNext
  <1>3. CASE UNCHANGED vars
    <2>1. UNCHANGED <<old, had, reader, exporter, flushed, opened, mapped, whole, late, raw, index_start,
                      index_end, index_ptr, ptr, pc, bbip_errno, ip, i_s, i_e, key, answer>>
      BY <1>3 DEF vars, disk, history, index, search
    <2>2. view' = view /\ stream' = stream /\ Full' = Full
      BY <2>1 DEF view, WordNow, Whole, Half, Unwritten, stream, LengthNow, Length, Full, HasIndex
    <2>3. Settling' = Settling
      BY <2>1 DEF Settling, Settled
    <2>4. Handle!IInv' = Handle!IInv
      BY <2>1, <2>2 DEF Handle!IInv, Handle!TypeOK, Handle!IndexCache, Handle!SearchWindow, Handle!KeyFits,
           Handle!AnswerSound, Handle!FindsCovered, Handle!Opened, Handle!Slot, Handle!Slots, Handle!Reachable,
           Handle!Covers, Handle!NoAnswer, Handle!BlobCell
    <2> QED BY <2>3, <2>4 DEF Right
  <1>4. CASE Truncate \/ Flush \/ Stop \/ Finish
    <2>1. flushed \in Nat /\ exporter # "done"
      BY <1>4, NewFacts, Exporters DEF Common, TypeOK
    <2>2. ~late /\ late' = late
      BY <1>4, <2>1, Exporters DEF Common, handle, history
    <2> QED BY <2>2 DEF Right, Settling
  <1>5. ASSUME pc' \notin {"search", "keyed", "answered"} PROVE Right'
    BY <1>5 DEF Right, Settling
  <1>6. Open \/ PreloadReads => pc' \notin {"search", "keyed", "answered"}
    BY OpenEffect, ReadEffect
  <1>7. OpenFails \/ Reopen \/ Killed \/ Astray \/ PreloadStarts \/ PreloadConverts =>
            pc' \notin {"search", "keyed", "answered"}
    BY DEF OpenFails, H!BbipInitFails, Reopen, Killed, Astray, PreloadStarts, PreloadConverts
  <1> QED BY <1>1, <1>2, <1>3, <1>4, <1>5, <1>6, <1>7 DEF Next, Right
-----------------------------------------------------------------------------
\* The inductive invariant.
IInv == Common /\ Cached /\ Unread /\ WholeIsSafe /\ Right

LEMMA InitInv == Init => IInv
  <1> SUFFICES ASSUME Init PROVE IInv
    OBVIOUS
  <1>1. opened = "no" /\ pc = "new"
    BY DEF Init
  <1> QED BY <1>1, CommonInit DEF IInv, Cached, Unread, WholeIsSafe, Right, Settling

LEMMA Invariance == Spec => []IInv
  <1>1. IInv /\ [Next]_vars => IInv'
    BY CommonNext, CachedNext, UnreadNext, SafeNext, RightNext DEF IInv
  <1> QED BY <1>1, InitInv, PTL DEF Spec

\* The exporter's progress, the mapping, the index and the locals of a lookup
\* keep their types, for files of any size: no search leaves the index.
THEOREM TypeCorrect == Spec => []TypeOK
  BY Invariance, PTL DEF IInv, Common

\* A handle that was opened on the unfinished file (bbip.c:23) holds in each slot
\* nothing, the finished file's word, or the first bytes of one that was being
\* written when it was read: a zero that was read too early is read again.
THEOREM CachesHeal == Spec => []CacheHeals
  <1>1. Cached => CacheHeals
    <2> SUFFICES ASSUME Cached, opened = "new", NEW k \in 1..n
                 PROVE  /\ index_start[k] \in {0, New.start[k], Torn(New.start[k])}
                        /\ index_end[k] \in {0, New.end[k], Torn(New.end[k])}
                        /\ index_ptr[k] \in {0, BlobCell(New, k), Torn(BlobCell(New, k))}
      BY DEF CacheHeals
    <2> QED BY CellWords DEF Cached, Held
  <1> QED BY <1>1, Invariance, PTL DEF IInv

\* Such a handle, when no half-written word is in its index, is as good as one that
\* is opened later: every lookup that begins when the file is done finds and
\* answers what one on the finished file does.
THEOREM LookupsRightAfterwards == Spec => []RightAfterwards
  <1>1. IInv => RightAfterwards
    <2> SUFFICES ASSUME IInv, opened = "new", late, Settled
                 PROVE  P!KeyFits /\ P!AnswerSound /\ P!FindsCovered
      BY DEF RightAfterwards
    <2>1. CASE pc \notin {"keyed", "answered"}
      BY <2>1 DEF P!KeyFits, P!AnswerSound, P!FindsCovered
    <2>2. CASE pc \in {"keyed", "answered"}
      <3>1. Handle!KeyFits /\ Handle!AnswerSound /\ Handle!FindsCovered
        BY <2>2 DEF IInv, Right, Settling, Handle!IInv
      <3> QED BY <3>1 DEF P!KeyFits, P!AnswerSound, P!FindsCovered, Handle!KeyFits, Handle!AnswerSound,
                   Handle!FindsCovered, P!Reachable, Handle!Reachable, P!Covers, Handle!Covers,
                   P!NoAnswer, Handle!NoAnswer
    <2> QED BY <2>1, <2>2
  <1> QED BY <1>1, Invariance, PTL

\* Only a handle of the file that was cut off is left with words in the byte order of
\* the file, whatever a preload finds (bbip.c:108, sinaip.c:334).
THEOREM RawIsOfTheOld == Spec => []RawOnlyOld
  <1>1. Common /\ Unread => RawOnlyOld
    <2> SUFFICES ASSUME Common, Unread, raw # {}, pc \notin {"start", "end", "ptr", "convert"}
                 PROVE  opened = "old"
      BY DEF RawOnlyOld
    <2>1. raw \subseteq Steps \X (1..n) /\ opened \in {"no", "old", "new"} /\ opened # "no"
      BY Types DEF Common
    <2>2. PICK s \in Steps, k \in 1..n : <<s, k>> \in raw
      BY <2>1
    <2>3. Seen(pc) = {}
      BY DEF Seen
    <2> QED BY <2>1, <2>2, <2>3 DEF Unread
  <1> QED BY <1>1, Invariance, PTL DEF IInv

\* A handle that was opened when all blobs were on disk has everything that its
\* lookups touch in its mapping and in the file.
THEOREM WholeSafe == Spec => []WholeIsSafe
  BY Invariance, PTL DEF IInv
=============================================================================
