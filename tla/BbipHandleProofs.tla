-------------------------- MODULE BbipHandleProofs --------------------------
(***************************************************************************)
(* Proofs about one handle, for every address width, every set of data     *)
(* files and every sequence of calls, and that a handle implements the     *)
(* safety part of GeoLookup: every call of the C or Lua library is one of  *)
(* its steps, or none.                                                     *)
(***************************************************************************)
EXTENDS BbipHandle, BbipFileFacts

\* The inductive invariant: what the caches hold, what the search has
\* excluded, and what a key and an answer are.
IInv ==
    /\ TypeOK
    /\ IndexCache
    /\ SearchWindow
    /\ KeyFits
    /\ AnswerSound
    /\ FindsCovered

LEMMA InitInv == Init => IInv
  <1> SUFFICES ASSUME Init PROVE IInv
    OBVIOUS
  <1>1. pc = "new" /\ ~preloaded /\ ~Opened
    BY DEF Init, Opened
  <1>2. TypeOK
    <2>1. IsDataFile(file)
      BY FilesAssumption DEF Init
    <2>2. preloaded \in BOOLEAN
      BY DEF Init
    <2> QED BY <1>1, <2>1, <2>2, MaxIPAssumption DEF Init, TypeOK, Addr
  <1>3. IndexCache /\ SearchWindow /\ KeyFits /\ AnswerSound /\ FindsCovered
    BY <1>1 DEF IndexCache, SearchWindow, KeyFits, AnswerSound, FindsCovered
  <1> QED BY <1>2, <1>3 DEF IInv

\* A slot that is read from the file when it is empty; the others stay.
LEMMA LoadedSlot ==
    ASSUME NEW array \in Slot, NEW s \in Slots, NEW cell, Word(file, cell) \in Nat
    PROVE  /\ Loaded(array, s, cell) \in Slot
           /\ \A t \in Slots : t # s => Loaded(array, s, cell)[t] = array[t]
           /\ array[s] = 0 => Loaded(array, s, cell)[s] = Word(file, cell)
           /\ array[s] # 0 => Loaded(array, s, cell)[s] = array[s]
  BY DEF Loaded, Slot

\* The calls other than the steps of a lookup.
LEMMA InitFailsInv == IInv /\ BbipInitFails => IInv'
  <1> SUFFICES ASSUME IInv, BbipInitFails PROVE IInv'
    OBVIOUS
  <1>1. ~Opened /\ ~Opened' /\ pc' = "failed"
    BY DEF BbipInitFails, Opened
  <1>2. TypeOK'
    BY <1>1 DEF IInv, TypeOK, BbipInitFails, search
  <1>3. IndexCache'
    BY <1>1 DEF IInv, IndexCache, BbipInitFails
  <1>4. (SearchWindow /\ KeyFits /\ AnswerSound /\ FindsCovered)'
    BY <1>1 DEF SearchWindow, KeyFits, AnswerSound, FindsCovered
  <1> QED BY <1>2, <1>3, <1>4 DEF IInv

LEMMA BbipInitInv == IInv /\ BbipInit => IInv'
  <1> SUFFICES ASSUME IInv, BbipInit PROVE IInv'
    OBVIOUS
  <1>1. ~preloaded /\ ~preloaded' /\ pc' = "idle" /\ file' = file
    BY DEF BbipInit, IInv, IndexCache, Opened, opened
  <1>2. IsDataFile(file) /\ file.n \in Nat /\ file.n > 0
    BY DEF IInv, TypeOK, IsDataFile, BbipInit, InitError
  <1>3. TypeOK'
    BY <1>1, <1>2 DEF IInv, TypeOK, BbipInit, Slot, Slots, opened, search
  <1>4. IndexCache'
    BY <1>1, <1>2 DEF IndexCache, BbipInit, Slots, Opened
  <1>5. (SearchWindow /\ KeyFits /\ AnswerSound /\ FindsCovered)'
    BY <1>1 DEF SearchWindow, KeyFits, AnswerSound, FindsCovered
  <1> QED BY <1>3, <1>4, <1>5 DEF IInv

LEMMA PreloadInv == IInv /\ BbipPreload => IInv'
  <1> SUFFICES ASSUME IInv, BbipPreload PROVE IInv'
    OBVIOUS
  <1>1. pc' = "idle" /\ file' = file /\ Opened /\ Opened'
    BY DEF BbipPreload, Ready, Opened, opened
  <1>2. IsDataFile(file) /\ file.n \in Nat /\ file.n > 0
    BY <1>1 DEF IInv, TypeOK, IsDataFile
  <1>3. \A k \in 1..file.n :
            /\ index_start'[k] = file.start[k] /\ file.start[k] \in Nat
            /\ index_end'[k] = file.end[k] /\ file.end[k] \in Nat
            /\ index_ptr'[k] = BlobCell(file, k) /\ BlobCell(file, k) \in Nat
    BY <1>2, Words DEF BbipPreload, Slots, Filled, StartCell, EndCell, PtrCell
  <1>4. /\ index_start'[0] = index_start[0]
        /\ index_end'[0] = index_end[0]
        /\ index_ptr'[0] = index_ptr[0]
    BY <1>2 DEF BbipPreload, Filled, Slots
  <1>5. TypeOK'
    <2>1. index_start' \in Slot /\ index_end' \in Slot /\ index_ptr' \in Slot
      <3>1. 0 \in Slots /\ \A s \in Slots : s = 0 \/ s \in 1..file.n
        BY <1>2 DEF Slots
      <3>2. index_start[0] \in Nat /\ index_end[0] \in Nat /\ index_ptr[0] \in Nat
        BY <1>1, <3>1 DEF IInv, TypeOK, Slot
      <3>3. \A s \in Slots : /\ index_start'[s] \in Nat /\ index_end'[s] \in Nat
                             /\ index_ptr'[s] \in Nat
        BY <1>3, <1>4, <3>1, <3>2
      <3> QED BY <1>1, <3>3 DEF BbipPreload, Filled, Slot, Slots
    <2> QED BY <1>1, <2>1 DEF IInv, TypeOK, BbipPreload, Slot, Slots, opened, search
  <1>6. IndexCache'
    BY <1>1, <1>3, <1>4 DEF IInv, IndexCache
  <1>7. (SearchWindow /\ KeyFits /\ AnswerSound /\ FindsCovered)'
    BY <1>1 DEF SearchWindow, KeyFits, AnswerSound, FindsCovered
  <1> QED BY <1>5, <1>6, <1>7 DEF IInv

LEMMA QueryInv == ASSUME NEW a \in Addr PROVE IInv /\ Query(a) => IInv'
  <1> SUFFICES ASSUME IInv, Query(a) PROVE IInv'
    OBVIOUS
  <1>1. pc' = "search" /\ file' = file /\ Opened /\ Opened'
    BY DEF Query, Ready, Opened, opened
  <1>2. IsDataFile(file) /\ file.n \in Nat /\ file.n > 0
    BY <1>1 DEF IInv, TypeOK, IsDataFile
  <1>3. TypeOK'
    BY <1>1, <1>2 DEF IInv, TypeOK, Query, Slot, Slots, opened, index
  <1>4. IndexCache'
    BY <1>1 DEF IInv, IndexCache, Query, index
  <1>5. SearchWindow'
    BY <1>1, <1>2 DEF SearchWindow, Query
  <1>6. (KeyFits /\ AnswerSound /\ FindsCovered)'
    BY <1>1 DEF KeyFits, AnswerSound, FindsCovered
  <1> QED BY <1>3, <1>4, <1>5, <1>6 DEF IInv

\* What every step of a lookup starts from.
LEMMA Facts ==
    ASSUME IInv, Opened
    PROVE  /\ IsDataFile(file) /\ file.n \in Nat /\ file.n > 0 /\ ip \in Nat /\ 0 \in Slots
           /\ \A k \in 1..file.n :
                 /\ k \in Slots
                 /\ file.start[k] \in Nat /\ file.end[k] \in Nat
                 /\ BlobCell(file, k) \in Nat \ {0}
                 /\ Word(file, StartCell(file, k)) = file.start[k]
                 /\ Word(file, EndCell(file, k)) = file.end[k]
                 /\ Word(file, PtrCell(file, k)) = BlobCell(file, k)
                 /\ file.start[k] <= file.end[k]
  <1>1. IsDataFile(file) /\ file.n > 0
    BY DEF IInv, TypeOK
  <1>2. file.n \in Nat /\ \A k \in 1..file.n : file.start[k] <= file.end[k]
    BY <1>1 DEF IsDataFile
  <1>3. ip \in Nat
    BY MaxIPAssumption DEF IInv, TypeOK, Addr
  <1>4. 0 \in Slots /\ \A k \in 1..file.n : k \in Slots
    BY <1>2 DEF Slots
  <1> QED BY <1>1, <1>2, <1>3, <1>4, Words

\* One iteration of the search.
LEMMA ProbeInv == IInv /\ Probe => IInv'
  <1> SUFFICES ASSUME IInv, Probe PROVE IInv'
    OBVIOUS
  <1> DEFINE mid == (i_s + i_e) \div 2
             slot == mid - 1
  <1>1. pc = "search" /\ file' = file /\ ip' = ip /\ Opened
    BY DEF Probe, Opened, opened
  <1>2. /\ IsDataFile(file) /\ file.n \in Nat /\ file.n > 0 /\ ip \in Nat /\ 0 \in Slots
        /\ \A k \in 1..file.n : k \in Slots
    BY <1>1, Facts
  <1>3. \A k \in 1..file.n : /\ file.start[k] \in Nat /\ file.end[k] \in Nat
                             /\ Word(file, StartCell(file, k)) = file.start[k]
                             /\ file.start[k] <= file.end[k]
    BY <1>1, Facts
  <1>4. /\ i_s \in Nat /\ i_e \in Nat /\ 1 <= i_s /\ i_s <= i_e /\ i_e <= file.n
        /\ mid \in Nat /\ i_s <= mid /\ mid <= i_e
        /\ slot \in 0..(file.n - 1) /\ slot \in Slots
        /\ slot = 0 => i_s = 1 /\ i_e <= 2
    BY <1>1, <1>2 DEF IInv, TypeOK, SearchWindow, Probe, Slots
  <1>5. /\ index_start \in Slot /\ index_end \in Slot /\ index_ptr \in Slot
        /\ UNCHANGED <<index_end, index_ptr, preloaded, fp, bbip_errno, answer>>
        /\ index_start' = Loaded(index_start, slot, StartCell(file, slot))
    BY <1>1 DEF IInv, TypeOK, Probe, opened
  <1> HIDE DEF mid, slot
  \* what the probed slot holds after the load
  <1>6. /\ index_start' \in Slot
        /\ \A t \in Slots : t # slot => index_start'[t] = index_start[t]
        /\ slot = 0 => index_start'[slot] = file.n
        /\ slot # 0 => index_start'[slot] = file.start[slot]
    <2>1. /\ slot = 0 => Word(file, StartCell(file, slot)) = file.n
          /\ slot # 0 => Word(file, StartCell(file, slot)) = file.start[slot]
      BY <1>2, <1>3, <1>4, Words DEF StartCell
    <2>2. Word(file, StartCell(file, slot)) \in Nat
      BY <2>1, <1>2, <1>3, <1>4
    <2>3. /\ index_start' \in Slot
          /\ \A t \in Slots : t # slot => index_start'[t] = index_start[t]
          /\ index_start[slot] = 0 => index_start'[slot] = Word(file, StartCell(file, slot))
          /\ index_start[slot] # 0 => index_start'[slot] = index_start[slot]
      BY <1>4, <1>5, <2>2, LoadedSlot
    <2>4. /\ slot = 0 => index_start[slot] \in {0, file.n}
          /\ slot # 0 => index_start[slot] \in {0, file.start[slot]}
      <3>1. index_start[0] \in {0, file.n}
        BY <1>1 DEF IInv, IndexCache
      <3>2. \A k \in 1..file.n : index_start[k] \in {0, file.start[k]}
        BY <1>1 DEF IInv, IndexCache
      <3> QED BY <1>2, <1>4, <3>1, <3>2
    <2> QED BY <2>1, <2>3, <2>4
  <1>7. IndexCache'
    <2>1. index_start'[0] \in {0, file.n}
      <3>1. CASE slot = 0
        BY <1>6, <3>1
      <3>2. CASE slot # 0
        BY <1>1, <1>2, <1>6, <3>2 DEF IInv, IndexCache
      <3> QED BY <3>1, <3>2
    <2>2. \A k \in 1..file.n : /\ index_start'[k] \in {0, file.start[k]}
                               /\ preloaded => index_start'[k] = file.start[k]
      BY <1>1, <1>2, <1>6 DEF IInv, IndexCache
    <2> QED BY <1>1, <1>5, <2>1, <2>2 DEF IInv, IndexCache, Opened, Probe
  <1>8. (AnswerSound /\ FindsCovered)' /\ pc' \in {"search", "keyed"}
    BY <1>1 DEF AnswerSound, FindsCovered, Probe
  \* the types, whatever the comparison says
  <1>9. ASSUME pc' \in {"search", "keyed"}, i_s' \in Nat, i_e' \in Nat, key' \in Nat
         PROVE  TypeOK'
    <2>1. ptr' \in Nat
      <3>1. StartCell(file, slot) \in Nat /\ ptr \in Nat
        BY <1>2, <1>4 DEF StartCell, IInv, TypeOK
      <3>2. ptr' \in {ptr, StartCell(file, slot)}
        BY DEF Probe, mid, slot
      <3> QED BY <3>1, <3>2
    <2>2. /\ index_start' \in Slot' /\ index_end' \in Slot' /\ index_ptr' \in Slot'
          /\ file.n > 0 /\ file' = file
      BY <1>1, <1>2, <1>5, <1>6 DEF Slot, Slots
    <2> QED BY <1>1, <1>2, <1>5, <1>9, <2>1, <2>2 DEF IInv, TypeOK
  <1>10. CASE index_start'[slot] = ip /\ key' = slot /\ pc' = "keyed" /\ UNCHANGED <<i_s, i_e>>
    <2>1. TypeOK'
      BY <1>9, <1>4, <1>10
    <2>2. SearchWindow'
      BY <1>10 DEF SearchWindow
    <2>3. slot # 0 => Covers(file, slot, ip)
      BY <1>2, <1>3, <1>4, <1>6, <1>10 DEF Covers
    <2>4. \A k \in 1..file.n : Reachable(k, ip) /\ Covers(file, k, ip) => slot = k
      <3> SUFFICES ASSUME NEW k \in 1..file.n, Reachable(k, ip), Covers(file, k, ip)
                   PROVE  slot = k
        OBVIOUS
      <3>1. CASE slot = 0
        <4>1. k > 1 /\ k < file.n
          BY <1>2, <1>6, <1>10, <3>1 DEF Reachable
        <4>2. file.start[k] > ip
          BY <1>1, <1>2, <1>4, <3>1, <4>1 DEF IInv, SearchWindow
        <4> QED BY <4>2, <1>2, <1>3 DEF Covers
      <3>2. CASE slot # 0
        BY <1>2, <1>4, <2>3, <3>2, OneCovers DEF IInv, TypeOK
      <3> QED BY <3>1, <3>2
    <2>5. KeyFits'
      <3>1. slot # 0 =>
              /\ index_start'[slot] = file.start[slot]
              /\ \/ index_end'[slot] = file.end[slot]
                 \/ ~preloaded /\ ip = file.start[slot] /\ index_end'[slot] = 0
        <4>1. \A k \in 1..file.n : /\ index_end[k] \in {0, file.end[k]}
                                   /\ preloaded => index_end[k] = file.end[k]
          BY <1>1 DEF IInv, IndexCache
        <4> QED BY <1>2, <1>4, <1>5, <1>6, <1>10, <4>1
      <3>2. slot < file.n
        BY <1>2, <1>4
      <3> QED BY <1>1, <1>5, <1>10, <2>3, <2>4, <3>1, <3>2 DEF KeyFits, Reachable, Covers
    <2> QED BY <1>7, <1>8, <2>1, <2>2, <2>5 DEF IInv
  <1>11. CASE index_start'[slot] > ip /\ i_e' = mid - 1 /\ UNCHANGED <<i_s, key, pc>>
    <2>1. TypeOK'
      BY <1>9, <1>1, <1>4, <1>11 DEF IInv, TypeOK
    <2>2. SearchWindow'
      <3>1. \A k \in 1..(file.n - 1) : k >= mid - 1 /\ (mid - 1 = 0 => k >= 2) => file.start[k] > ip
        <4> SUFFICES ASSUME NEW k \in 1..(file.n - 1), k >= slot, slot = 0 => k >= 2
                     PROVE  file.start[k] > ip
          BY DEF slot
        <4>1. CASE slot = 0
          BY <1>1, <1>2, <1>4, <4>1 DEF IInv, SearchWindow
        <4>2. CASE slot # 0
          <5>1. file.start[slot] > ip
            BY <1>6, <1>11, <4>2
          <5>2. file.start[slot] <= file.start[k]
            BY <1>2, <1>4, <4>2, StartsAscend
          <5> QED BY <1>2, <1>3, <1>4, <4>2, <5>1, <5>2
        <4> QED BY <4>1, <4>2
      <3>2. mid - 1 = 0 => ip < file.n
        BY <1>4, <1>6, <1>11 DEF slot
      <3>3. index_start'[mid - 1] # 0
        BY <1>2, <1>11, <1>4, <1>6 DEF slot, Slot
      <3>4. \A k \in 1..(file.n - 1) : k <= i_s - 2 => file.start[k] < ip
        BY <1>1 DEF IInv, SearchWindow
      <3> QED BY <1>1, <1>2, <1>4, <1>11, <3>1, <3>2, <3>3, <3>4 DEF SearchWindow
    <2>3. KeyFits'
      BY <1>1, <1>11 DEF KeyFits
    <2> QED BY <1>7, <1>8, <2>1, <2>2, <2>3 DEF IInv
  <1>12. CASE index_start'[slot] < ip /\ i_s' = mid + 1 /\ UNCHANGED <<i_e, key, pc>>
    <2>1. TypeOK'
      BY <1>9, <1>1, <1>4, <1>12 DEF IInv, TypeOK
    <2>2. SearchWindow'
      <3>1. \A k \in 1..(file.n - 1) : k <= mid - 1 => file.start[k] < ip
        <4> SUFFICES ASSUME NEW k \in 1..(file.n - 1), k <= slot
                     PROVE  file.start[k] < ip
          BY DEF slot
        <4>1. file.start[slot] < ip
          BY <1>4, <1>6, <1>12
        <4>2. file.start[k] <= file.start[slot]
          BY <1>2, <1>4, StartsAscend
        <4> QED BY <1>2, <1>3, <1>4, <4>1, <4>2
      <3>2. i_e < file.n => index_start'[i_e] # 0
        <4>1. i_e < file.n => index_start[i_e] # 0
          BY <1>1 DEF IInv, SearchWindow
        <4>2. i_e \in Slots /\ i_e # slot
          BY <1>2, <1>4 DEF Slots, slot
        <4> QED BY <1>6, <4>1, <4>2
      <3>3. /\ \A k \in 1..(file.n - 1) :
                  k >= i_e /\ (i_e = 0 => k >= 2) => file.start[k] > ip
            /\ i_e = 0 => ip < file.n
        BY <1>1 DEF IInv, SearchWindow
      <3> QED BY <1>1, <1>2, <1>4, <1>12, <3>1, <3>2, <3>3 DEF SearchWindow
    <2>3. KeyFits'
      BY <1>1, <1>12 DEF KeyFits
    <2> QED BY <1>7, <1>8, <2>1, <2>2, <2>3 DEF IInv
  <1> QED BY <1>10, <1>11, <1>12 DEF Probe, HighAfter, LowAfter, mid, slot

\* The decision after the loop.
LEMMA DecideInv == IInv /\ Decide => IInv'
  <1> SUFFICES ASSUME IInv, Decide PROVE IInv'
    OBVIOUS
  <1> DEFINE slot == i_e - 1
             start == index_start'
             end == index_end'
  <1>1. /\ pc = "search" /\ pc' = "keyed" /\ file' = file /\ ip' = ip /\ Opened /\ Opened'
        /\ UNCHANGED <<index_ptr, preloaded, fp, bbip_errno, answer, i_s, i_e>>
    BY DEF Decide, Opened, opened
  <1>2. /\ IsDataFile(file) /\ file.n \in Nat /\ file.n > 0 /\ ip \in Nat /\ 0 \in Slots
        /\ \A k \in 1..file.n :
              /\ k \in Slots
              /\ file.start[k] \in Nat /\ file.end[k] \in Nat
              /\ Word(file, StartCell(file, k)) = file.start[k]
              /\ Word(file, EndCell(file, k)) = file.end[k]
    BY <1>1, Facts
  <1>3. /\ i_s \in Nat /\ i_e \in Nat /\ i_s = i_e + 1 /\ i_e <= file.n
        /\ i_e > 1 => slot \in 1..file.n /\ slot < file.n /\ slot \in Slots
        /\ i_e \in Slots
    BY <1>1, <1>2 DEF IInv, TypeOK, SearchWindow, Decide, Slots
  <1>4. index_start \in Slot /\ index_end \in Slot /\ index_ptr \in Slot
    BY <1>1 DEF IInv, TypeOK
  <1>5. /\ i_e > 1 => /\ start = Loaded(index_start, slot, StartCell(file, slot))
                      /\ end = Loaded(index_end, slot, EndCell(file, slot))
        /\ ~(i_e > 1) => start = index_start /\ end = index_end
        /\ ptr' \in {ptr, StartCell(file, slot), EndCell(file, slot)}
        /\ ~(i_e > 1) => ptr' = ptr
        /\ key' = IF i_e >= 1 /\ start[i_e] # 0 /\ start[slot] < ip /\ ip <= end[slot]
                  THEN slot ELSE 0
    BY DEF Decide, InRange
  <1> HIDE DEF slot, start, end
  \* what the arrays hold after the loads
  <1>6. /\ start \in Slot /\ end \in Slot
        /\ \A t \in Slots : (i_e > 1 => t # slot) => start[t] = index_start[t] /\ end[t] = index_end[t]
        /\ i_e > 1 => start[slot] = file.start[slot] /\ end[slot] = file.end[slot]
    <2>1. CASE i_e > 1
      <3>1. /\ index_start[slot] \in {0, file.start[slot]}
            /\ index_end[slot] \in {0, file.end[slot]}
        BY <1>1, <1>3, <2>1 DEF IInv, IndexCache
      <3>2. /\ start \in Slot /\ \A t \in Slots : t # slot => start[t] = index_start[t]
            /\ start[slot] = file.start[slot]
        <4>1. Word(file, StartCell(file, slot)) = file.start[slot] /\ file.start[slot] \in Nat
          BY <1>2, <1>3, <2>1
        <4> QED BY <1>3, <1>4, <1>5, <2>1, <3>1, <4>1, LoadedSlot
      <3>3. /\ end \in Slot /\ \A t \in Slots : t # slot => end[t] = index_end[t]
            /\ end[slot] = file.end[slot]
        <4>1. Word(file, EndCell(file, slot)) = file.end[slot] /\ file.end[slot] \in Nat
          BY <1>2, <1>3, <2>1
        <4> QED BY <1>3, <1>4, <1>5, <2>1, <3>1, <4>1, LoadedSlot
      <3> QED BY <2>1, <3>2, <3>3
    <2>2. CASE ~(i_e > 1)
      BY <1>4, <1>5, <2>2
    <2> QED BY <2>1, <2>2
  <1>7. TypeOK'
    <2>1. key' \in Nat
      BY <1>3, <1>5 DEF slot
    <2>2. ptr' \in Nat
      BY <1>2, <1>3, <1>5 DEF StartCell, EndCell, IInv, TypeOK, slot
    <2> QED BY <1>1, <1>2, <1>4, <1>6, <2>1, <2>2 DEF IInv, TypeOK, Slot, Slots, start, end
  <1>8. IndexCache'
    <2>1. start[0] \in {0, file.n} /\ end[0] = 0
      <3>1. start[0] = index_start[0] /\ end[0] = index_end[0]
        BY <1>2, <1>3, <1>6
      <3> QED BY <1>1, <3>1 DEF IInv, IndexCache
    <2>2. ASSUME NEW k \in 1..file.n
          PROVE  /\ start[k] \in {0, file.start[k]} /\ end[k] \in {0, file.end[k]}
                 /\ preloaded => start[k] = file.start[k] /\ end[k] = file.end[k]
      <3>1. CASE i_e > 1 /\ k = slot
        BY <1>6, <3>1
      <3>2. CASE ~(i_e > 1 /\ k = slot)
        <4>1. start[k] = index_start[k] /\ end[k] = index_end[k]
          BY <1>2, <1>6, <3>2
        <4> QED BY <1>1, <4>1 DEF IInv, IndexCache
      <3> QED BY <3>1, <3>2
    <2> QED BY <1>1, <2>1, <2>2 DEF IInv, IndexCache, start, end
  \* the key names a record that covers the address
  <1>9. key' # 0 => /\ key' = slot /\ i_e > 1
                    /\ start[slot] < ip /\ ip <= end[slot]
    <2>1. ASSUME key' # 0, i_e = 1 PROVE FALSE
      BY <2>1, <1>5 DEF slot
    <2> QED BY <1>3, <1>5, <2>1
  \* and a reachable record that covers it is the one named
  <1>10. ASSUME NEW k \in 1..file.n, Reachable(k, ip), Covers(file, k, ip)
         PROVE  key' = k
    <2>1. k < file.n /\ file.start[k] <= ip /\ ip <= file.end[k]
      BY <1>10 DEF Reachable, Covers
    <2>2. i_e >= 1 /\ k <= slot
      <3>1. k >= i_e /\ (i_e = 0 => k >= 2) => file.start[k] > ip
        BY <1>1, <1>2, <2>1 DEF IInv, SearchWindow
      <3>2. ~(k >= i_e /\ (i_e = 0 => k >= 2))
        BY <1>2, <2>1, <3>1
      <3>3. i_e # 0
        <4>1. i_e = 0 => ip < file.n
          BY <1>1 DEF IInv, SearchWindow
        <4> QED BY <1>2, <1>3, <1>10, <3>2, <4>1 DEF Reachable
      <3> QED BY <1>2, <1>3, <3>2, <3>3 DEF slot
    <2>3. i_e > 1 /\ slot \in 1..file.n /\ slot < file.n
      BY <1>2, <1>3, <2>2 DEF slot
    <2>4. file.start[slot] < ip
      BY <1>1, <1>2, <1>3, <2>3 DEF IInv, SearchWindow, slot
    <2>5. k = slot
      <3>1. k < slot => file.end[k] < file.start[slot]
        BY <1>2, <2>3 DEF IsDataFile
      <3> QED BY <1>2, <2>1, <2>2, <2>3, <2>4, <3>1
    <2>6. start[i_e] # 0
      <3>1. start[i_e] = index_start[i_e]
        BY <1>3, <1>6 DEF slot
      <3>2. CASE i_e < file.n
        BY <1>1, <3>1, <3>2 DEF IInv, SearchWindow
      <3>3. CASE i_e = file.n
        <4>1. preloaded
          BY <1>2, <1>3, <1>10, <2>4, <2>5, <3>3 DEF Reachable, slot
        <4>2. index_start[i_e] = file.start[i_e] /\ i_e \in 1..file.n
          BY <1>1, <1>2, <3>3, <4>1 DEF IInv, IndexCache
        <4>3. file.end[k] < file.start[i_e]
          BY <1>2, <2>1, <3>3, <4>2 DEF IsDataFile
        <4> QED BY <1>2, <2>1, <3>1, <4>2, <4>3
      <3> QED BY <1>2, <1>3, <3>2, <3>3
    <2> QED BY <1>2, <1>3, <1>5, <1>6, <2>1, <2>3, <2>4, <2>5, <2>6
  <1>11. KeyFits'
    <2>1. key' < file.n
      BY <1>2, <1>3, <1>9
    <2>2. key' # 0 => /\ Covers(file, key', ip)
                      /\ start[key'] = file.start[key'] /\ end[key'] = file.end[key']
      BY <1>2, <1>3, <1>6, <1>9 DEF Covers
    <2> QED BY <1>1, <1>10, <2>1, <2>2 DEF KeyFits, Reachable, Covers, start, end
  <1>12. (SearchWindow /\ AnswerSound /\ FindsCovered)'
    BY <1>1 DEF SearchWindow, AnswerSound, FindsCovered
  <1> QED BY <1>7, <1>8, <1>11, <1>12 DEF IInv

\* The two ways to return.
LEMMA ReturnNothingInv == IInv /\ ReturnNothing => IInv'
  <1> SUFFICES ASSUME IInv, ReturnNothing PROVE IInv'
    OBVIOUS
  <1>1. /\ pc = "keyed" /\ key = 0 /\ pc' = "answered" /\ answer' = NoAnswer
        /\ UNCHANGED <<opened, index, ptr, preloaded, search>> /\ Opened /\ Opened'
    BY DEF ReturnNothing, Opened
  <1>2. TypeOK'
    BY <1>1 DEF IInv, TypeOK, opened, index, search, Slot, Slots
  <1>3. IndexCache'
    BY <1>1 DEF IInv, IndexCache, opened, index
  <1>4. FindsCovered'
    <2>1. \A k \in 1..file.n : ~(Reachable(k, ip) /\ Covers(file, k, ip))
      BY <1>1 DEF IInv, KeyFits
    <2> QED BY <1>1, <2>1 DEF FindsCovered, Reachable, Covers, opened, search
  <1>5. (SearchWindow /\ KeyFits /\ AnswerSound)'
    BY <1>1 DEF SearchWindow, KeyFits, AnswerSound, NoAnswer
  <1> QED BY <1>2, <1>3, <1>4, <1>5 DEF IInv

LEMMA ReturnRecordInv == IInv /\ ReturnRecord /\ ptr' \in Nat => IInv'
  <1> SUFFICES ASSUME IInv, ReturnRecord, ptr' \in Nat PROVE IInv'
    OBVIOUS
  <1>1. /\ pc = "keyed" /\ key # 0 /\ pc' = "answered"
        /\ UNCHANGED <<opened, index_start, index_end, preloaded, search>>
        /\ Opened /\ Opened'
    BY DEF ReturnRecord, Opened
  <1>2. /\ key \in 1..file.n /\ key \in Slots
        /\ BlobCell(file, key) \in Nat \ {0}
        /\ Word(file, PtrCell(file, key)) = BlobCell(file, key)
        /\ Strings(file, BlobCell(file, key)) = file.data[key]
        /\ index_ptr[key] \in {0, BlobCell(file, key)}
    <2>1. key \in 1..file.n
      BY <1>1, Facts DEF IInv, KeyFits, TypeOK
    <2> QED BY <1>1, <2>1, Facts, Words DEF IInv, IndexCache
  <1>3. /\ index_ptr' \in Slot /\ index_ptr'[key] = BlobCell(file, key)
        /\ \A t \in Slots : t # key => index_ptr'[t] = index_ptr[t]
    <2>1. index_ptr \in Slot /\ index_ptr' = Loaded(index_ptr, key, PtrCell(file, key))
      BY <1>1 DEF IInv, TypeOK, ReturnRecord
    <2> QED BY <1>2, <2>1, LoadedSlot
  <1>4. TypeOK'
    BY <1>1, <1>3 DEF IInv, TypeOK, opened, search, Slot, Slots
  <1>5. IndexCache'
    <2>1. \A k \in 1..file.n : /\ index_ptr'[k] \in {0, BlobCell(file, k)}
                               /\ preloaded => index_ptr'[k] = BlobCell(file, k)
      BY <1>1, <1>3, Facts DEF IInv, IndexCache
    <2> QED BY <1>1, <2>1 DEF IInv, IndexCache, opened
  <1>6. /\ answer'.start = index_start[key] /\ answer'.end = index_end[key]
        /\ answer'.data = file.data[key]
    BY <1>2, <1>3 DEF ReturnRecord
  <1>7. /\ Covers(file, key, ip) /\ index_start[key] = file.start[key]
        /\ \/ index_end[key] = file.end[key]
           \/ ~preloaded /\ ip = file.start[key] /\ index_end[key] = 0
        /\ \A k \in 1..file.n : Reachable(k, ip) /\ Covers(file, k, ip) => key = k
    BY <1>1 DEF IInv, KeyFits
  <1>8. AnswerSound'
    BY <1>1, <1>2, <1>6, <1>7 DEF AnswerSound, Covers, opened, search
  <1>9. FindsCovered'
    BY <1>1, <1>2, <1>6, <1>7 DEF FindsCovered, Reachable, Covers, opened, search
  <1>10. (SearchWindow /\ KeyFits)'
    BY <1>1 DEF SearchWindow, KeyFits
  <1> QED BY <1>4, <1>5, <1>8, <1>9, <1>10 DEF IInv

LEMMA NextInv == IInv /\ [Next]_vars => IInv'
  <1> SUFFICES ASSUME IInv, [Next]_vars PROVE IInv'
    OBVIOUS
  <1>1. CASE Lookup
    <2>1. CASE SearchReturn
      BY <2>1, ReturnRecordInv DEF SearchReturn, IInv, TypeOK
    <2>2. CASE LuaReturn
      <3>1. ReturnRecord /\ ptr' = index_ptr'[key] + 1
        BY <2>2 DEF LuaReturn
      <3>2. index_ptr'[key] \in Nat
        <4>1. /\ Opened /\ key \in Slots /\ key \in 1..file.n /\ file.n \in Nat
              /\ index_ptr \in Slot
              /\ index_ptr' = Loaded(index_ptr, key, PtrCell(file, key))
          BY <3>1, Facts DEF ReturnRecord, IInv, KeyFits, TypeOK, Opened
        <4>2. Word(file, PtrCell(file, key)) \in Nat
          BY <4>1, Facts
        <4> QED BY <4>1, <4>2, LoadedSlot DEF Slot
      <3> QED BY <3>1, <3>2, ReturnRecordInv
    <2> QED BY <1>1, <2>1, <2>2, ProbeInv, DecideInv, ReturnNothingInv DEF Lookup
  <1>2. CASE UNCHANGED vars
    <2>1. TypeOK'
      BY <1>2 DEF IInv, TypeOK, vars, opened, index, search, Slot, Slots, Opened
    <2>2. (IndexCache /\ SearchWindow)'
      BY <1>2 DEF IInv, IndexCache, SearchWindow, vars, opened, index, search, Opened
    <2>3. (KeyFits /\ AnswerSound /\ FindsCovered)'
      BY <1>2 DEF IInv, KeyFits, AnswerSound, FindsCovered, Reachable, Covers,
                  vars, opened, index, search
    <2> QED BY <2>1, <2>2, <2>3 DEF IInv
  <1> QED BY <1>1, <1>2, InitFailsInv, BbipInitInv, PreloadInv, QueryInv DEF Next

LEMMA Invariance == Spec => []IInv
  BY InitInv, NextInv, PTL DEF Spec

\* The fields of the handle keep their types through every sequence of calls.
THEOREM TypeCorrect == Spec => []TypeOK
  BY Invariance, PTL DEF IInv

\* Whatever was queried and whenever the index was preloaded, the cached slots
\* (bbip_query's lazy loads, bbip_preload's bulk read) agree with the file.
THEOREM CachesMatchFile == Spec => []IndexCache
  BY Invariance, PTL DEF IInv

\* The bisection of bbip_query never discards the record of the address.
THEOREM WindowCorrect == Spec => []SearchWindow
  BY Invariance, PTL DEF IInv

\* The key of bbip_query is the slot of a record that covers the address.
THEOREM KeyCorrect == Spec => []KeyFits
  BY Invariance, PTL DEF IInv

\* An answer of bbip_search or of the Lua query is about the queried address.
THEOREM AnswersSound == Spec => []AnswerSound
  BY Invariance, PTL DEF IInv

\* An address of a reachable record is always found, with a preload or without.
THEOREM ReachableFound == Spec => []FindsCovered
  BY Invariance, PTL DEF IInv

\* No call ever changes a slot that another call has loaded.
THEOREM SlotsAreStable == Spec => CacheOnlyGrows
  <1> DEFINE Stable == Opened => \A s \in Slots :
          /\ index_start[s] # 0 => index_start'[s] = index_start[s]
          /\ index_end[s] # 0 => index_end'[s] = index_end[s]
          /\ index_ptr[s] # 0 => index_ptr'[s] = index_ptr[s]
  <1>1. ASSUME IInv, [Next]_vars PROVE Stable
    <2> SUFFICES ASSUME Opened, NEW s \in Slots
                 PROVE  /\ index_start[s] # 0 => index_start'[s] = index_start[s]
                        /\ index_end[s] # 0 => index_end'[s] = index_end[s]
                        /\ index_ptr[s] # 0 => index_ptr'[s] = index_ptr[s]
      OBVIOUS
    <2>1. index_start \in Slot /\ index_end \in Slot /\ index_ptr \in Slot
      BY <1>1 DEF IInv, TypeOK
    <2>2. \A array \in Slot : \A t, cell : array[s] # 0 => Loaded(array, t, cell)[s] = array[s]
      BY DEF Loaded, Slot
    <2>3. CASE BbipPreload
      <3>1. s = 0 \/ s \in 1..file.n
        BY <1>1, Facts DEF Slots
      <3>2. CASE s = 0
        BY <2>3, <3>2 DEF BbipPreload, Filled
      <3>3. CASE s \in 1..file.n
        <4>1. /\ index_start[s] \in {0, Word(file, StartCell(file, 0) + s)}
              /\ index_end[s] \in {0, Word(file, EndCell(file, 0) + s)}
              /\ index_ptr[s] \in {0, Word(file, PtrCell(file, 0) + s)}
          BY <1>1, <3>3, Facts DEF IInv, IndexCache, StartCell, EndCell, PtrCell
        <4>2. s # 0
          BY <3>3, <1>1, Facts
        <4> QED BY <2>3, <4>1, <4>2 DEF BbipPreload, Filled
      <3> QED BY <3>1, <3>2, <3>3
    <2>4. CASE Probe
      BY <2>1, <2>2, <2>4 DEF Probe
    <2>5. CASE Decide
      BY <2>1, <2>2, <2>5 DEF Decide
    <2>6. CASE ReturnRecord
      BY <2>1, <2>2, <2>6 DEF ReturnRecord
    <2>7. CASE UNCHANGED index
      BY <2>7 DEF index
    <2>8. ~BbipInitFails /\ ~BbipInit
      BY DEF BbipInitFails, BbipInit, Opened
    <2> QED BY <1>1, <2>3, <2>4, <2>5, <2>6, <2>7, <2>8
            DEF Next, Lookup, SearchReturn, LuaReturn, ReturnNothing, Query, vars
  <1> QED BY <1>1, Invariance, PTL DEF Spec, CacheOnlyGrows
(***************************************************************************)
(* The prefix length of an answer.                                         *)
(***************************************************************************)
\* The powers of two that are compared with the width of a range are positive.
LEMMA PowersPositive ==
    ASSUME NEW m \in 0..W
    PROVE  2^m \in Int /\ 2^m >= 1
  <1> DEFINE S == {j \in 0..W : \A k \in 0..j : 2^k >= 1}
  <1>1. W \in Nat /\ 0 \in S
    <2>1. W \in Nat /\ 0 \in 0..W /\ 2^0 = 1
      BY WAssumption, PowersAssumption
    <2>2. \A k \in 0..0 : k = 0
      OBVIOUS
    <2>3. \A k \in 0..0 : 2^k >= 1
      <3>1. 2^0 >= 1
        BY <2>1
      <3> QED BY <2>2, <3>1
    <2> QED BY <2>1, <2>3
  <1>2. PICK x \in S : \A y \in S : y <= x
    <2> HIDE DEF S
    <2>1. S \in SUBSET (0..W) /\ S # {}
      BY <1>1 DEF S
    <2> QED BY <1>1, <2>1, Largest
  <1>3. ASSUME x # W PROVE FALSE
    <2>1. x \in 0..(W - 1) /\ x + 1 \in 0..W
      BY <1>1, <1>3
    <2>2. 2^(x + 1) = 2 * 2^x /\ 2^x >= 1
      BY <2>1, PowersAssumption
    <2>3. 2^(x + 1) >= 1
      <3>1. 2^x \in Int
        BY <2>1
      <3> QED BY <2>2, <3>1
    <2>4. \A k \in 0..(x + 1) : k \in 0..x \/ k = x + 1
      BY <2>1
    <2>5. \A k \in 0..(x + 1) : 2^k >= 1
      BY <2>3, <2>4
    <2>6. x + 1 \in S
      BY <2>1, <2>5
    <2>7. x + 1 <= x
      <3> HIDE DEF S
      <3> QED BY <1>2, <2>6
    <2> QED BY <2>1, <2>7
  <1>4. 2^m >= 1
    BY <1>3
  <1> QED BY <1>4

\* Some test of the chain holds, and the first one that does is well defined.
LEMMA FirstWide ==
    ASSUME NEW d
    PROVE  \E m \in 1..W : Wide(d, m) /\ \A x \in 1..(m - 1) : ~Wide(d, x)
  <1> DEFINE S == {j \in 0..W : \A x \in 1..j : ~Wide(d, x)}
  <1>1. W \in Nat /\ W >= 1 /\ 0 \in S
    BY WAssumption
  <1>2. PICK j \in S : \A y \in S : y <= j
    <2> HIDE DEF S
    <2>1. S \in SUBSET (0..W) /\ S # {}
      BY <1>1 DEF S
    <2> QED BY <1>1, <2>1, Largest
  <1>3. j # W
    <2>1. j = W => W \in 1..j
      BY <1>1
    <2>2. Wide(d, W)
      BY DEF Wide
    <2> QED BY <2>1, <2>2
  <1>4. j + 1 \in 1..W /\ (j + 1) - 1 = j /\ j \in 0..W
    BY <1>1, <1>3
  <1>5. Wide(d, j + 1)
    <2>1. SUFFICES ASSUME ~Wide(d, j + 1) PROVE FALSE
      OBVIOUS
    <2>2. \A k \in 1..(j + 1) : k \in 1..j \/ k = j + 1
      BY <1>4
    <2>3. \A k \in 1..(j + 1) : ~Wide(d, k)
      BY <2>1, <2>2
    <2>4. j + 1 \in S
      BY <1>4, <2>3
    <2>5. j + 1 <= j
      <3> HIDE DEF S
      <3> QED BY <1>2, <2>4
    <2> QED BY <1>4, <2>5
  <1>6. \A x \in 1..((j + 1) - 1) : ~Wide(d, x)
    BY <1>4
  <1> QED BY <1>4, <1>5, <1>6

\* What the chain of tests returns for a range of d + 1 addresses.
LEMMA CidrOfWidth ==
    ASSUME NEW from \in Nat, NEW to \in Nat, NEW d \in 0..(2^W - 1),
           d = (to - from) % (2^W), NEW c, c = RangeToCidrSize(from, to)
    PROVE  /\ d = 2^W - 1 => c = 0
           /\ d = 0 => c = W
           /\ d # 0 /\ d # 2^W - 1 =>
                 2^(W - c) \in Int /\ 2^(W - c) <= d /\ d < 2 * 2^(W - c)
  <1>1. W \in Nat /\ W >= 1
    BY WAssumption
  <1>2. 2^W \in Int /\ 2^W >= 2
    <2>1. W - 1 \in 0..W /\ W - 1 \in 0..(W - 1) /\ (W - 1) + 1 = W
      BY <1>1
    <2>2. 2^(W - 1) \in Int /\ 2^(W - 1) >= 1
      BY <2>1, PowersPositive
    <2>3. 2^((W - 1) + 1) = 2 * 2^(W - 1)
      BY <2>1, PowersAssumption
    <2>4. 2^W = 2 * 2^(W - 1)
      BY <2>1, <2>3
    <2> QED BY <2>2, <2>4
  <1>3. CASE d = 2^W - 1
    <2>1. c = 0
      BY <1>3 DEF RangeToCidrSize
    <2>2. d # 0
      BY <1>2, <1>3
    <2> QED BY <1>3, <2>1, <2>2
  <1>4. CASE d # 2^W - 1
    <2> DEFINE First(m) == Wide(d, m) /\ \A x \in 1..(m - 1) : ~Wide(d, x)
    <2>1. c = CHOOSE m \in 1..W : First(m)
      BY <1>4 DEF RangeToCidrSize
    <2>2. \E m \in 1..W : First(m)
      BY FirstWide
    <2>3. c \in 1..W /\ First(c)
      <3> HIDE DEF First
      <3> QED BY <2>1, <2>2
    <2>4. c \in Int /\ 1 <= c /\ c <= W /\ W - c \in 0..W /\ d \in Int /\ 0 <= d /\ d <= 2^W - 1
      BY <1>1, <1>2, <2>3
    <2>5. 2^(W - c) \in Int /\ 2^(W - c) >= 1
      BY <2>4, PowersPositive
    <2>6. d = 0 => c = W
      BY <2>3, <2>4, <2>5 DEF Wide
    <2>7. d # 0 => 2^(W - c) <= d
      <3>1. CASE c = W
        <4>1. W - c = 0
          BY <1>1, <3>1
        <4>2. 2^(W - c) = 1
          BY <4>1, PowersAssumption
        <4> QED BY <2>4, <4>2
      <3>2. CASE c # W
        BY <2>3, <2>4, <2>5, <3>2 DEF Wide
      <3> QED BY <3>1, <3>2
    <2>8. d < 2 * 2^(W - c)
      <3>1. W - c \in 0..(W - 1)
        BY <1>1, <2>4
      <3>2. 2^((W - c) + 1) = 2 * 2^(W - c)
        BY <3>1, PowersAssumption
      <3>3. CASE c = 1
        <4>1. (W - c) + 1 = W
          BY <1>1, <3>3
        <4>2. 2^W = 2 * 2^(W - c)
          BY <3>2, <4>1
        <4> QED BY <1>2, <2>4, <2>5, <4>2
      <3>4. CASE c # 1
        <4>1. c - 1 \in 1..(c - 1) /\ W - (c - 1) = (W - c) + 1
          BY <1>1, <2>4, <3>4
        <4>2. ~Wide(d, c - 1)
          BY <2>3, <4>1
        <4>3. ~(d >= 2^(W - (c - 1)))
          BY <4>2 DEF Wide
        <4>4. ~(d >= 2 * 2^(W - c))
          BY <3>2, <4>1, <4>3
        <4> QED BY <2>4, <2>5, <4>4
      <3> QED BY <3>3, <3>4
    <2> QED BY <1>4, <2>5, <2>6, <2>7, <2>8
  <1> QED BY <1>3, <1>4

\* The prefix length of an answer is that of the range that it gives.
AnswerCidr ==
    pc = "answered" /\ answer # NoAnswer =>
        answer.cidr = RangeToCidrSize(answer.start, answer.end)

LEMMA AnswerCidrInv == Spec => []AnswerCidr
  <1>1. Init => AnswerCidr
    BY DEF Init, AnswerCidr
  <1>2. AnswerCidr /\ [Next]_vars => AnswerCidr'
    <2> SUFFICES ASSUME AnswerCidr, [Next]_vars, pc' = "answered", answer' # NoAnswer
                 PROVE  answer'.cidr = RangeToCidrSize(answer'.start, answer'.end)
      BY DEF AnswerCidr
    <2>1. CASE ReturnRecord
      BY <2>1 DEF ReturnRecord
    <2>2. ~ReturnNothing
      BY DEF ReturnNothing
    <2>3. CASE UNCHANGED vars
      BY <2>3 DEF vars, AnswerCidr
    <2>4. ~BbipInitFails /\ ~BbipInit /\ ~BbipPreload /\ (\A a \in Addr : ~Query(a)) /\ ~Decide
      BY DEF BbipInitFails, BbipInit, BbipPreload, Query, Decide
    <2>5. ~Probe
      BY DEF Probe
    <2> QED BY <2>1, <2>2, <2>3, <2>4, <2>5 DEF Next, Lookup, SearchReturn, LuaReturn
  <1> QED BY <1>1, <1>2, PTL DEF Spec

\* The prefix length of an answer (rangeToCidrSize, bbip.c:202) stands for a
\* block that is not larger than the record's range, and at least half as large,
\* unless the range's end was not loaded.
THEOREM PrefixFitsRange == Spec => []BlockFitsRange
  <1>1. ASSUME IInv, AnswerCidr PROVE BlockFitsRange
    <2> SUFFICES ASSUME pc = "answered", answer # NoAnswer PROVE BlockFitsRange
      BY DEF BlockFitsRange
    <2>1. PICK k \in 1..file.n :
              /\ Covers(file, k, ip)
              /\ answer.start = file.start[k]
              /\ \/ answer.end = file.end[k]
                 \/ ~preloaded /\ ip = file.start[k] /\ answer.end = 0
      BY <1>1 DEF IInv, AnswerSound
    <2>2. CASE answer.end # file.end[k]
      BY <2>1, <2>2 DEF BlockFitsRange
    <2>3. CASE answer.end = file.end[k]
      <3> DEFINE from == answer.start
                 to == answer.end
                 d == to - from
                 N == 2^W
                 block == 2^(W - answer.cidr)
      <3>1. from \in 0..MaxIP /\ to \in 0..MaxIP /\ from <= to
        BY <1>1, <2>1, <2>3 DEF IInv, TypeOK, IsDataFile, Addr
      <3>2. N \in Int /\ MaxIP < N /\ MaxIP \in Nat
        BY WAssumption, MaxIPAssumption, WidthAssumption
      <3>3. /\ from \in Nat /\ to \in Nat
            /\ d \in Int /\ 0 <= d /\ d <= N - 1 /\ d = d % N
        <4> HIDE DEF N, from, to
        <4> QED BY <3>1, <3>2
      <3>4. /\ d = N - 1 => answer.cidr = 0
            /\ d = 0 => answer.cidr = W
            /\ d # 0 /\ d # N - 1 => block \in Int /\ block <= d /\ d < 2 * block
        <4>1. answer.cidr = RangeToCidrSize(from, to)
          BY <1>1 DEF AnswerCidr
        <4>2. d \in 0..(2^W - 1) /\ d = (to - from) % (2^W)
          BY <3>2, <3>3
        <4> HIDE DEF from, to, d
        <4> QED BY <3>3, <4>1, <4>2, CidrOfWidth
      <3>5. block \in Int /\ block <= d + 1 /\ d + 1 <= 2 * block
        <4>1. CASE d = N - 1
          <5>1. block = N
            BY <3>4, <4>1, WAssumption
          <5> HIDE DEF N, d, block
          <5> QED BY <3>2, <3>3, <4>1, <5>1
        <4>2. CASE d = 0
          <5>1. W - answer.cidr = 0
            BY <3>4, <4>2, WAssumption
          <5>2. block = 1
            BY <5>1, PowersAssumption
          <5> HIDE DEF d, block
          <5> QED BY <4>2, <5>2
        <4>3. CASE d # N - 1 /\ d # 0
          <5> HIDE DEF N, d, block
          <5> QED BY <3>3, <3>4, <4>3
        <4> QED BY <4>1, <4>2, <4>3
      <3>6. RangeSize(k) = d + 1
        BY <2>1, <2>3 DEF RangeSize
      <3>7. block <= RangeSize(k) /\ RangeSize(k) <= 2 * block
        <4> HIDE DEF d, block
        <4> QED BY <3>5, <3>6
      <3> QED BY <2>1, <3>7 DEF BlockFitsRange
    <2> QED BY <2>2, <2>3
  <1> QED BY <1>1, Invariance, AnswerCidrInv, PTL

-----------------------------------------------------------------------------

\* The database is that of the file, and the commitment only depends on whether
\* a preload has succeeded.
LEMMA SameFile ==
    ASSUME file' = file
    PROVE  Database' = Database /\ (preloaded' = preloaded => Committed' = Committed)
  BY DEF Database, Committed, Entry

LEMMA CommittedInDatabase ==
    ASSUME IsDataFile(file) PROVE Committed \subseteq Database
  <1>1. file.n \in Nat
    BY DEF IsDataFile
  <1> QED BY <1>1 DEF Committed, Database

\* A committed entry for an address is one that a lookup reaches.
LEMMA CommittedIsReachable ==
    ASSUME IsDataFile(file), NEW e \in Geo!For(Committed, ip)
    PROVE  \E k \in 1..file.n : Reachable(k, ip) /\ Covers(file, k, ip)
  <1>1. file.n \in Nat
    BY DEF IsDataFile
  <1>2. PICK k \in 2..file.n : /\ IF preloaded THEN k < file.n ELSE k < file.n - 1
                               /\ e = Entry(k)
    BY DEF Geo!For, Committed
  <1>3. Covers(file, k, ip)
    BY <1>2 DEF Geo!For, Entry, Covers
  <1>4. Reachable(k, ip)
    BY <1>1, <1>2 DEF Reachable
  <1> QED BY <1>1, <1>2, <1>3, <1>4

LEMMA InitRefines == Init => Geo!Init
  <1> SUFFICES ASSUME Init PROVE Geo!Init
    OBVIOUS
  <1>1. IsDataFile(file)
    BY FilesAssumption DEF Init
  <1>2. Phase = "new" /\ ip = 0 /\ Reply = Geo!Nothing
    BY DEF Init, Phase, Ready, Reply, NoAnswer, Geo!Nothing
  <1> QED BY <1>1, <1>2, CommittedInDatabase DEF Geo!Init

LEMMA OpenRefines ==
    ASSUME BbipInit \/ BbipInitFails PROVE Geo!Open
  <1>1. /\ file' = file /\ preloaded' = preloaded /\ ip' = ip /\ answer' = answer
        /\ pc = "new" /\ pc' \in {"idle", "failed"}
    BY DEF BbipInit, BbipInitFails, opened, search
  <1>2. Phase = "new" /\ Phase' \in {"ready", "failed"} /\ Reply' = Reply
    BY <1>1 DEF Phase, Ready, Reply
  <1> QED BY <1>1, <1>2, SameFile DEF Geo!Open

LEMMA PreloadRefines ==
    ASSUME IInv, BbipPreload PROVE Geo!Commit
  <1>1. /\ file' = file /\ preloaded' /\ ip' = ip /\ answer' = answer
        /\ Ready /\ pc' = "idle" /\ IsDataFile(file)
    BY DEF BbipPreload, opened, search, IInv, TypeOK
  <1>2. Phase = "ready" /\ Phase' = "ready" /\ Reply' = Reply
    BY <1>1 DEF Phase, Ready, Reply
  <1>3. Committed \subseteq Committed'
    <2>1. file.n \in Nat
      BY <1>1 DEF IsDataFile
    <2> QED BY <1>1, <2>1 DEF Committed, Entry
  <1>4. Committed' \subseteq Database'
    BY <1>1 DEF Committed, Database
  <1> QED BY <1>1, <1>2, <1>3, <1>4, SameFile DEF Geo!Commit

LEMMA QueryRefines ==
    ASSUME NEW a \in Addr, Query(a) PROVE Geo!Ask
  <1>1. /\ file' = file /\ preloaded' = preloaded /\ ip' = a /\ answer' = answer
        /\ Ready /\ pc' = "search"
    BY DEF Query, opened
  <1>2. Phase = "ready" /\ Phase' = "asked" /\ Reply' = Reply
    BY <1>1 DEF Phase, Ready, Reply
  <1> QED BY <1>1, <1>2, SameFile DEF Geo!Ask, Addr

\* The iterations of the search are steps of the handle alone.
LEMMA SearchStutters ==
    ASSUME Probe \/ Decide PROVE UNCHANGED Geo!vars
  <1>1. /\ file' = file /\ preloaded' = preloaded /\ ip' = ip /\ answer' = answer
        /\ pc = "search" /\ pc' \in {"search", "keyed"}
    BY DEF Probe, Decide, opened
  <1>2. Phase = "asked" /\ Phase' = "asked" /\ Reply' = Reply
    BY <1>1 DEF Phase, Reply
  <1> QED BY <1>1, <1>2, SameFile DEF Geo!vars

LEMMA NothingRefines ==
    ASSUME IInv, ReturnNothing PROVE Geo!Answer
  <1>1. /\ file' = file /\ preloaded' = preloaded /\ ip' = ip /\ answer' = NoAnswer
        /\ pc = "keyed" /\ key = 0 /\ pc' = "answered" /\ IsDataFile(file)
    BY DEF ReturnNothing, opened, search, IInv, TypeOK
  <1>2. Phase = "asked" /\ Phase' = "ready" /\ Reply' = Geo!Nothing
    BY <1>1 DEF Phase, Ready, Reply, NoAnswer, Geo!Nothing
  <1>3. Geo!For(Committed, ip) = {}
    <2>1. \A k \in 1..file.n : ~(Reachable(k, ip) /\ Covers(file, k, ip))
      BY <1>1 DEF IInv, KeyFits
    <2> QED BY <1>1, <2>1, CommittedIsReachable
  <1> QED BY <1>1, <1>2, <1>3, SameFile DEF Geo!Answer

LEMMA RecordRefines ==
    ASSUME IInv, ReturnRecord PROVE Geo!Answer
  <1>1. /\ file' = file /\ preloaded' = preloaded /\ ip' = ip
        /\ pc = "keyed" /\ key # 0 /\ pc' = "answered" /\ Opened
    BY DEF ReturnRecord, opened, search, Opened
  <1>2. Phase = "asked" /\ Phase' = "ready"
    BY <1>1 DEF Phase, Ready
  <1>3. /\ key \in 1..file.n /\ Covers(file, key, ip)
        /\ index_start[key] = file.start[key]
    BY <1>1, Facts DEF IInv, KeyFits, TypeOK
  <1>4. index_ptr'[key] = BlobCell(file, key)
    <2>1. /\ index_ptr \in Slot /\ key \in Slots
          /\ index_ptr[key] \in {0, BlobCell(file, key)}
          /\ Word(file, PtrCell(file, key)) = BlobCell(file, key)
          /\ BlobCell(file, key) \in Nat
      BY <1>1, <1>3, Facts DEF IInv, TypeOK, IndexCache
    <2> QED BY <2>1, LoadedSlot DEF ReturnRecord
  <1>5. answer'.start = file.start[key] /\ answer'.data = file.data[key]
    BY <1>1, <1>3, <1>4, Facts, Words DEF ReturnRecord
  <1>6. Entry(key) \in Geo!For(Database, ip)
    BY <1>3 DEF Geo!For, Database, Entry, Covers
  <1>7. Reply' = [start |-> Entry(key).start, data |-> Entry(key).data]
    BY <1>5 DEF Reply, Entry
  <1> QED BY <1>1, <1>2, <1>6, <1>7, SameFile DEF Geo!Answer

LEMMA StepRefines == IInv /\ [Next]_vars => [Geo!Next]_(Geo!vars)
  <1> SUFFICES ASSUME IInv, [Next]_vars PROVE [Geo!Next]_(Geo!vars)
    OBVIOUS
  <1>1. CASE UNCHANGED vars
    <2>1. file' = file /\ preloaded' = preloaded /\ ip' = ip /\ answer' = answer /\ pc' = pc
      BY <1>1 DEF vars, opened, search
    <2>2. Phase' = Phase /\ Reply' = Reply
      BY <2>1 DEF Phase, Ready, Reply
    <2> QED BY <2>1, <2>2, SameFile DEF Geo!vars
  <1>2. CASE Lookup
    BY <1>2, SearchStutters, NothingRefines, RecordRefines
       DEF Lookup, SearchReturn, LuaReturn, Geo!Next
  <1> QED BY <1>1, <1>2, OpenRefines, PreloadRefines, QueryRefines DEF Next, Geo!Next

\* What GeoLookup promises a caller holds of the library (bbip.c:359, 104): its
\* answers are entries of the file for the address, and an answer of nothing
\* means that the file commits to no entry for it.
THEOREM HandleImplementsGeoLookup == Spec => Geo!Init /\ [][Geo!Next]_(Geo!vars)
  BY InitRefines, StepRefines, Invariance, PTL DEF Spec
=============================================================================
