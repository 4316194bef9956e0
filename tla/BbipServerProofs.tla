-------------------------- MODULE BbipServerProofs --------------------------
(***************************************************************************)
(* Proofs about the server's threads, for every number of threads, every   *)
(* file and every interleaving of their loads and stores: what races on    *)
(* the cursor cannot do.  What is true of a thread only speaks of the file *)
(* and of its own locals (InHandler), so that no step of another disturbs  *)
(* it; what is true of the index (Shared) is what every thread relies on.  *)
(* The second half is about the strings, for which the cursor matters.     *)
(***************************************************************************)
EXTENDS BbipServer, BbipFileFacts

Arrays == {"start", "end", "ptr"}
Searching == {"loop", "equal", "order"}
Behind == {"start", "end", "decide"}
Copying == {"len", "bump", "data", "add", "skip"}
Loading == {"aim", "load", "save"}
Labels == Searching \cup Behind \cup Copying \cup Loading
            \cup {"idle", "keyed", "seek", "range", "done"}

\* The locals; S is whatever the strings and their places are, which nothing
\* here depends on.
Locals(S) ==
    [op : Ops, ip : Addr, i_s : Nat, i_e : Nat, key : Nat,
     miss : Arrays \X Nat \X Labels, word : Nat,
     cur : S, len : S, data : S, range : S, strs : S]

CellIn(f, array, slot) ==
    CASE array = "start" -> StartCell(f, slot)
      [] array = "end" -> EndCell(f, slot)
      [] array = "ptr" -> PtrCell(f, slot)

SlotOf(l) == (l.i_s + l.i_e) \div 2 - 1
NoneOf(f, a) == \A j \in 2..(f.n - 1) : ~Covers(f, j, a)

\* What the search has excluded.  Slot 0 may hold anything, but it is compared
\* only when the addresses of records 2 to n-1 are excluded.
Window(f, l) ==
    /\ l.i_s \in 1..(f.n + 1) /\ l.i_e \in 0..f.n
    /\ f.start[1] # 0 =>
          /\ l.i_e = 0 => NoneOf(f, l.ip)
          /\ l.i_e \in 1..(f.n - 1) => l.ip < f.start[l.i_e]
          /\ l.i_s >= 3 => f.start[l.i_s - 2] < l.ip

\* The key is right.
Named(f, l) ==
    /\ l.key \in 0..(f.n - 1)
    /\ f.start[1] # 0 =>
          /\ l.key # 0 => Covers(f, l.key, l.ip)
          /\ \A j \in 2..(f.n - 1) : Covers(f, j, l.ip) => l.key = j

\* A thread with locals l that is at w.
Good(f, l, w) ==
    /\ w \in Searching \cup Behind => Window(f, l)
    /\ w = "loop" => l.i_s <= l.i_e + 1
    /\ w \in {"equal", "order"} => l.i_s <= l.i_e
    /\ w = "order" /\ f.start[1] # 0 /\ SlotOf(l) # 0 => f.start[SlotOf(l)] # l.ip
    /\ w \in Behind => l.i_s = l.i_e + 1
    /\ w \in {"start", "end"} => l.i_e > 1
    /\ w \in {"keyed", "seek", "range", "done"} \cup Copying => Named(f, l)
    /\ w \in {"seek", "range"} \cup Copying => l.key # 0
    /\ w \in {"done"} \cup Copying /\ l.op = "query" /\ l.key # 0 /\ f.start[1] # 0 =>
          l.range = <<f.start[l.key], f.end[l.key]>>

\* The slot it loads: slot 0, or one whose word is 0.
Miss(f, l) ==
    /\ l.miss[1] \in Arrays /\ l.miss[2] \in 0..f.n
    /\ l.miss[3] \in {"equal", "end", "decide", "seek"}
    /\ l.miss[2] # 0 => Word(f, CellIn(f, l.miss[1], l.miss[2])) = 0

\* While it loads a slot, what it is to find where it goes on holds already.
InHandler(f, l, p) ==
    IF p \in Loading THEN Miss(f, l) /\ Good(f, l, l.miss[3]) ELSE Good(f, l, p)

Typed(S) == local \in [Threads -> Locals(S)]

Shared ==
    /\ file \in Files
    /\ index \in [Arrays -> [0..file.n -> Nat]]
    /\ IndexIntact
    /\ ptr[1] = "word" => ptr[2] \in 0..(3 * file.n)

IInv ==
    /\ Shared
    /\ pc \in [Threads -> Labels]
    /\ \E S : Typed(S)
    /\ \A t \in Threads : InHandler(file, local[t], pc[t])
-----------------------------------------------------------------------------
\* The file, and the index where no range starts at address 0.
LEMMA FileFacts ==
    ASSUME Shared
    PROVE  /\ IsDataFile(file) /\ file.n \in Nat /\ file.n > 0
           /\ \A k \in 1..file.n : file.start[k] \in Nat /\ file.end[k] \in Nat
           /\ \A c \in 0..(3 * file.n) : Word(file, c) \in Nat
  <1>1. IsDataFile(file) /\ file.n > 0
    BY FilesAssumption DEF Shared
  <1>2. /\ file.n \in Nat /\ file.start \in [1..file.n -> Addr]
        /\ file.end \in [1..file.n -> Addr]
        /\ file.ptr = [k \in 1..file.n |-> 3 * file.n + k]
    BY <1>1 DEF IsDataFile
  <1>3. \A k \in 1..file.n : file.start[k] \in Nat /\ file.end[k] \in Nat
    BY <1>2, MaxIPAssumption DEF Addr
  <1>4. ASSUME NEW c \in 0..(3 * file.n) PROVE Word(file, c) \in Nat
    <2>1. CASE c = 0
      BY <1>2, <2>1 DEF Word
    <2>2. CASE c # 0 /\ c <= file.n
      <3>1. c \in 1..file.n
        BY <1>2, <2>2
      <3> QED BY <1>3, <2>2, <3>1 DEF Word
    <2>3. CASE ~(c <= file.n) /\ c <= 2 * file.n
      <3>1. c # 0 /\ c - file.n \in 1..file.n
        BY <1>2, <2>3
      <3> QED BY <1>3, <2>3, <3>1 DEF Word
    <2>4. CASE ~(c <= 2 * file.n)
      <3>1. c # 0 /\ ~(c <= file.n) /\ c - 2 * file.n \in 1..file.n
        BY <1>2, <2>4
      <3>2. Word(file, c) = 3 * file.n + (c - 2 * file.n)
        BY <1>2, <2>4, <3>1 DEF Word
      <3> QED BY <1>2, <3>1, <3>2
    <2> QED BY <1>2, <2>1, <2>2, <2>3, <2>4
  <1> QED BY <1>1, <1>2, <1>3, <1>4

LEMMA CellsOf ==
    ASSUME NEW array \in Arrays, NEW slot
    PROVE  Cell(array, slot) = CellIn(file, array, slot)
  BY DEF Cell, CellIn, Arrays

LEMMA CellRange ==
    ASSUME NEW f, f.n \in Nat, NEW array \in Arrays, NEW slot \in 0..f.n
    PROVE  CellIn(f, array, slot) \in 0..(3 * f.n)
  BY DEF CellIn, Arrays, StartCell, EndCell, PtrCell

LEMMA FullIndex ==
    ASSUME Shared, NEW k \in 1..file.n
    PROVE  /\ index["ptr"][k] = BlobCell(file, k)
           /\ file.start[1] # 0 =>
                 /\ file.start[k] # 0
                 /\ index["start"][k] = file.start[k] /\ index["end"][k] = file.end[k]
  <1>1. IsDataFile(file) /\ file.n > 0 /\ file.n \in Nat
    BY FileFacts
  <1>2. /\ Word(file, Cell("start", k)) = file.start[k]
        /\ Word(file, Cell("end", k)) = file.end[k]
        /\ Word(file, Cell("ptr", k)) = BlobCell(file, k)
        /\ BlobCell(file, k) # 0
    BY <1>1, Words DEF Cell
  <1>3. /\ file.start[k] # 0 => index["start"][k] = file.start[k]
        /\ file.end[k] # 0 => index["end"][k] = file.end[k]
        /\ index["ptr"][k] = BlobCell(file, k)
    BY <1>2 DEF Shared, IndexIntact
  <1>4. file.start[1] # 0 => file.start[k] # 0 /\ file.end[k] # 0
    <2>1. 1 \in 1..file.n
      BY <1>1
    <2>2. file.start[1] <= file.start[k]
      BY <1>1, <2>1, StartsAscend
    <2>3. file.start[k] <= file.end[k]
      BY <1>1 DEF IsDataFile
    <2>4. file.start[1] \in Nat /\ file.start[k] \in Nat /\ file.end[k] \in Nat
      BY <2>1, FileFacts
    <2> QED BY <2>2, <2>3, <2>4
  <1> QED BY <1>3, <1>4

\* A record other than 1 and the last that covers a is between its neighbours.
LEMMA NoneBefore ==
    ASSUME NEW f, IsDataFile(f), NEW a \in Addr, NEW k \in 1..f.n, a < f.start[k],
           NEW j \in 1..f.n, Covers(f, j, a)
    PROVE  j < k
  <1>1. f.n \in Nat /\ f.start[k] \in Int /\ f.start[j] \in Int /\ a \in Int
    BY MaxIPAssumption DEF IsDataFile, Addr
  <1>2. f.start[j] <= a
    BY DEF Covers
  <1>3. k <= j => f.start[k] <= f.start[j]
    BY StartsAscend
  <1> QED BY <1>1, <1>2, <1>3

LEMMA NoneBehind ==
    ASSUME NEW f, IsDataFile(f), NEW a \in Addr, NEW k \in 1..f.n, f.start[k] < a,
           NEW j \in 1..f.n, Covers(f, j, a)
    PROVE  k <= j
  <1>0. f.n \in Nat /\ f.start \in [1..f.n -> Addr] /\ f.end \in [1..f.n -> Addr]
    BY DEF IsDataFile
  <1>1. /\ f.n \in Nat /\ f.start[k] \in Int /\ f.start[j] \in Int /\ f.end[j] \in Int
        /\ a \in Int
    BY <1>0, MaxIPAssumption DEF Addr
  <1>2. a <= f.end[j]
    BY DEF Covers
  <1>3. j < k => f.end[j] < f.start[k]
    BY DEF IsDataFile
  <1> QED BY <1>1, <1>2, <1>3
-----------------------------------------------------------------------------
\* A thread moves.
Moves(t, l, p) ==
    /\ local' = [local EXCEPT ![t] = l]
    /\ pc' = [pc EXCEPT ![t] = p]

\* Nothing but the thread's own locals matters to what is true of it.
LEMMA MovesInv ==
    ASSUME IInv, Shared', file' = file,
           NEW t \in Threads, NEW S, Typed(S), NEW T, NEW l \in Locals(T), NEW p \in Labels,
           S \subseteq T, Moves(t, l, p), InHandler(file, l, p)
    PROVE  IInv'
  <1>1. Locals(S) \subseteq Locals(T)
    BY DEF Locals
  <1>2. local' \in [Threads -> Locals(T)]
    BY <1>1 DEF Typed, Moves
  <1>3. Typed(T)'
    BY <1>2 DEF Typed
  <1>4. pc' \in [Threads -> Labels]
    BY DEF IInv, Moves
  <1>5. ASSUME NEW u \in Threads PROVE InHandler(file', local'[u], pc'[u])
    <2>1. CASE u = t
      <3>1. local'[u] = l /\ pc'[u] = p
        BY <2>1 DEF Moves, Typed, IInv
      <3> QED BY <3>1
    <2>2. CASE u # t
      <3>1. local'[u] = local[u] /\ pc'[u] = pc[u]
        BY <2>2 DEF Moves, Typed, IInv
      <3> QED BY <3>1 DEF IInv
    <2> QED BY <2>1, <2>2
  <1>6. (\A u \in Threads : InHandler(file, local[u], pc[u]))'
    BY <1>5
  <1> QED BY <1>3, <1>4, <1>6 DEF IInv

LEMMA SharedStays ==
    ASSUME Shared, file' = file, index' = index,
           ptr' = ptr \/ ptr'[1] # "word" \/ ptr'[2] \in 0..(3 * file.n)
    PROVE  Shared'
  BY DEF Shared, IndexIntact, Cell, StartCell, EndCell, PtrCell
\* What is true of a thread depends on few of its locals.
LEMMA SameGood ==
    ASSUME NEW f, NEW l, NEW m, NEW w, Good(f, l, w),
           m.op = l.op, m.ip = l.ip, m.i_s = l.i_s, m.i_e = l.i_e, m.key = l.key,
           m.range = l.range
    PROVE  Good(f, m, w)
  BY DEF Good, Window, Named, SlotOf

LEMMA Here ==
    ASSUME IInv, NEW t \in Threads, NEW w \in Labels \ Loading, At(t, w)
    PROVE  Good(file, local[t], w)
  BY DEF IInv, InHandler, At

\* The slot that the search compares.
LEMMA Middle ==
    ASSUME NEW n \in Nat, NEW i \in 1..(n + 1), NEW j \in 0..n, i <= j
    PROVE  LET s == (i + j) \div 2 - 1
           IN  s \in 0..(n - 1) /\ i <= s + 1 /\ s + 1 <= j /\ (s = 0 => j \in {1, 2})
  OBVIOUS

LEMMA SlotFacts ==
    ASSUME NEW f, f.n \in Nat, NEW S, NEW l \in Locals(S), Window(f, l), l.i_s <= l.i_e
    PROVE  /\ SlotOf(l) \in 0..(f.n - 1) /\ SlotOf(l) \in 0..f.n
           /\ l.i_s <= SlotOf(l) + 1 /\ SlotOf(l) + 1 <= l.i_e
           /\ (SlotOf(l) = 0 => l.i_e \in {1, 2})
  <1>1. l.i_s \in 1..(f.n + 1) /\ l.i_e \in 0..f.n
    BY DEF Window
  <1>2. SlotOf(l) \in 0..(f.n - 1) /\ l.i_s <= SlotOf(l) + 1 /\ SlotOf(l) + 1 <= l.i_e
        /\ (SlotOf(l) = 0 => l.i_e \in {1, 2})
    BY <1>1, Middle DEF SlotOf
  <1> QED BY <1>2

\* Slot 0 is compared only when no record between the first and the last covers
\* the address.
LEMMA SlotZero ==
    ASSUME NEW f, IsDataFile(f), f.start[1] # 0, NEW l, l.ip \in Addr, Window(f, l),
           l.i_e \in {1, 2}
    PROVE  NoneOf(f, l.ip)
  <1> SUFFICES ASSUME NEW j \in 2..(f.n - 1), Covers(f, j, l.ip) PROVE FALSE
    BY DEF NoneOf
  <1>1. f.n \in Nat /\ j \in 1..f.n /\ l.i_e \in 1..(f.n - 1)
    BY DEF IsDataFile
  <1>2. l.ip < f.start[l.i_e] /\ l.i_e \in 1..f.n
    BY <1>1 DEF Window
  <1>3. j < l.i_e
    BY <1>1, <1>2, NoneBefore
  <1> QED BY <1>1, <1>3
-----------------------------------------------------------------------------
\* Going on at next, by way of a load when the slot is missing.
LEMMA RequireInv ==
    ASSUME IInv, NEW t \in Threads, NEW array \in Arrays, NEW slot \in 0..file.n,
           NEW next \in {"equal", "end", "decide", "seek"},
           Require(t, array, slot, next), Good(file, local[t], next),
           file' = file, index' = index, ptr' = ptr
    PROVE  IInv'
  <1>1. PICK S : Typed(S)
    BY DEF IInv
  <1>2. local[t] \in Locals(S) /\ local = [local EXCEPT ![t] = local[t]]
    BY <1>1 DEF Typed
  <1>3. Shared'
    BY SharedStays DEF IInv
  <1>4. file.n \in Nat
    BY FileFacts DEF IInv
  <1>5. next \in Labels /\ next \notin Loading /\ "aim" \in Labels
    BY DEF Labels, Searching, Behind, Loading
  <1>6. CASE Missing(array, slot)
    <2> DEFINE l == [local[t] EXCEPT !.miss = <<array, slot, next>>]
    <2>1. l \in Locals(S)
      BY <1>2, <1>4, <1>5 DEF Locals
    <2>2. /\ l.miss = <<array, slot, next>>
          /\ l.op = local[t].op /\ l.ip = local[t].ip /\ l.i_s = local[t].i_s
          /\ l.i_e = local[t].i_e /\ l.key = local[t].key /\ l.range = local[t].range
      BY <1>2 DEF Locals
    <2>3. Moves(t, l, "aim")
      BY <1>6 DEF Require, Goto, Moves
    <2>4. slot # 0 => Word(file, CellIn(file, array, slot)) = 0
      <3> SUFFICES ASSUME slot # 0 PROVE Word(file, CellIn(file, array, slot)) = 0
        OBVIOUS
      <3>1. slot \in 1..file.n
        BY <1>4
      <3>2. index[array][slot] = 0
        BY <1>6 DEF Missing
      <3> QED BY <3>1, <3>2, CellsOf DEF IInv, Shared, IndexIntact, Arrays
    <2> HIDE DEF l
    <2>5. Miss(file, l)
      BY <2>2, <2>4 DEF Miss
    <2>6. Good(file, l, next)
      BY <2>2, SameGood
    <2>7. InHandler(file, l, "aim")
      BY <2>2, <2>5, <2>6 DEF InHandler, Loading
    <2> QED BY <1>1, <1>3, <1>5, <2>1, <2>3, <2>7, MovesInv
  <1>7. CASE ~Missing(array, slot)
    <2>1. Moves(t, local[t], next)
      BY <1>2, <1>7 DEF Require, Goto, Moves
    <2>2. InHandler(file, local[t], next)
      BY <1>5 DEF InHandler
    <2> QED BY <1>1, <1>2, <1>3, <1>5, <2>1, <2>2, MovesInv
  <1> QED BY <1>6, <1>7

LEMMA LoopInv ==
    ASSUME IInv, NEW t \in Threads, Loop(t)
    PROVE  IInv'
  <1>1. PICK S : Typed(S)
    BY DEF IInv
  <1>2. local[t] \in Locals(S) /\ local = [local EXCEPT ![t] = local[t]]
    BY <1>1 DEF Typed
  <1>3. /\ Good(file, local[t], "loop") /\ file' = file /\ index' = index /\ ptr' = ptr
    BY Here DEF Loop, Labels, Searching, Loading
  <1>4. file.n \in Nat /\ Shared'
    BY <1>3, FileFacts, SharedStays DEF IInv
  <1>5. Window(file, local[t]) /\ local[t].i_s <= local[t].i_e + 1
    BY <1>3 DEF Good, Searching
  <1>6. CASE local[t].i_s <= local[t].i_e
    <2>1. Require(t, "start", Slot(t), "equal") /\ Slot(t) = SlotOf(local[t])
      BY <1>6 DEF Loop, Slot, SlotOf
    <2>2. Slot(t) \in 0..file.n
      BY <1>2, <1>4, <1>5, <1>6, <2>1, SlotFacts
    <2>3. Good(file, local[t], "equal")
      BY <1>5, <1>6 DEF Good, Behind, Copying
    <2> QED BY <1>3, <2>1, <2>2, <2>3, RequireInv DEF Arrays
  <1>7. CASE ~(local[t].i_s <= local[t].i_e)
    <2> DEFINE p == IF local[t].i_e > 1 THEN "start" ELSE "decide"
    <2>1. Moves(t, local[t], p)
      BY <1>2, <1>7 DEF Loop, Goto, Moves
    <2>2. local[t].i_s = local[t].i_e + 1
      <3>1. local[t].i_s \in Int /\ local[t].i_e \in Int
        BY <1>2 DEF Locals
      <3> QED BY <1>5, <1>7, <3>1
    <2>3. Good(file, local[t], p)
      BY <1>5, <2>2 DEF Good, Copying
    <2>4. p \in Labels /\ p \notin Loading
      BY DEF Labels, Behind, Loading
    <2>5. InHandler(file, local[t], p)
      BY <2>3, <2>4 DEF InHandler
    <2> HIDE DEF p
    <2> QED BY <1>1, <1>2, <1>3, <1>4, <2>1, <2>4, <2>5, MovesInv
  <1> QED BY <1>6, <1>7

LEMMA AimInv ==
    ASSUME IInv, NEW t \in Threads, Aim(t)
    PROVE  IInv'
  <1>1. PICK S : Typed(S)
    BY DEF IInv
  <1>2. local[t] \in Locals(S) /\ local = [local EXCEPT ![t] = local[t]]
    BY <1>1 DEF Typed
  <1>3. /\ InHandler(file, local[t], "aim") /\ file' = file /\ index' = index
        /\ Moves(t, local[t], "load")
        /\ ptr' = WordAt(Cell(local[t].miss[1], local[t].miss[2]))
    BY <1>2 DEF Aim, At, IInv, Goto, Moves
  <1>4. Miss(file, local[t]) /\ Good(file, local[t], local[t].miss[3])
    BY <1>3 DEF InHandler, Loading
  <1>5. ptr'[2] \in 0..(3 * file.n)
    <2>1. ptr'[2] = CellIn(file, local[t].miss[1], local[t].miss[2])
      BY <1>3, <1>4, CellsOf DEF WordAt, Miss
    <2> QED BY <1>4, <2>1, FileFacts, CellRange DEF IInv, Miss
  <1>6. Shared'
    BY <1>3, <1>5, SharedStays DEF IInv
  <1>7. InHandler(file, local[t], "load") /\ "load" \in Labels
    BY <1>4 DEF InHandler, Loading, Labels
  <1> QED BY <1>1, <1>2, <1>3, <1>6, <1>7, MovesInv

LEMMA LoadInv ==
    ASSUME IInv, NEW t \in Threads, Load(t)
    PROVE  IInv'
  <1>1. PICK S : Typed(S)
    BY DEF IInv
  <1>2. PICK v \in WordsAt(ptr) : local' = [local EXCEPT ![t].word = v]
    BY DEF Load
  <1> DEFINE l == [local[t] EXCEPT !.word = v]
  <1>3. local[t] \in Locals(S)
    BY <1>1 DEF Typed
  <1>4. v \in Nat
    <2>1. CASE ptr[1] = "word"
      BY <2>1, FileFacts DEF IInv, Shared, WordsAt
    <2>2. CASE ptr[1] # "word"
      BY <2>2, MaxIPAssumption DEF WordsAt, Addr
    <2> QED BY <2>1, <2>2
  <1>5. l \in Locals(S)
    BY <1>3, <1>4 DEF Locals
  <1>6. /\ l.miss = local[t].miss
        /\ l.op = local[t].op /\ l.ip = local[t].ip /\ l.i_s = local[t].i_s
        /\ l.i_e = local[t].i_e /\ l.key = local[t].key /\ l.range = local[t].range
    BY <1>3 DEF Locals
  <1>7. /\ InHandler(file, local[t], "load") /\ file' = file /\ index' = index /\ ptr' = ptr
        /\ Moves(t, l, "save")
    BY <1>2 DEF Load, At, IInv, Goto, Moves
  <1> HIDE DEF l
  <1>8. InHandler(file, l, "save") /\ "save" \in Labels
    <2>1. Miss(file, local[t]) /\ Good(file, local[t], local[t].miss[3])
      BY <1>7 DEF InHandler, Loading
    <2>2. Miss(file, l)
      BY <1>6, <2>1 DEF Miss
    <2>3. Good(file, l, l.miss[3])
      BY <1>6, <2>1, SameGood
    <2> QED BY <2>2, <2>3 DEF InHandler, Loading, Labels
  <1>9. Shared'
    BY <1>7, SharedStays DEF IInv
  <1> QED BY <1>1, <1>5, <1>7, <1>8, <1>9, MovesInv

\* Only slots whose word is 0, and slot 0, are ever stored to.
LEMMA SaveInv ==
    ASSUME IInv, NEW t \in Threads, Save(t)
    PROVE  IInv'
  <1>1. PICK S : Typed(S)
    BY DEF IInv
  <1> DEFINE l == [local[t] EXCEPT !.miss = NoMiss, !.word = 0]
             a == local[t].miss[1]
             s == local[t].miss[2]
             p == local[t].miss[3]
  <1>2. local[t] \in Locals(S) /\ local[t].word \in Nat
    BY <1>1 DEF Typed, Locals
  <1>3. l \in Locals(S)
    BY <1>2 DEF Locals, NoMiss, Labels, Arrays
  <1>4. /\ l.op = local[t].op /\ l.ip = local[t].ip /\ l.i_s = local[t].i_s
        /\ l.i_e = local[t].i_e /\ l.key = local[t].key /\ l.range = local[t].range
    BY <1>2 DEF Locals
  <1>5. /\ InHandler(file, local[t], "save") /\ file' = file /\ ptr' = ptr
        /\ index' = [index EXCEPT ![a][s] = local[t].word]
        /\ Moves(t, l, p)
    BY DEF Save, At, IInv, Goto, Moves
  <1>6. Miss(file, local[t]) /\ Good(file, local[t], p)
    BY <1>5 DEF InHandler, Loading
  <1> HIDE DEF l
  <1>7. InHandler(file, l, p) /\ p \in Labels
    <2>1. p \in Labels /\ p \notin Loading
      BY <1>6 DEF Miss, Labels, Searching, Behind, Loading
    <2>2. Good(file, l, p)
      BY <1>4, <1>6, SameGood
    <2> QED BY <2>1, <2>2 DEF InHandler
  <1>8. Shared'
    <2>1. /\ a \in Arrays /\ s \in 0..file.n
          /\ s # 0 => Word(file, CellIn(file, a, s)) = 0
      BY <1>6 DEF Miss
    <2> HIDE DEF a, s
    <2>2. index' \in [Arrays -> [0..file.n -> Nat]]
      BY <1>2, <1>5, <2>1 DEF IInv, Shared
    <2>3. ASSUME NEW b \in Arrays, NEW k \in 1..file.n, Word(file, CellIn(file, b, k)) # 0
          PROVE  index'[b][k] = Word(file, CellIn(file, b, k))
      <3>1. ~(a = b /\ s = k)
        BY <2>1, <2>3
      <3>2. k \in 0..file.n
        BY FileFacts DEF IInv
      <3>3. index'[b][k] = index[b][k]
        BY <1>5, <2>1, <3>1, <3>2 DEF IInv, Shared
      <3>4. index[b][k] = Word(file, CellIn(file, b, k))
        BY <2>3, CellsOf DEF IInv, Shared, IndexIntact, Arrays
      <3> QED BY <3>3, <3>4
    <2>4. IndexIntact'
      BY <1>5, <2>3 DEF IndexIntact, Cell, CellIn, Arrays
    <2> QED BY <1>5, <2>2, <2>4 DEF IInv, Shared
  <1> QED BY <1>1, <1>3, <1>5, <1>7, <1>8, MovesInv
\* What the steps without a load start from.
LEMMA StepFacts ==
    ASSUME IInv, NEW t \in Threads, NEW w \in Labels \ Loading, At(t, w),
           file' = file, index' = index, ptr' = ptr
    PROVE  /\ Good(file, local[t], w) /\ Shared' /\ IsDataFile(file)
           /\ file.n \in Nat /\ file.n > 0 /\ local[t].ip \in Addr
           /\ local[t].i_s \in Nat /\ local[t].i_e \in Nat
  <1>1. PICK S : local[t] \in Locals(S)
    BY DEF IInv, Typed
  <1> QED BY <1>1, Here, FileFacts, SharedStays DEF IInv, Locals

LEMMA EqualInv ==
    ASSUME IInv, NEW t \in Threads, Equal(t)
    PROVE  IInv'
  <1>1. PICK S : Typed(S)
    BY DEF IInv
  <1> DEFINE s == SlotOf(local[t])
             a == local[t].ip
  <1>2. local[t] \in Locals(S) /\ local = [local EXCEPT ![t] = local[t]]
    BY <1>1 DEF Typed
  <1>3. At(t, "equal") /\ "equal" \in Labels \ Loading
        /\ file' = file /\ index' = index /\ ptr' = ptr /\ s = Slot(t)
    BY DEF Equal, Labels, Searching, Loading, Slot, SlotOf
  <1>4. /\ Good(file, local[t], "equal") /\ Shared' /\ IsDataFile(file) /\ a \in Addr
        /\ file.n \in Nat
    BY <1>3, StepFacts
  <1>5. Window(file, local[t]) /\ local[t].i_s <= local[t].i_e
    BY <1>4 DEF Good, Searching
  <1>6. s \in 0..(file.n - 1) /\ (s = 0 => local[t].i_e \in {1, 2})
    BY <1>2, <1>4, <1>5, SlotFacts
  <1>7. s # 0 => s \in 1..file.n
    BY <1>4, <1>6
  <1>8. s # 0 /\ file.start[1] # 0 => index["start"][s] = file.start[s]
    BY <1>7, FullIndex DEF IInv
  <1>9. CASE index["start"][s] = a
    <2> DEFINE l == [local[t] EXCEPT !.key = s, !.i_s = 0, !.i_e = 0]
    <2>1. Moves(t, l, "keyed")
      BY <1>3, <1>9 DEF Equal, Goto, Moves
    <2>2. l \in Locals(S)
      <3>1. s \in Nat /\ 0 \in Nat
        BY <1>4, <1>6
      <3> HIDE DEF s
      <3> QED BY <1>2, <3>1 DEF Locals
    <2>3. l.key = s /\ l.ip = a
      BY <1>2 DEF Locals
    <2> HIDE DEF l
    <2>4. ASSUME file.start[1] # 0, s # 0
          PROVE  Covers(file, s, a)
      <3>1. file.start[s] = a /\ file.start[s] <= file.end[s]
        BY <1>4, <1>7, <1>8, <1>9, <2>4 DEF IsDataFile
      <3>2. a \in Nat
        BY <1>4, MaxIPAssumption DEF Addr
      <3> QED BY <3>1, <3>2 DEF Covers
    <2>5. ASSUME file.start[1] # 0, NEW j \in 2..(file.n - 1), Covers(file, j, a)
          PROVE  s = j
      <3>1. j \in 1..file.n
        BY <1>4
      <3>2. CASE s = 0
        BY <1>4, <1>5, <1>6, <2>5, <3>2, SlotZero DEF NoneOf
      <3>3. CASE s # 0
        BY <1>4, <1>7, <2>4, <2>5, <3>1, <3>3, OneCovers
      <3> QED BY <3>2, <3>3
    <2>6. Named(file, l)
      BY <1>6, <2>3, <2>4, <2>5 DEF Named
    <2>7. InHandler(file, l, "keyed") /\ "keyed" \in Labels
      BY <2>6 DEF InHandler, Good, Loading, Labels, Searching, Behind, Copying
    <2> QED BY <1>1, <1>3, <1>4, <2>1, <2>2, <2>7, MovesInv
  <1>10. CASE index["start"][s] # a
    <2>1. Moves(t, local[t], "order")
      BY <1>2, <1>3, <1>10 DEF Equal, Goto, Moves
    <2>2. Good(file, local[t], "order")
      BY <1>5, <1>8, <1>10 DEF Good, Behind, Copying
    <2>3. InHandler(file, local[t], "order") /\ "order" \in Labels
      BY <2>2 DEF InHandler, Loading, Labels, Searching
    <2> QED BY <1>1, <1>2, <1>3, <1>4, <2>1, <2>3, MovesInv
  <1> QED BY <1>9, <1>10

LEMMA OrderInv ==
    ASSUME IInv, NEW t \in Threads, Order(t)
    PROVE  IInv'
  <1>1. PICK S : Typed(S)
    BY DEF IInv
  <1> DEFINE s == SlotOf(local[t])
             a == local[t].ip
  <1>2. local[t] \in Locals(S)
    BY <1>1 DEF Typed
  <1>3. At(t, "order") /\ "order" \in Labels \ Loading
        /\ file' = file /\ index' = index /\ ptr' = ptr /\ s = Slot(t)
    BY DEF Order, Labels, Searching, Loading, Slot, SlotOf
  <1>4. /\ Good(file, local[t], "order") /\ Shared' /\ IsDataFile(file) /\ a \in Addr
        /\ file.n \in Nat /\ a \in Nat
    BY <1>3, StepFacts, MaxIPAssumption DEF Addr
  <1>5. /\ Window(file, local[t]) /\ local[t].i_s <= local[t].i_e
        /\ file.start[1] # 0 /\ s # 0 => file.start[s] # a
    BY <1>4 DEF Good, Searching
  <1>6. /\ s \in 0..(file.n - 1) /\ (s = 0 => local[t].i_e \in {1, 2})
        /\ local[t].i_s <= s + 1 /\ s + 1 <= local[t].i_e
        /\ local[t].i_s \in 1..(file.n + 1) /\ local[t].i_e \in 0..file.n
    BY <1>2, <1>4, <1>5, SlotFacts DEF Window
  <1>7. s # 0 => s \in 1..file.n
    BY <1>4, <1>6
  <1>8. s # 0 /\ file.start[1] # 0 => index["start"][s] = file.start[s]
    BY <1>7, FullIndex DEF IInv
  <1>9. "loop" \in Labels /\ "loop" \notin Loading
    BY DEF Labels, Searching, Loading
  <1> HIDE DEF s
  <1>10. CASE index["start"][s] > a
    <2> DEFINE l == [local[t] EXCEPT !.i_e = s]
    <2>1. Moves(t, l, "loop")
      BY <1>3, <1>10 DEF Order, HighAfter, Goto, Moves
    <2>2. l \in Locals(S)
      BY <1>2, <1>4, <1>6 DEF Locals
    <2>3. l.i_s = local[t].i_s /\ l.i_e = s /\ l.ip = a
      BY <1>2 DEF Locals
    <2> HIDE DEF l
    <2>4. file.start[1] # 0 /\ s = 0 => NoneOf(file, a)
      BY <1>4, <1>5, <1>6, SlotZero
    <2>5. Window(file, l)
      <3>1. l.i_s \in 1..(file.n + 1) /\ l.i_e \in 0..file.n
        BY <1>4, <1>6, <2>3
      <3>2. file.start[1] # 0 => (l.i_s >= 3 => file.start[l.i_s - 2] < l.ip)
        BY <1>5, <2>3 DEF Window
      <3>3. file.start[1] # 0 => (l.i_e \in 1..(file.n - 1) => l.ip < file.start[l.i_e])
        <4> SUFFICES ASSUME file.start[1] # 0, s # 0 PROVE a < file.start[s]
          BY <2>3
        <4>1. file.start[s] \in Nat /\ file.start[s] > a
          BY <1>7, <1>8, <1>10, FileFacts DEF IInv
        <4> QED BY <1>4, <4>1
      <3> QED BY <2>3, <2>4, <3>1, <3>2, <3>3 DEF Window
    <2>6. l.i_s <= l.i_e + 1
      BY <1>6, <2>3
    <2>7. InHandler(file, l, "loop")
      BY <1>9, <2>5, <2>6 DEF InHandler, Good, Behind, Copying
    <2> QED BY <1>1, <1>3, <1>4, <1>9, <2>1, <2>2, <2>7, MovesInv
  <1>11. CASE ~(index["start"][s] > a)
    <2> DEFINE l == [local[t] EXCEPT !.i_s = s + 2]
    <2>1. Moves(t, l, "loop")
      BY <1>3, <1>11 DEF Order, Goto, Moves
    <2>2. l \in Locals(S)
      BY <1>2, <1>4, <1>6 DEF Locals
    <2>3. l.i_s = s + 2 /\ l.i_e = local[t].i_e /\ l.ip = a
      BY <1>2 DEF Locals
    <2> HIDE DEF l
    <2>5. Window(file, l)
      <3>1. l.i_s \in 1..(file.n + 1) /\ l.i_e \in 0..file.n
        BY <1>4, <1>6, <2>3
      <3>2. file.start[1] # 0 => (l.i_s >= 3 => file.start[l.i_s - 2] < l.ip)
        <4> SUFFICES ASSUME file.start[1] # 0, l.i_s >= 3 PROVE file.start[l.i_s - 2] < l.ip
          OBVIOUS
        <4>1. l.i_s - 2 = s /\ s # 0
          BY <1>6, <2>3
        <4>2. file.start[s] \in Nat /\ ~(file.start[s] > a) /\ file.start[s] # a
          BY <1>5, <1>7, <1>8, <1>11, <4>1, FileFacts DEF IInv
        <4> QED BY <1>4, <2>3, <4>1, <4>2
      <3>3. file.start[1] # 0 =>
               /\ l.i_e = 0 => NoneOf(file, l.ip)
               /\ l.i_e \in 1..(file.n - 1) => l.ip < file.start[l.i_e]
        BY <1>5, <2>3 DEF Window
      <3> QED BY <3>1, <3>2, <3>3 DEF Window
    <2>6. l.i_s <= l.i_e + 1
      BY <1>6, <2>3
    <2>7. InHandler(file, l, "loop")
      BY <1>9, <2>5, <2>6 DEF InHandler, Good, Behind, Copying
    <2> QED BY <1>1, <1>3, <1>4, <1>9, <2>1, <2>2, <2>7, MovesInv
  <1> QED BY <1>10, <1>11

\* The two loads behind the loop.
LEMMA LastInv ==
    ASSUME IInv, NEW t \in Threads, LastStart(t) \/ LastEnd(t)
    PROVE  IInv'
  <1>1. PICK w \in {"start", "end"} :
           /\ At(t, w)
           /\ Require(t, w, Last(t), IF w = "start" THEN "end" ELSE "decide")
           /\ file' = file /\ index' = index /\ ptr' = ptr
    <2>1. CASE LastStart(t)
      BY <2>1 DEF LastStart
    <2>2. CASE LastEnd(t)
      BY <2>2 DEF LastEnd
    <2> QED BY <2>1, <2>2
  <1>2. w \in Labels \ Loading
    BY DEF Labels, Behind, Loading
  <1>3. Good(file, local[t], w) /\ file.n \in Nat
    BY <1>1, <1>2, StepFacts
  <1>4. /\ Window(file, local[t]) /\ local[t].i_s = local[t].i_e + 1 /\ local[t].i_e > 1
        /\ local[t].i_e \in 0..file.n
    BY <1>3 DEF Good, Behind, Window
  <1> DEFINE next == IF w = "start" THEN "end" ELSE "decide"
  <1>5. Good(file, local[t], next)
    BY <1>4 DEF Good, Searching, Behind, Copying
  <1>6. Last(t) \in 0..file.n
    BY <1>3, <1>4 DEF Last
  <1>7. w \in Arrays /\ next \in {"equal", "end", "decide", "seek"}
    BY DEF Arrays
  <1> HIDE DEF next
  <1>8. Require(t, w, Last(t), next)
    BY <1>1 DEF next
  <1> QED BY <1>1, <1>5, <1>6, <1>7, <1>8, RequireInv

\* The record that the loop has left.
LEMMA DecideInv ==
    ASSUME IInv, NEW t \in Threads, Decide(t)
    PROVE  IInv'
  <1>1. PICK S : Typed(S)
    BY DEF IInv
  <1> DEFINE e == local[t].i_e
             a == local[t].ip
             hit == /\ e >= 1 /\ index["start"][e] # 0
                    /\ InRange(a, index["start"][e - 1], index["end"][e - 1])
             key == IF hit THEN e - 1 ELSE 0
             l == [local[t] EXCEPT !.i_s = 0, !.i_e = 0, !.key = key]
  <1>2. local[t] \in Locals(S)
    BY <1>1 DEF Typed
  <1>3. At(t, "decide") /\ "decide" \in Labels \ Loading
        /\ file' = file /\ index' = index /\ ptr' = ptr /\ Moves(t, l, "keyed")
    BY DEF Decide, Labels, Behind, Loading, Goto, Moves
  <1>4. /\ Good(file, local[t], "decide") /\ Shared' /\ IsDataFile(file) /\ a \in Addr
        /\ file.n \in Nat /\ a \in Nat
    BY <1>3, StepFacts, MaxIPAssumption DEF Addr
  <1>5. Window(file, local[t]) /\ local[t].i_s = e + 1 /\ e \in 0..file.n
    BY <1>4 DEF Good, Behind, Window
  <1>6. key \in 0..(file.n - 1)
    <2>1. file.n > 0
      BY FileFacts DEF IInv
    <2> HIDE DEF hit, e
    <2>2. hit => e >= 1
      BY DEF hit
    <2> QED BY <1>4, <1>5, <2>1, <2>2
  <1>7. l \in Locals(S) /\ l.key = key /\ l.ip = a
    <2>1. key \in Nat
      BY <1>4, <1>6
    <2> HIDE DEF key
    <2> QED BY <1>2, <2>1 DEF Locals
  <1>8. ASSUME file.start[1] # 0, key # 0
        PROVE  Covers(file, key, a)
    <2>1. hit /\ key = e - 1
      BY <1>8
    <2>2. e - 1 \in 1..file.n
      BY <1>4, <1>5, <1>8, <2>1
    <2>3. /\ index["start"][e - 1] = file.start[e - 1] /\ index["end"][e - 1] = file.end[e - 1]
          /\ file.start[e - 1] \in Nat /\ file.end[e - 1] \in Nat
      BY <1>8, <2>2, FullIndex, FileFacts DEF IInv
    <2>4. file.start[e - 1] < a /\ a <= file.end[e - 1]
      BY <2>1, <2>3 DEF InRange
    <2> QED BY <1>4, <2>1, <2>3, <2>4 DEF Covers
  <1>9. ASSUME file.start[1] # 0, NEW j \in 2..(file.n - 1), Covers(file, j, a)
        PROVE  key = j
    <2>1. j \in 1..file.n /\ j \in Nat
      BY <1>4
    <2>2. e # 0
      BY <1>5, <1>9 DEF Window, NoneOf
    <2>3. j < e
      <3>1. CASE e = file.n
        BY <1>4, <3>1
      <3>2. CASE e # file.n
        <4>1. e \in 1..(file.n - 1) /\ e \in 1..file.n
          BY <1>4, <1>5, <2>2, <3>2
        <4>2. a < file.start[e]
          BY <1>5, <1>9, <4>1 DEF Window
        <4> QED BY <1>4, <1>9, <2>1, <4>1, <4>2, NoneBefore
      <3> QED BY <3>1, <3>2
    <2>4. e - 1 \in 1..file.n /\ e \in 1..file.n /\ e + 1 >= 3 /\ (e + 1) - 2 = e - 1
      BY <1>4, <1>5, <2>1, <2>3
    <2>5. file.start[e - 1] < a
      BY <1>5, <1>9, <2>4 DEF Window
    <2>6. e - 1 <= j
      BY <1>4, <1>9, <2>1, <2>4, <2>5, NoneBehind
    <2>7. j = e - 1
      BY <1>5, <2>1, <2>3, <2>6
    <2>8. /\ index["start"][e] # 0
          /\ index["start"][e - 1] = file.start[e - 1] /\ index["end"][e - 1] = file.end[e - 1]
      BY <1>9, <2>4, FullIndex DEF IInv
    <2>9. InRange(a, index["start"][e - 1], index["end"][e - 1])
      BY <1>9, <2>5, <2>7, <2>8 DEF InRange, Covers
    <2>10. hit
      BY <2>4, <2>8, <2>9
    <2> QED BY <2>7, <2>10
  <1>10. Named(file, l)
    BY <1>6, <1>7, <1>8, <1>9 DEF Named
  <1>11. InHandler(file, l, "keyed") /\ "keyed" \in Labels
    BY <1>10 DEF InHandler, Good, Loading, Labels, Searching, Behind, Copying
  <1> HIDE DEF l
  <1> QED BY <1>1, <1>3, <1>4, <1>7, <1>11, MovesInv
LEMMA KeyedInv ==
    ASSUME IInv, NEW t \in Threads, Keyed(t)
    PROVE  IInv'
  <1>1. PICK S : Typed(S)
    BY DEF IInv
  <1>2. local[t] \in Locals(S) /\ local = [local EXCEPT ![t] = local[t]]
    BY <1>1 DEF Typed
  <1>3. At(t, "keyed") /\ "keyed" \in Labels \ Loading
        /\ file' = file /\ index' = index /\ ptr' = ptr
    BY DEF Keyed, Labels, Loading
  <1>4. Good(file, local[t], "keyed") /\ Shared' /\ file.n \in Nat
    BY <1>3, StepFacts
  <1>5. Named(file, local[t])
    BY <1>4 DEF Good
  <1>6. CASE local[t].key = 0
    <2>1. Moves(t, local[t], "done")
      BY <1>2, <1>6 DEF Keyed, Goto, Moves
    <2>2. InHandler(file, local[t], "done") /\ "done" \in Labels
      BY <1>5, <1>6 DEF InHandler, Good, Loading, Labels, Searching, Behind, Copying
    <2> QED BY <1>1, <1>2, <1>3, <1>4, <2>1, <2>2, MovesInv
  <1>7. CASE local[t].key # 0
    <2>1. Require(t, "ptr", local[t].key, "seek")
      BY <1>7 DEF Keyed
    <2>2. Good(file, local[t], "seek")
      BY <1>5, <1>7 DEF Good, Searching, Behind, Copying
    <2>3. local[t].key \in 0..file.n
      BY <1>4, <1>5 DEF Named
    <2> QED BY <1>3, <2>1, <2>2, <2>3, RequireInv DEF Arrays
  <1> QED BY <1>6, <1>7

LEMMA SeekInv ==
    ASSUME IInv, NEW t \in Threads, Seek(t)
    PROVE  IInv'
  <1>1. PICK S : Typed(S)
    BY DEF IInv
  <1> DEFINE p == IF local[t].op = "query" THEN "range" ELSE "len"
  <1>2. local[t] \in Locals(S) /\ local = [local EXCEPT ![t] = local[t]]
    BY <1>1 DEF Typed
  <1>3. /\ At(t, "seek") /\ "seek" \in Labels \ Loading
        /\ file' = file /\ index' = index /\ Moves(t, local[t], p)
    BY <1>2 DEF Seek, Labels, Loading, Goto, Moves
  <1>4. Good(file, local[t], "seek")
    BY <1>3, Here
  <1>5. Named(file, local[t]) /\ local[t].key # 0
    BY <1>4 DEF Good
  <1>6. ptr'[1] # "word"
    BY DEF Seek, LenAt
  <1>7. Shared'
    BY <1>3, <1>6, SharedStays DEF IInv
  <1>8. p \in Labels /\ p \notin Loading
    BY DEF Labels, Loading, Copying
  <1>9. Good(file, local[t], p)
    BY <1>5 DEF Good, Searching, Behind, Copying
  <1>10. InHandler(file, local[t], p)
    BY <1>8, <1>9 DEF InHandler
  <1> HIDE DEF p
  <1> QED BY <1>1, <1>2, <1>3, <1>7, <1>8, <1>10, MovesInv

LEMMA RangeInv ==
    ASSUME IInv, NEW t \in Threads, GetRange(t)
    PROVE  IInv'
  <1>1. PICK S : Typed(S)
    BY DEF IInv
  <1> DEFINE k == local[t].key
             q == <<index["start"][k], index["end"][k]>>
             l == [local[t] EXCEPT !.range = q]
             T == S \cup {q}
  <1>2. local[t] \in Locals(S)
    BY <1>1 DEF Typed
  <1>3. At(t, "range") /\ "range" \in Labels \ Loading
        /\ file' = file /\ index' = index /\ ptr' = ptr /\ Moves(t, l, "len")
    BY DEF GetRange, Labels, Loading, Goto, Moves
  <1>4. Good(file, local[t], "range") /\ Shared' /\ file.n \in Nat
    BY <1>3, StepFacts
  <1>5. Named(file, local[t]) /\ k # 0
    BY <1>4 DEF Good
  <1>6. file.start[1] # 0 => q = <<file.start[k], file.end[k]>>
    <2>1. k \in 1..file.n
      BY <1>4, <1>5 DEF Named
    <2> QED BY <2>1, FullIndex DEF IInv
  <1> HIDE DEF q
  <1>7. l \in Locals(T) /\ l.range = q /\ l.key = k /\ l.ip = local[t].ip
    BY <1>2 DEF Locals
  <1> HIDE DEF l
  <1>8. Good(file, l, "len")
    BY <1>5, <1>6, <1>7 DEF Good, Named, Searching, Behind, Copying
  <1>9. InHandler(file, l, "len") /\ "len" \in Labels
    BY <1>8 DEF InHandler, Loading, Labels, Copying
  <1> QED BY <1>1, <1>3, <1>4, <1>7, <1>9, MovesInv

Strung(l, strs, cur, len, data) ==
    [l EXCEPT !.strs = strs, !.cur = cur, !.len = len, !.data = data]

\* Reading the strings changes none of what the lookup relies on.
LEMMA CopyingInv ==
    ASSUME IInv, NEW t \in Threads, NEW w \in Copying, At(t, w), NEW p \in Copying \cup {"done"},
           NEW strs, NEW cur, NEW len, NEW data,
           Moves(t, Strung(local[t], strs, cur, len, data), p),
           file' = file, index' = index, ptr' = ptr \/ ptr'[1] # "word"
    PROVE  IInv'
  <1>1. PICK S : Typed(S)
    BY DEF IInv
  <1> DEFINE l == Strung(local[t], strs, cur, len, data)
             T == S \cup {strs, cur, len, data}
  <1>2. local[t] \in Locals(S)
    BY <1>1 DEF Typed
  <1>3. l \in Locals(T)
    BY <1>2 DEF Locals, Strung
  <1>4. /\ l.op = local[t].op /\ l.ip = local[t].ip /\ l.i_s = local[t].i_s
        /\ l.i_e = local[t].i_e /\ l.key = local[t].key /\ l.range = local[t].range
    BY <1>2 DEF Locals, Strung
  <1>5. Moves(t, l, p)
    OBVIOUS
  <1> HIDE DEF l
  <1>6. w \in Labels \ Loading /\ p \in Labels /\ p \notin Loading
    BY DEF Labels, Loading, Copying
  <1>7. Good(file, local[t], w)
    BY <1>6, Here
  <1>8. Good(file, local[t], p)
    BY <1>7 DEF Good, Searching, Behind, Copying
  <1>9. InHandler(file, l, p)
    BY <1>4, <1>6, <1>8, SameGood DEF InHandler
  <1>10. Shared'
    BY SharedStays DEF IInv
  <1> QED BY <1>1, <1>3, <1>5, <1>6, <1>9, <1>10, MovesInv

\* A record's members that a step leaves alone.
LEMMA SameMembers ==
    ASSUME IInv, NEW t \in Threads
    PROVE  /\ local = [local EXCEPT ![t] = local[t]]
           /\ local[t] = Strung(local[t], local[t].strs, local[t].cur, local[t].len,
                                local[t].data)
           /\ \A x : /\ [local[t] EXCEPT !.cur = x] =
                         Strung(local[t], local[t].strs, x, local[t].len, local[t].data)
                    /\ [local[t] EXCEPT !.len = x] =
                         Strung(local[t], local[t].strs, local[t].cur, x, local[t].data)
                    /\ [local[t] EXCEPT !.data = x] =
                         Strung(local[t], local[t].strs, local[t].cur, local[t].len, x)
  <1>1. PICK S : local \in [Threads -> Locals(S)]
    BY DEF IInv, Typed
  <1>2. local[t] \in Locals(S)
    BY <1>1
  <1> QED BY <1>1, <1>2 DEF Locals, Strung

LEMMA GotInv ==
    ASSUME IInv, NEW t \in Threads, NEW w \in Copying, At(t, w), NEW s, Got(t, s),
           file' = file, index' = index, ptr' = ptr \/ ptr'[1] # "word"
    PROVE  IInv'
  <1> DEFINE strs == Append(local[t].strs, s)
             p == IF Len(strs) < Wanted(local[t].op, strs) THEN "len" ELSE "done"
  <1>1. Moves(t, Strung(local[t], strs, Wild, NoLen, Wild), p)
    BY DEF Got, Goto, Moves, Strung
  <1>2. p \in Copying \cup {"done"}
    BY DEF Copying
  <1> HIDE DEF strs, p
  <1> QED BY <1>1, <1>2, CopyingInv

LEMMA StringStepInv ==
    ASSUME IInv, NEW t \in Threads,
           GetLen(t) \/ Bump(t) \/ GetData(t) \/ Add(t) \/ GetString(t)
    PROVE  IInv'
  <1>1. {"len", "bump", "data", "add", "skip"} = Copying
    BY DEF Copying
  <1>2. CASE GetLen(t)
    <2>1. /\ At(t, "len") /\ Moves(t, [local[t] EXCEPT !.cur = ptr], "bump")
          /\ file' = file /\ index' = index /\ ptr' = ptr
      BY <1>2 DEF GetLen, Goto, Moves
    <2>2. Moves(t, Strung(local[t], local[t].strs, ptr, local[t].len, local[t].data), "bump")
      BY <2>1, SameMembers
    <2> QED BY <1>1, <2>1, <2>2, CopyingInv
  <1>3. CASE GetData(t)
    <2>1. /\ At(t, "data") /\ Moves(t, [local[t] EXCEPT !.data = ptr], "add")
          /\ file' = file /\ index' = index /\ ptr' = ptr
      BY <1>3 DEF GetData, Goto, Moves
    <2>2. Moves(t, Strung(local[t], local[t].strs, local[t].cur, local[t].len, ptr), "add")
      BY <2>1, SameMembers
    <2> QED BY <1>1, <2>1, <2>2, CopyingInv
  <1>4. CASE Add(t)
    <2>1. /\ At(t, "add") /\ Moves(t, [local[t] EXCEPT !.cur = ptr], "skip")
          /\ file' = file /\ index' = index /\ ptr' = ptr
      BY <1>4 DEF Add, Goto, Moves
    <2>2. Moves(t, Strung(local[t], local[t].strs, ptr, local[t].len, local[t].data), "skip")
      BY <2>1, SameMembers
    <2> QED BY <1>1, <2>1, <2>2, CopyingInv
  <1>5. CASE GetString(t)
    <2>1. /\ At(t, "skip") /\ file' = file /\ index' = index
          /\ ptr' \in Skip(local[t].cur, local[t].len)
      BY <1>5 DEF GetString
    <2>2. PICK s : Got(t, s)
      BY <1>5 DEF GetString
    <2>3. ptr'[1] # "word"
      BY <2>1 DEF Skip, StringAt, LenAt, Wild
    <2> QED BY <1>1, <2>1, <2>2, <2>3, GotInv
  <1>6. CASE Bump(t)
    <2>1. At(t, "bump") /\ file' = file /\ index' = index
      BY <1>6 DEF Bump
    <2>2. ptr'[1] # "word"
      <3> DEFINE p == local[t].cur
      <3>1. ptr' \in {StringAt(p[2], p[3] + 1), DataAt(p[2], p[3]), Wild}
        <4> HIDE DEF p
        <4> QED BY <1>6 DEF Bump, p
      <3> QED BY <3>1 DEF StringAt, LenAt, DataAt, Wild
    <2>3. \/ Got(t, "")
          \/ \E x : Moves(t, [local[t] EXCEPT !.len = x], "data")
          \/ local' = local /\ pc' = [pc EXCEPT ![t] = "data"]
      BY <1>6 DEF Bump, Goto, Moves
    <2>4. CASE Got(t, "")
      BY <1>1, <2>1, <2>2, <2>4, GotInv
    <2>5. CASE \E x : Moves(t, [local[t] EXCEPT !.len = x], "data")
      <3>1. PICK x : Moves(t, [local[t] EXCEPT !.len = x], "data")
        BY <2>5
      <3>2. Moves(t, Strung(local[t], local[t].strs, local[t].cur, x, local[t].data), "data")
        BY <3>1, SameMembers
      <3> QED BY <1>1, <2>1, <2>2, <3>2, CopyingInv
    <2>6. CASE local' = local /\ pc' = [pc EXCEPT ![t] = "data"]
      <3>1. Moves(t, local[t], "data")
        BY <2>6, SameMembers DEF Moves
      <3>2. Moves(t, Strung(local[t], local[t].strs, local[t].cur, local[t].len,
                            local[t].data), "data")
        BY <3>1, SameMembers
      <3> QED BY <1>1, <2>1, <2>2, <3>2, CopyingInv
    <2> QED BY <2>3, <2>4, <2>5, <2>6
  <1> QED BY <1>2, <1>3, <1>4, <1>5, <1>6

LEMMA Remainder ==
    ASSUME NEW x \in Nat, NEW m \in Nat
    PROVE  x % (m + 1) \in 0..m
  OBVIOUS

LEMMA CallInv ==
    ASSUME IInv, NEW t \in Threads, NEW q \in Requests, Call(t, q[1], q[2])
    PROVE  IInv'
  <1>1. PICK S : Typed(S)
    BY DEF IInv
  <1> DEFINE a == q[2] % (MaxIP + 1)
             l == [Idle EXCEPT !.op = q[1], !.ip = a, !.i_s = 1, !.i_e = file.n]
             T == S \cup {Wild, NoLen, NoRange, <<>>}
  <1>2. q[1] \in Ops /\ a \in Addr
    <2>1. q[2] \in Nat /\ MaxIP \in Nat
      BY RequestsAssumption, MaxIPAssumption
    <2>2. a \in 0..MaxIP
      BY <2>1, Remainder
    <2> QED BY <2>2, RequestsAssumption DEF Addr
  <1>3. file' = file /\ index' = index /\ ptr' = ptr /\ Moves(t, l, "loop")
    BY DEF Call, Goto, Moves
  <1>4. file.n \in Nat /\ file.n > 0 /\ Shared'
    BY <1>3, FileFacts, SharedStays DEF IInv
  <1> HIDE DEF a
  <1>5. l \in Locals(T) /\ l.i_s = 1 /\ l.i_e = file.n /\ l.ip = a
    BY <1>2, <1>4 DEF Locals, Idle, NoMiss, Arrays, Labels
  <1> HIDE DEF l
  <1>6. Window(file, l) /\ l.i_s <= l.i_e + 1
    BY <1>4, <1>5 DEF Window
  <1>7. InHandler(file, l, "loop") /\ "loop" \in Labels
    BY <1>6 DEF InHandler, Good, Loading, Labels, Searching, Behind, Copying
  <1> QED BY <1>1, <1>3, <1>4, <1>5, <1>7, MovesInv

LEMMA StutterInv ==
    ASSUME IInv, file' = file, index' = index, ptr' = ptr, local' = local, pc' = pc
    PROVE  IInv'
  <1>1. Shared'
    BY SharedStays DEF IInv
  <1>2. \A t \in Threads : InHandler(file', local'[t], pc'[t])
    BY DEF IInv
  <1>3. (\A t \in Threads : InHandler(file, local[t], pc[t]))'
    BY <1>2
  <1>4. \E S : Typed(S)'
    BY DEF IInv, Typed
  <1>5. pc' \in [Threads -> Labels]
    BY DEF IInv
  <1> QED BY <1>1, <1>3, <1>4, <1>5 DEF IInv

LEMMA InitInv == Init => IInv
  <1> SUFFICES ASSUME Init PROVE IInv
    OBVIOUS
  <1>1. IsDataFile(file) /\ file.n > 0 /\ file \in Files
    BY FilesAssumption DEF Init
  <1>2. file.n \in Nat
    BY <1>1 DEF IsDataFile
  <1>3. \A array \in Arrays, k \in 1..file.n :
           /\ Word(file, Cell(array, k)) \in Nat
           /\ index[array][k] = Word(file, Cell(array, k))
    <2>1. \A k \in 1..file.n : /\ Word(file, Cell("start", k)) \in Nat
                                /\ Word(file, Cell("end", k)) \in Nat
                                /\ Word(file, Cell("ptr", k)) \in Nat
      BY <1>1, Words DEF Cell
    <2>2. \A array \in Arrays, k \in 1..file.n : index[array][k] = Word(file, Cell(array, k))
      BY <1>2 DEF Init, Arrays
    <2> QED BY <2>1, <2>2 DEF Arrays
  <1>4. index \in [Arrays -> [0..file.n -> Nat]]
    <2>1. \A array \in Arrays, s \in 0..file.n :
             (IF s = 0 THEN 0 ELSE Word(file, Cell(array, s))) \in Nat
      <3> SUFFICES ASSUME NEW array \in Arrays, NEW s \in 0..file.n
                   PROVE  (IF s = 0 THEN 0 ELSE Word(file, Cell(array, s))) \in Nat
        OBVIOUS
      <3>1. s # 0 => s \in 1..file.n
        BY <1>2
      <3> QED BY <1>3, <3>1
    <2> QED BY <2>1 DEF Init, Arrays
  <1>5. Shared
    BY <1>1, <1>3, <1>4 DEF Shared, IndexIntact, Arrays, Init, Wild
  <1>6. pc \in [Threads -> Labels]
    BY DEF Init, Labels
  <1>7. Typed({Wild, NoLen, NoRange, <<>>})
    BY MaxIPAssumption DEF Init, Typed, Locals, Idle, Ops, NoMiss, Arrays, Labels, Addr
  <1>8. \A t \in Threads : InHandler(file, local[t], pc[t])
    BY DEF Init, InHandler, Good, Loading, Searching, Behind, Copying
  <1> QED BY <1>5, <1>6, <1>7, <1>8 DEF IInv

LEMMA NextInv == IInv /\ [Next]_vars => IInv'
  <1> SUFFICES ASSUME IInv, [Next]_vars PROVE IInv'
    OBVIOUS
  <1>1. CASE UNCHANGED vars
    BY <1>1, StutterInv DEF vars
  <1>2. CASE Next
    <2>1. PICK t \in Threads : \/ \E q \in Requests : Call(t, q[1], q[2])
                               \/ Step(t)
                               \/ Die(t)
      BY <1>2 DEF Next
    <2>2. CASE \E q \in Requests : Call(t, q[1], q[2])
      BY <2>2, CallInv
    <2>3. CASE Lookup(t)
      BY <2>3, LoopInv, AimInv, LoadInv, SaveInv, EqualInv, OrderInv, LastInv, DecideInv
         DEF Lookup
    <2>4. CASE Read(t)
      BY <2>4, KeyedInv, SeekInv, RangeInv, StringStepInv DEF Read
    <2>5. CASE Die(t)
      BY <2>5, StutterInv DEF Die
    <2> QED BY <2>1, <2>2, <2>3, <2>4, <2>5 DEF Step
  <1> QED BY <1>1, <1>2

\* The inductive invariant of the server's threads.
THEOREM Invariance == Spec => []IInv
  BY InitInv, NextInv, PTL DEF Spec
-----------------------------------------------------------------------------
\* No race overwrites a slot of a record whose word in the file is not 0
\* (bbip.c:59 stores what it reads through the shared cursor).
THEOREM IndexStaysIntact == Spec => []IndexIntact
  <1>1. IInv => IndexIntact
    BY DEF IInv, Shared
  <1> QED BY <1>1, Invariance, PTL

\* When no range starts at address 0, every lookup names the right record with
\* its range, and misses none but the first and the last, whatever other
\* threads do meanwhile.
THEOREM LookupsAreRight == Spec => []LookupRight
  <1>1. IInv => LookupRight
    <2> SUFFICES ASSUME IInv, file.start[1] # 0, NEW t \in Threads, pc[t] = "done"
                 PROVE  LET k == local[t].key
                        IN  /\ k # 0 => /\ Covers(file, k, local[t].ip)
                                        /\ local[t].op = "query" =>
                                              local[t].range = <<file.start[k], file.end[k]>>
                            /\ \A j \in 2..(file.n - 1) : Covers(file, j, local[t].ip) => k = j
      BY DEF LookupRight
    <2>1. Good(file, local[t], "done")
      BY DEF IInv, InHandler, Loading
    <2> QED BY <2>1 DEF Good, Named
  <1> QED BY <1>1, Invariance, PTL
-----------------------------------------------------------------------------
(***************************************************************************)
(* The strings.  What a call reads is only right while no other call moves *)
(* the cursor, so this part speaks of the cursor, and of calls that no     *)
(* other has overlapped.                                                   *)
(***************************************************************************)
Plain == Searching \cup Behind \cup Loading \cup {"keyed", "seek"}

Texts == {"", Junk} \cup UNION {{p[j] : j \in DOMAIN Fields} : p \in Payloads}

InFile(f, p) ==
    \/ p[1] = "word" /\ p[2] \in 0..(3 * f.n)
    \/ p[1] \in {"len", "data"} /\ p[2] \in 1..f.n /\ p[3] \in DOMAIN Fields
    \/ p = Wild

\* The locals that the strings are read with, of a thread at w.
Kept(f, l, w) ==
    /\ Serves(l.op)
    /\ l.key \in 0..(f.n - 1)
    /\ InFile(f, l.cur) /\ InFile(f, l.data)
    /\ l.strs \in Seq(Texts)
    /\ Len(l.strs) <= Len(Fields)
    /\ w \in Copying => Len(l.strs) < Len(Fields)
    /\ w \in Plain \cup {"range"} => l.strs = <<>>

\* A call that no other has overlapped has its record's strings, and goes on
\* with the next one, which the cursor p or its copies are at.
Ours(f, l, w, p) ==
    LET k == l.key
        j == Len(l.strs) + 1
    IN  /\ \A i \in 1..Len(l.strs) : l.strs[i] = f.data[k][i]
        /\ w \in {"range", "len"} => p = LenAt(k, j)
        /\ w = "bump" => l.cur = LenAt(k, j)
        /\ w \in {"data", "add"} => p = DataAt(k, j)
        /\ w = "skip" => l.cur = DataAt(k, j)
        /\ w \in {"data", "add", "skip"} => l.len = <<k, j>>
        /\ w \in {"add", "skip"} => l.data = DataAt(k, j)

Solitary(t) == \A u \in Threads \ {t} : ~InCall(u)

SInv ==
    /\ IInv
    /\ InFile(file, ptr) /\ alone \in [Threads -> BOOLEAN] /\ up \in BOOLEAN
    /\ \A t \in Threads :
          /\ Kept(file, local[t], pc[t])
          /\ alone[t] => Ours(file, local[t], pc[t], ptr)
          /\ alone[t] /\ InCall(t) => Solitary(t)
-----------------------------------------------------------------------------
LEMMA FieldFacts ==
    /\ Fields \in Seq(STRING) /\ Len(Fields) \in Nat /\ Len(Fields) >= 1
    /\ DOMAIN Fields = 1..Len(Fields)
  <1>1. Fields \in Seq(STRING) /\ Fields # <<>>
    BY NamesAssumption
  <1>2. Len(Fields) \in Nat /\ DOMAIN Fields = 1..Len(Fields)
    BY <1>1
  <1>3. Len(Fields) # 0
    BY <1>1
  <1> QED BY <1>1, <1>2, <1>3

LEMMA FieldPosIn ==
    ASSUME NEW name, IsField(name)
    PROVE  FieldPos(name) \in 1..Len(Fields)
  <1>1. FieldPos(name) \in DOMAIN Fields
    BY DEF IsField, FieldPos
  <1> QED BY <1>1, FieldFacts

\* No handler reads more strings than a record has.
LEMMA WantedBound ==
    ASSUME NEW op \in Ops, Serves(op), NEW strs
    PROVE  Wanted(op, strs) \in 1..Len(Fields)
  <1>1. CASE op = "query"
    BY <1>1, FieldFacts DEF Wanted
  <1>2. CASE op \in {"GetZoneID", "query_string"}
    <2>1. Wanted(op, strs) = FieldPos("isp") /\ IsField("isp")
      BY <1>2 DEF Wanted, Serves
    <2> QED BY <2>1, FieldPosIn
  <1>3. CASE op = "GetAreaFlag"
    <2>1. Wanted(op, strs) \in {FieldPos("province"), FieldPos("country")}
      BY <1>3 DEF Wanted
    <2>2. IsField("province") /\ IsField("country")
      BY <1>3 DEF Serves
    <2> QED BY <2>1, <2>2, FieldPosIn
  <1> QED BY <1>1, <1>2, <1>3 DEF Ops

LEMMA Appended ==
    ASSUME NEW T, NEW s \in Seq(T), NEW x \in T
    PROVE  /\ Append(s, x) \in Seq(T) /\ Len(s) \in Nat /\ Len(Append(s, x)) = Len(s) + 1
           /\ \A i \in 1..Len(s) : Append(s, x)[i] = s[i]
           /\ Append(s, x)[Len(s) + 1] = x
  OBVIOUS

LEMMA StrText ==
    ASSUME Shared, NEW k \in 1..file.n, NEW j \in DOMAIN Fields
    PROVE  Str(k, j) \in Texts /\ Str(k, j) = file.data[k][j]
  <1>1. file.data[k] \in Payloads
    BY FileFacts DEF IsDataFile
  <1>2. DOMAIN Fields = DOMAIN file.data[k]
    BY <1>1, FieldsAssumption
  <1> DEFINE q == file.data[k]
  <1>3. q \in Payloads /\ j \in DOMAIN q
    BY <1>1, <1>2
  <1> HIDE DEF q
  <1>4. q[j] \in {q[i] : i \in DOMAIN q}
    BY <1>3
  <1>5. q[j] \in UNION {{r[i] : i \in DOMAIN Fields} : r \in Payloads}
    BY <1>3, <1>4, FieldsAssumption
  <1> QED BY <1>5 DEF q, Str, Texts

\* A step of a thread in its call, which has the handler's part of the
\* invariant already.
LEMMA OneSteps ==
    ASSUME SInv, IInv', file' = file, alone' = alone, up' \in BOOLEAN,
           NEW t \in Threads, InCall(t), NEW l, NEW p, Moves(t, l, p),
           InFile(file, ptr'), Kept(file, l, p), alone[t] => Ours(file, l, p, ptr')
    PROVE  SInv'
  <1>1. local'[t] = l /\ pc'[t] = p
    BY DEF Moves, SInv, IInv, Typed
  <1>2. ASSUME NEW u \in Threads, u # t
        PROVE  local'[u] = local[u] /\ pc'[u] = pc[u]
    BY <1>2 DEF Moves, SInv, IInv, Typed
  <1>3. ASSUME NEW u \in Threads
        PROVE  Kept(file', local'[u], pc'[u])
    <2>1. CASE u = t
      BY <1>1, <2>1
    <2>2. CASE u # t
      BY <1>2, <2>2 DEF SInv
    <2> QED BY <2>1, <2>2
  <1>4. ASSUME NEW u \in Threads, u # t, alone[u]
        PROVE  pc[u] \in {"idle", "done"}
    <2>1. InCall(u) => ~InCall(t)
      BY <1>4 DEF SInv, Solitary
    <2> QED BY <2>1 DEF InCall
  <1>5. ASSUME NEW u \in Threads, alone'[u]
        PROVE  Ours(file', local'[u], pc'[u], ptr')
    <2>1. CASE u = t
      BY <1>1, <1>5, <2>1
    <2>2. CASE u # t
      <3>1. Ours(file, local[u], pc[u], ptr) /\ pc[u] \in {"idle", "done"}
        BY <1>4, <1>5, <2>2 DEF SInv
      <3>2. Ours(file, local[u], pc[u], ptr')
        BY <3>1 DEF Ours
      <3> QED BY <1>2, <2>2, <3>2
    <2> QED BY <2>1, <2>2
  <1>6. ASSUME NEW u \in Threads, alone'[u], InCall(u)'
        PROVE  Solitary(u)'
    <2>1. CASE u = t
      <3>1. \A v \in Threads \ {t} : ~InCall(v)
        BY <1>6, <2>1 DEF SInv, Solitary
      <3>2. \A v \in Threads \ {t} : pc'[v] \in {"idle", "done"}
        BY <1>2, <3>1 DEF InCall
      <3> QED BY <2>1, <3>2 DEF Solitary, InCall
    <2>2. CASE u # t
      BY <1>2, <1>4, <1>6, <2>2 DEF InCall
    <2> QED BY <2>1, <2>2
  <1>7. /\ InFile(file', ptr') /\ alone' \in [Threads -> BOOLEAN]
    BY DEF SInv
  <1>8. \A u \in Threads :
           /\ Kept(file', local'[u], pc'[u])
           /\ alone'[u] => Ours(file', local'[u], pc'[u], ptr')
           /\ alone'[u] /\ InCall(u)' => Solitary(u)'
    BY <1>3, <1>5, <1>6
  <1> QED BY <1>7, <1>8 DEF SInv

\* A step that has not to do with strings.
LEMMA PlainInv ==
    ASSUME SInv, IInv', file' = file, alone' = alone, up' = up,
           ptr' = ptr \/ InFile(file, ptr'),
           NEW t \in Threads, NEW w \in Plain, pc[t] = w, NEW l, NEW p \in Plain \cup {"done"},
           Moves(t, l, p), l.op = local[t].op, l.cur = local[t].cur, l.data = local[t].data,
           l.strs = local[t].strs, l.key = local[t].key \/ p = "keyed"
    PROVE  SInv'
  <1>1. InCall(t)
    BY DEF InCall, Plain, Searching, Behind, Loading
  <1>2. Kept(file, local[t], w)
    BY DEF SInv
  <1>3. l.key \in 0..(file.n - 1)
    <2>1. CASE l.key = local[t].key
      BY <1>2, <2>1 DEF Kept
    <2>2. CASE p = "keyed"
      <3>1. local'[t] = l /\ pc'[t] = p
        BY DEF Moves, SInv, IInv, Typed
      <3>2. InHandler(file, l, "keyed")
        BY <2>2, <3>1 DEF IInv
      <3> QED BY <3>2 DEF InHandler, Loading, Good, Named
    <2> QED BY <2>1, <2>2
  <1>4. p \notin Copying
    BY DEF Plain, Searching, Behind, Loading, Copying
  <1>5. l.strs = <<>> /\ Len(l.strs) = 0
    BY <1>2 DEF Kept
  <1>6. Kept(file, l, p)
    BY <1>2, <1>3, <1>4, <1>5 DEF Kept
  <1>7. Ours(file, l, p, ptr')
    BY <1>4, <1>5 DEF Ours, Plain, Searching, Behind, Loading, Copying
  <1>8. InFile(file, ptr') /\ up' \in BOOLEAN
    BY DEF SInv
  <1> QED BY <1>1, <1>6, <1>7, <1>8, OneSteps

LEMMA PlainRequire ==
    ASSUME SInv, IInv', file' = file, alone' = alone, up' = up, ptr' = ptr,
           NEW t \in Threads, NEW w \in Plain, pc[t] = w,
           NEW array, NEW slot, NEW next \in Plain, Require(t, array, slot, next)
    PROVE  SInv'
  <1>1. PICK S : local[t] \in Locals(S) /\ local \in [Threads -> Locals(S)]
    BY DEF SInv, IInv, Typed
  <1>2. CASE Missing(array, slot)
    <2> DEFINE l == [local[t] EXCEPT !.miss = <<array, slot, next>>]
    <2>1. Moves(t, l, "aim")
      BY <1>2 DEF Require, Goto, Moves
    <2>2. /\ l.op = local[t].op /\ l.cur = local[t].cur /\ l.data = local[t].data
          /\ l.strs = local[t].strs /\ l.key = local[t].key
      BY <1>1 DEF Locals
    <2> HIDE DEF l
    <2> QED BY <2>1, <2>2, PlainInv DEF Plain, Loading
  <1>3. CASE ~Missing(array, slot)
    <2>1. Moves(t, local[t], next)
      BY <1>1, <1>3 DEF Require, Goto, Moves
    <2> QED BY <2>1, PlainInv
  <1> QED BY <1>2, <1>3

\* The search and its loads.
LEMMA LookupStrings ==
    ASSUME SInv, IInv', NEW t \in Threads, Lookup(t)
    PROVE  SInv'
  <1>1. PICK S : local[t] \in Locals(S) /\ local \in [Threads -> Locals(S)]
    BY DEF SInv, IInv, Typed
  <1>2. file' = file /\ alone' = alone /\ up' = up
    BY DEF Lookup, Loop, Aim, Load, Save, Equal, Order, LastStart, LastEnd, Decide
  <1>3. Searching \cup Behind \cup Loading \cup {"keyed", "seek"} = Plain
    BY DEF Plain
  <1>4. {"loop", "equal", "order", "start", "end", "decide", "aim", "load", "save", "keyed",
         "seek"} \subseteq Plain
    BY DEF Plain, Searching, Behind, Loading
  <1>5. CASE Loop(t)
    <2>1. pc[t] = "loop" /\ ptr' = ptr
      BY <1>5 DEF Loop, At
    <2>2. CASE local[t].i_s <= local[t].i_e
      <3>1. Require(t, "start", Slot(t), "equal")
        BY <1>5, <2>2 DEF Loop
      <3> QED BY <1>2, <1>4, <2>1, <3>1, PlainRequire
    <2>3. CASE ~(local[t].i_s <= local[t].i_e)
      <3> DEFINE p == IF local[t].i_e > 1 THEN "start" ELSE "decide"
      <3>1. Moves(t, local[t], p)
        BY <1>1, <1>5, <2>3 DEF Loop, Goto, Moves
      <3>2. p \in Plain
        BY <1>4
      <3> HIDE DEF p
      <3> QED BY <1>2, <1>4, <2>1, <3>1, <3>2, PlainInv
    <2> QED BY <2>2, <2>3
  <1>6. CASE Aim(t)
    <2>1. Moves(t, local[t], "load") /\ pc[t] = "aim"
      BY <1>1, <1>6 DEF Aim, At, Goto, Moves
    <2>2. Miss(file, local[t])
      BY <2>1 DEF SInv, IInv, InHandler, Loading
    <2>3. ptr' = WordAt(CellIn(file, local[t].miss[1], local[t].miss[2]))
      BY <1>6, <2>2, CellsOf DEF Aim, Miss
    <2>4. CellIn(file, local[t].miss[1], local[t].miss[2]) \in 0..(3 * file.n)
      BY <2>2, FileFacts, CellRange DEF SInv, IInv, Miss
    <2>5. InFile(file, ptr')
      BY <2>3, <2>4 DEF WordAt, InFile
    <2> QED BY <1>2, <1>4, <2>1, <2>5, PlainInv
  <1>7. CASE Load(t)
    <2>1. PICK v : local' = [local EXCEPT ![t].word = v]
      BY <1>7 DEF Load
    <2> DEFINE l == [local[t] EXCEPT !.word = v]
    <2>2. Moves(t, l, "save") /\ pc[t] = "load" /\ ptr' = ptr
      BY <1>7, <2>1 DEF Load, At, Goto, Moves
    <2>3. /\ l.op = local[t].op /\ l.cur = local[t].cur /\ l.data = local[t].data
          /\ l.strs = local[t].strs /\ l.key = local[t].key
      BY <1>1 DEF Locals
    <2> HIDE DEF l
    <2> QED BY <1>2, <1>4, <2>2, <2>3, PlainInv
  <1>8. CASE Save(t)
    <2> DEFINE l == [local[t] EXCEPT !.miss = NoMiss, !.word = 0]
               p == local[t].miss[3]
    <2>1. Moves(t, l, p) /\ pc[t] = "save" /\ ptr' = ptr
      BY <1>8 DEF Save, At, Goto, Moves
    <2>2. Miss(file, local[t])
      BY <2>1 DEF SInv, IInv, InHandler, Loading
    <2>3. p \in Plain
      BY <1>4, <2>2 DEF Miss
    <2>4. /\ l.op = local[t].op /\ l.cur = local[t].cur /\ l.data = local[t].data
          /\ l.strs = local[t].strs /\ l.key = local[t].key
      BY <1>1 DEF Locals
    <2> HIDE DEF l, p
    <2> QED BY <1>2, <1>4, <2>1, <2>3, <2>4, PlainInv
  <1>9. CASE Equal(t)
    <2>1. pc[t] = "equal" /\ ptr' = ptr
      BY <1>9 DEF Equal, At
    <2>2. CASE index["start"][Slot(t)] = local[t].ip
      <3> DEFINE s == Slot(t)
                 l == [local[t] EXCEPT !.key = s, !.i_s = 0, !.i_e = 0]
      <3> HIDE DEF s
      <3>1. Moves(t, l, "keyed")
        BY <1>9, <2>2 DEF Equal, Goto, Moves, s
      <3>2. /\ l.op = local[t].op /\ l.cur = local[t].cur /\ l.data = local[t].data
            /\ l.strs = local[t].strs
        BY <1>1 DEF Locals
      <3> HIDE DEF l
      <3> QED BY <1>2, <1>4, <2>1, <3>1, <3>2, PlainInv
    <2>3. CASE index["start"][Slot(t)] # local[t].ip
      <3>1. Moves(t, local[t], "order")
        BY <1>1, <1>9, <2>3 DEF Equal, Goto, Moves
      <3> QED BY <1>2, <1>4, <2>1, <3>1, PlainInv
    <2> QED BY <2>2, <2>3
  <1>10. CASE Order(t)
    <2>1. PICK v : \/ local' = [local EXCEPT ![t].i_e = v]
                   \/ local' = [local EXCEPT ![t].i_s = v]
      BY <1>10 DEF Order
    <2>2. PICK l \in {[local[t] EXCEPT !.i_e = v], [local[t] EXCEPT !.i_s = v]} :
             Moves(t, l, "loop")
      BY <1>10, <2>1 DEF Order, Goto, Moves
    <2>3. /\ l.op = local[t].op /\ l.cur = local[t].cur /\ l.data = local[t].data
          /\ l.strs = local[t].strs /\ l.key = local[t].key
      BY <1>1, <2>2 DEF Locals
    <2>4. pc[t] = "order" /\ ptr' = ptr
      BY <1>10 DEF Order, At
    <2> QED BY <1>2, <1>4, <2>2, <2>3, <2>4, PlainInv
  <1>11. CASE LastStart(t)
    <2>1. Require(t, "start", Last(t), "end") /\ pc[t] = "start" /\ ptr' = ptr
      BY <1>11 DEF LastStart, At
    <2> QED BY <1>2, <1>4, <2>1, PlainRequire
  <1>12. CASE LastEnd(t)
    <2>1. Require(t, "end", Last(t), "decide") /\ pc[t] = "end" /\ ptr' = ptr
      BY <1>12 DEF LastEnd, At
    <2> QED BY <1>2, <1>4, <2>1, PlainRequire
  <1>13. CASE Decide(t)
    <2>1. PICK v : local' = [local EXCEPT ![t].i_s = 0, ![t].i_e = 0, ![t].key = v]
      BY <1>13 DEF Decide
    <2> DEFINE l == [local[t] EXCEPT !.i_s = 0, !.i_e = 0, !.key = v]
    <2>2. Moves(t, l, "keyed") /\ pc[t] = "decide" /\ ptr' = ptr
      BY <1>13, <2>1 DEF Decide, At, Goto, Moves
    <2>3. /\ l.op = local[t].op /\ l.cur = local[t].cur /\ l.data = local[t].data
          /\ l.strs = local[t].strs
      BY <1>1 DEF Locals
    <2> HIDE DEF l
    <2> QED BY <1>2, <1>4, <2>2, <2>3, PlainInv
  <1> QED BY <1>5, <1>6, <1>7, <1>8, <1>9, <1>10, <1>11, <1>12, <1>13 DEF Lookup

\* What the string steps start from.
LEMMA CopyFacts ==
    ASSUME SInv, NEW t \in Threads
    PROVE  /\ Kept(file, local[t], pc[t]) /\ Shared /\ file.n \in Nat
           /\ Len(local[t].strs) \in Nat
           /\ alone[t] => Ours(file, local[t], pc[t], ptr)
           /\ local[t].op \in Ops
           /\ pc[t] \in Copying \cup {"seek", "range"} => local[t].key \in 1..file.n
           /\ pc[t] \in Copying => Len(local[t].strs) + 1 \in DOMAIN Fields
  <1>1. PICK S : local[t] \in Locals(S)
    BY DEF SInv, IInv, Typed
  <1>2. Kept(file, local[t], pc[t]) /\ Shared /\ file.n \in Nat /\ local[t].op \in Ops
    BY <1>1, FileFacts DEF SInv, IInv, Locals
  <1>3. local[t].strs \in Seq(Texts) /\ local[t].key \in 0..(file.n - 1)
    BY <1>2 DEF Kept
  <1>4. Len(local[t].strs) \in Nat
    BY <1>3
  <1>5. ASSUME pc[t] \in Copying \cup {"seek", "range"}
        PROVE  local[t].key \in 1..file.n
    <2>1. InHandler(file, local[t], pc[t])
      BY DEF SInv, IInv
    <2>2. local[t].key # 0
      BY <1>5, <2>1 DEF InHandler, Good, Loading, Copying
    <2> QED BY <1>2, <1>3, <2>2
  <1>6. ASSUME pc[t] \in Copying
        PROVE  Len(local[t].strs) + 1 \in DOMAIN Fields
    <2>1. Len(local[t].strs) < Len(Fields)
      BY <1>2, <1>6 DEF Kept
    <2> QED BY <1>4, <2>1, FieldFacts
  <1> QED BY <1>2, <1>4, <1>5, <1>6 DEF SInv

LEMMA KeyedStrings ==
    ASSUME SInv, IInv', NEW t \in Threads, Keyed(t)
    PROVE  SInv'
  <1>1. PICK S : local[t] \in Locals(S) /\ local \in [Threads -> Locals(S)]
    BY DEF SInv, IInv, Typed
  <1>2. /\ file' = file /\ alone' = alone /\ up' = up /\ ptr' = ptr /\ pc[t] = "keyed"
        /\ "keyed" \in Plain /\ "seek" \in Plain
    BY DEF Keyed, At, Plain
  <1>3. CASE local[t].key = 0
    <2>1. Moves(t, local[t], "done")
      BY <1>1, <1>3 DEF Keyed, Goto, Moves
    <2> QED BY <1>2, <2>1, PlainInv
  <1>4. CASE local[t].key # 0
    <2>1. Require(t, "ptr", local[t].key, "seek")
      BY <1>4 DEF Keyed
    <2> QED BY <1>2, <2>1, PlainRequire
  <1> QED BY <1>3, <1>4

\* The cursor gets to the first string of the record.
LEMMA SeekStrings ==
    ASSUME SInv, IInv', NEW t \in Threads, Seek(t)
    PROVE  SInv'
  <1> DEFINE p == IF local[t].op = "query" THEN "range" ELSE "len"
             k == local[t].key
  <1>1. PICK S : local[t] \in Locals(S) /\ local \in [Threads -> Locals(S)]
    BY DEF SInv, IInv, Typed
  <1>2. /\ file' = file /\ alone' = alone /\ up' \in BOOLEAN /\ pc[t] = "seek"
        /\ Moves(t, local[t], p) /\ InCall(t)
    BY <1>1 DEF Seek, At, SInv, InCall, Goto, Moves
  <1>3. k \in 1..file.n /\ file.n \in Nat /\ Kept(file, local[t], "seek")
    BY <1>2, CopyFacts
  <1>4. ptr' = LenAt(k, 1)
    <2>1. index["ptr"][k] = BlobCell(file, k)
      BY <1>3, FullIndex DEF SInv, IInv
    <2>2. BlobCell(file, k) - BlobCell(file, 0) = k
      BY <1>3 DEF BlobCell
    <2> QED BY <2>1, <2>2 DEF Seek
  <1>5. local[t].strs = <<>> /\ Len(local[t].strs) = 0
    BY <1>3 DEF Kept, Plain
  <1>6. 1 \in DOMAIN Fields /\ Len(Fields) >= 1 /\ Len(Fields) \in Nat
    BY FieldFacts
  <1>7. InFile(file, ptr')
    BY <1>3, <1>4, <1>6 DEF LenAt, InFile
  <1> HIDE DEF k
  <1>8. Kept(file, local[t], p)
    BY <1>3, <1>5, <1>6 DEF Kept
  <1>9. Ours(file, local[t], p, ptr')
    BY <1>4, <1>5 DEF Ours, k
  <1> HIDE DEF p
  <1> QED BY <1>2, <1>7, <1>8, <1>9, OneSteps

LEMMA RangeStrings ==
    ASSUME SInv, IInv', NEW t \in Threads, GetRange(t)
    PROVE  SInv'
  <1>1. PICK S : local[t] \in Locals(S) /\ local \in [Threads -> Locals(S)]
    BY DEF SInv, IInv, Typed
  <1>2. PICK q : local' = [local EXCEPT ![t].range = q]
    BY DEF GetRange
  <1> DEFINE l == [local[t] EXCEPT !.range = q]
  <1>3. /\ file' = file /\ alone' = alone /\ up' = up /\ up' \in BOOLEAN /\ ptr' = ptr
        /\ pc[t] = "range" /\ Moves(t, l, "len") /\ InCall(t)
    BY <1>2 DEF GetRange, At, SInv, InCall, Goto, Moves
  <1>4. /\ l.op = local[t].op /\ l.cur = local[t].cur /\ l.data = local[t].data
        /\ l.strs = local[t].strs /\ l.key = local[t].key /\ l.len = local[t].len
    BY <1>1 DEF Locals
  <1> HIDE DEF l
  <1>5. Kept(file, local[t], "range") /\ (alone[t] => Ours(file, local[t], "range", ptr))
    BY <1>3, CopyFacts
  <1>6. Len(local[t].strs) = 0 /\ Len(Fields) >= 1 /\ Len(Fields) \in Nat
    BY <1>5, FieldFacts DEF Kept
  <1>7. Kept(file, l, "len")
    BY <1>4, <1>5, <1>6 DEF Kept, Plain
  <1>8. alone[t] => Ours(file, l, "len", ptr')
    BY <1>3, <1>4, <1>5 DEF Ours
  <1>9. InFile(file, ptr')
    BY <1>3 DEF SInv
  <1> QED BY <1>3, <1>7, <1>8, <1>9, OneSteps

LEMMA StrungMembers ==
    ASSUME NEW S, NEW m \in Locals(S), NEW strs, NEW cur, NEW len, NEW data
    PROVE  LET l == Strung(m, strs, cur, len, data)
           IN  /\ l.op = m.op /\ l.key = m.key /\ l.strs = strs /\ l.cur = cur
               /\ l.len = len /\ l.data = data
  BY DEF Strung, Locals

\* A step of bbip_getstr that keeps the strings read so far.
LEMMA CopyStrings ==
    ASSUME SInv, IInv', NEW t \in Threads, pc[t] \in Copying, NEW p \in Copying,
           NEW cur, NEW len, NEW data, InFile(file, cur), InFile(file, data),
           Moves(t, Strung(local[t], local[t].strs, cur, len, data), p),
           file' = file, alone' = alone, up' = up, InFile(file, ptr'),
           alone[t] =>
               LET k == local[t].key
                   j == Len(local[t].strs) + 1
               IN  /\ p = "len" => ptr' = LenAt(k, j)
                   /\ p = "bump" => cur = LenAt(k, j)
                   /\ p \in {"data", "add"} => ptr' = DataAt(k, j)
                   /\ p = "skip" => cur = DataAt(k, j)
                   /\ p \in {"data", "add", "skip"} => len = <<k, j>>
                   /\ p \in {"add", "skip"} => data = DataAt(k, j)
    PROVE  SInv'
  <1> DEFINE l == Strung(local[t], local[t].strs, cur, len, data)
  <1>1. PICK S : local[t] \in Locals(S)
    BY DEF SInv, IInv, Typed
  <1>2. /\ l.op = local[t].op /\ l.key = local[t].key /\ l.strs = local[t].strs
        /\ l.cur = cur /\ l.len = len /\ l.data = data
    BY <1>1, StrungMembers
  <1>3. Moves(t, l, p) /\ up' \in BOOLEAN /\ InCall(t)
    BY DEF SInv, InCall, Copying
  <1> HIDE DEF l
  <1>4. Kept(file, local[t], pc[t]) /\ (alone[t] => Ours(file, local[t], pc[t], ptr))
    BY CopyFacts
  <1>5. Kept(file, l, p)
    BY <1>2, <1>4 DEF Kept, Copying, Plain, Searching, Behind, Loading
  <1>6. ASSUME alone[t]
        PROVE  Ours(file, l, p, ptr')
    <2>1. \A i \in 1..Len(l.strs) : l.strs[i] = file.data[l.key][i]
      BY <1>2, <1>4, <1>6 DEF Ours
    <2>2. p # "range"
      BY DEF Copying
    <2> QED BY <1>2, <1>6, <2>1, <2>2 DEF Ours
  <1> QED BY <1>3, <1>5, <1>6, OneSteps

\* A string has been read; a thread that is alone has read its record's next one
\* and left the cursor behind it.
LEMMA GotStrings ==
    ASSUME SInv, IInv', NEW t \in Threads, pc[t] \in Copying, NEW s \in Texts, Got(t, s),
           file' = file, alone' = alone, up' = up, InFile(file, ptr'),
           alone[t] =>
               LET k == local[t].key
                   j == Len(local[t].strs) + 1
               IN  s = Str(k, j) /\ ptr' = StringAt(k, j + 1)
    PROVE  SInv'
  <1> DEFINE old == local[t].strs
             k == local[t].key
             j == Len(old) + 1
             strs == Append(old, s)
             p == IF Len(strs) < Wanted(local[t].op, strs) THEN "len" ELSE "done"
             l == Strung(local[t], strs, Wild, NoLen, Wild)
  <1>1. PICK S : local[t] \in Locals(S)
    BY DEF SInv, IInv, Typed
  <1>2. Moves(t, l, p) /\ up' \in BOOLEAN /\ InCall(t)
    BY DEF Got, Goto, Moves, Strung, SInv, InCall, Copying
  <1>3. /\ Kept(file, local[t], pc[t]) /\ local[t].op \in Ops /\ Len(old) \in Nat
        /\ j \in DOMAIN Fields
        /\ alone[t] => Ours(file, local[t], pc[t], ptr)
    BY CopyFacts
  <1>4. old \in Seq(Texts) /\ Serves(local[t].op)
    BY <1>3 DEF Kept
  <1>5. /\ strs \in Seq(Texts) /\ Len(strs) = j
        /\ \A i \in 1..Len(old) : strs[i] = old[i]
        /\ strs[j] = s
    BY <1>4, Appended
  <1>6. Wanted(local[t].op, strs) \in 1..Len(Fields)
    BY <1>3, <1>4, WantedBound
  <1> HIDE DEF strs
  <1>7. /\ l.op = local[t].op /\ l.key = k /\ l.strs = strs
        /\ l.cur = Wild /\ l.len = NoLen /\ l.data = Wild
    BY <1>1, StrungMembers
  <1> HIDE DEF l
  <1>8. /\ Len(strs) <= Len(Fields) /\ p \in {"len", "done"}
        /\ p = "len" => Len(strs) < Len(Fields)
    <2>1. j \in Nat /\ j <= Len(Fields) /\ Len(Fields) \in Nat
      BY <1>3, FieldFacts
    <2>2. Len(strs) < Wanted(local[t].op, strs) => Len(strs) < Len(Fields)
      BY <1>5, <1>6, <2>1
    <2> QED BY <1>5, <2>1, <2>2
  <1> HIDE DEF p
  <1>9. Kept(file, l, p)
    <2>1. p \notin Plain \cup {"range"} /\ (p \in Copying => p = "len")
      BY <1>8 DEF Plain, Searching, Behind, Loading, Copying
    <2>2. InFile(file, Wild)
      BY DEF InFile
    <2> QED BY <1>3, <1>5, <1>7, <1>8, <2>1, <2>2 DEF Kept
  <1>10. ASSUME alone[t]
         PROVE  Ours(file, l, p, ptr')
    <2>1. \A i \in 1..Len(old) : old[i] = file.data[k][i]
      BY <1>3, <1>10 DEF Ours
    <2>2. s = file.data[k][j] /\ ptr' = StringAt(k, j + 1)
      BY <1>10 DEF Str
    <2>3. \A i \in 1..Len(strs) : strs[i] = file.data[k][i]
      <3> SUFFICES ASSUME NEW i \in 1..Len(strs) PROVE strs[i] = file.data[k][i]
        OBVIOUS
      <3>1. i = j \/ i \in 1..Len(old)
        BY <1>3, <1>5
      <3> QED BY <1>5, <2>1, <2>2, <3>1
    <2>4. p = "len" => ptr' = LenAt(k, Len(strs) + 1)
      <3> SUFFICES ASSUME p = "len" PROVE j + 1 \in DOMAIN Fields
        BY <1>5, <2>2 DEF StringAt
      <3> QED BY <1>3, <1>5, <1>8, FieldFacts
    <2> QED BY <1>7, <1>8, <2>3, <2>4 DEF Ours
  <1> QED BY <1>2, <1>9, <1>10, OneSteps

\* Where the steps of bbip_getstr put the cursor, and what they may read.
LEMMA StringAtIn ==
    ASSUME NEW f, NEW k \in 1..f.n, NEW j
    PROVE  InFile(f, StringAt(k, j))
  <1>1. CASE j \in DOMAIN Fields
    BY <1>1 DEF StringAt, LenAt, InFile
  <1>2. CASE j \notin DOMAIN Fields
    BY <1>2 DEF StringAt, InFile
  <1> QED BY <1>1, <1>2

LEMMA PositionKinds ==
    ASSUME NEW f, NEW p, InFile(f, p), p[1] \in {"len", "data"}
    PROVE  p[2] \in 1..f.n /\ p[3] \in DOMAIN Fields
  BY DEF InFile, Wild

LEMMA SkipIn ==
    ASSUME NEW f, NEW p, InFile(f, p), NEW len, NEW q \in Skip(p, len)
    PROVE  InFile(f, q)
  <1>1. InFile(f, Wild)
    BY DEF InFile
  <1>2. CASE p[1] # "data"
    BY <1>1, <1>2 DEF Skip
  <1>3. CASE p[1] = "data"
    <2>1. p[2] \in 1..f.n
      BY <1>3, PositionKinds
    <2>2. q = Wild \/ q = StringAt(p[2], p[3] + 1)
      BY <1>3 DEF Skip
    <2> QED BY <1>1, <2>1, <2>2, StringAtIn
  <1> QED BY <1>2, <1>3

LEMMA TextIn ==
    ASSUME Shared, NEW p, InFile(file, p), NEW len, NEW s \in Text(p, len)
    PROVE  s \in Texts
  <1>1. Junk \in Texts
    BY DEF Texts
  <1>2. CASE p[1] # "data"
    BY <1>1, <1>2 DEF Text
  <1>3. CASE p[1] = "data"
    <2>1. p[2] \in 1..file.n /\ p[3] \in DOMAIN Fields
      BY <1>3, PositionKinds
    <2>2. s = Junk \/ s = Str(p[2], p[3])
      BY <1>3 DEF Text
    <2> QED BY <1>1, <2>1, <2>2, StrText
  <1> QED BY <1>2, <1>3

LEMMA LenDataIn ==
    ASSUME NEW f, NEW k \in 1..f.n, NEW j \in DOMAIN Fields
    PROVE  InFile(f, LenAt(k, j)) /\ InFile(f, DataAt(k, j))
  BY DEF InFile, LenAt, DataAt

LEMMA BumpStrings ==
    ASSUME SInv, IInv', NEW t \in Threads, Bump(t)
    PROVE  SInv'
  <1> DEFINE c == local[t].cur
             k == local[t].key
             j == Len(local[t].strs) + 1
  <1>1. /\ file' = file /\ alone' = alone /\ up' = up /\ pc[t] = "bump" /\ "bump" \in Copying
        /\ "data" \in Copying
    BY DEF Bump, At, Copying
  <1>2. /\ Kept(file, local[t], "bump") /\ Shared /\ k \in 1..file.n /\ j \in DOMAIN Fields
        /\ alone[t] => Ours(file, local[t], "bump", ptr)
    BY <1>1, CopyFacts
  <1>3. InFile(file, c) /\ InFile(file, local[t].data) /\ InFile(file, Wild)
    BY <1>2 DEF Kept, InFile
  <1>4. alone[t] => c = LenAt(k, j)
    BY <1>2 DEF Ours
  <1>5. "" \in Texts
    BY DEF Texts
  <1>6. CASE c[1] = "len"
    <2>1. c[2] \in 1..file.n /\ c[3] \in DOMAIN Fields
      BY <1>3, <1>6, PositionKinds
    <2>2. alone[t] => c[2] = k /\ c[3] = j
      BY <1>4 DEF LenAt
    <2>3. CASE Str(c[2], c[3]) = ""
      <3>1. ptr' = StringAt(c[2], c[3] + 1) /\ Got(t, "")
        BY <1>6, <2>3 DEF Bump
      <3>2. InFile(file, ptr')
        BY <2>1, <3>1, StringAtIn
      <3>3. alone[t] => "" = Str(k, j) /\ ptr' = StringAt(k, j + 1)
        BY <2>2, <2>3, <3>1
      <3> HIDE DEF c, k, j
      <3> QED BY <1>1, <1>5, <3>1, <3>2, <3>3, GotStrings DEF k, j
    <2>4. CASE Str(c[2], c[3]) # ""
      <3> DEFINE x == <<c[2], c[3]>>
      <3>1. /\ ptr' = DataAt(c[2], c[3])
            /\ Moves(t, [local[t] EXCEPT !.len = x], "data")
        BY <1>6, <2>4 DEF Bump, Goto, Moves
      <3>2. InFile(file, ptr')
        BY <2>1, <3>1, LenDataIn
      <3>3. alone[t] => x = <<k, j>> /\ ptr' = DataAt(k, j)
        BY <2>2, <3>1
      <3> HIDE DEF x, k, j
      <3>4. Moves(t, Strung(local[t], local[t].strs, c, x, local[t].data), "data")
        BY <3>1, SameMembers DEF SInv
      <3> HIDE DEF c
      <3> QED BY <1>1, <1>3, <3>2, <3>3, <3>4, CopyStrings DEF k, j
    <2> QED BY <2>3, <2>4
  <1>7. CASE c[1] # "len"
    <2>1. ~alone[t]
      BY <1>4, <1>7 DEF LenAt
    <2>2. ptr' = Wild
      BY <1>7 DEF Bump
    <2>3. Got(t, "") \/ (local' = local /\ Goto(t, "data"))
      BY <1>7 DEF Bump
    <2>4. CASE Got(t, "")
      BY <1>1, <1>3, <1>5, <2>1, <2>2, <2>4, GotStrings
    <2>5. CASE local' = local /\ Goto(t, "data")
      <3>1. Moves(t, local[t], "data")
        BY <2>5, SameMembers DEF SInv, Goto, Moves
      <3>2. Moves(t, Strung(local[t], local[t].strs, c, local[t].len, local[t].data), "data")
        BY <3>1, SameMembers DEF SInv
      <3> HIDE DEF c
      <3> QED BY <1>1, <1>3, <2>1, <2>2, <3>2, CopyStrings
    <2> QED BY <2>3, <2>4, <2>5
  <1> QED BY <1>6, <1>7

LEMMA StringSteps ==
    ASSUME SInv, IInv', NEW t \in Threads,
           GetLen(t) \/ GetData(t) \/ Add(t) \/ GetString(t)
    PROVE  SInv'
  <1> DEFINE old == local[t].strs
             k == local[t].key
             j == Len(old) + 1
  <1>1. PICK w \in Copying : pc[t] = w
    BY DEF GetLen, GetData, Add, GetString, At, Copying
  <1>2. file' = file /\ alone' = alone /\ up' = up /\ InFile(file, ptr)
    BY DEF GetLen, GetData, Add, GetString, SInv
  <1>3. /\ Kept(file, local[t], w) /\ Shared /\ k \in 1..file.n /\ j \in DOMAIN Fields
        /\ alone[t] => Ours(file, local[t], w, ptr)
    BY <1>1, CopyFacts
  <1>4. InFile(file, local[t].cur) /\ InFile(file, local[t].data)
    BY <1>3 DEF Kept
  <1>5. {"len", "bump", "data", "add", "skip"} = Copying
    BY DEF Copying
  <1>6. CASE GetLen(t)
    <2>1. w = "len" /\ Moves(t, [local[t] EXCEPT !.cur = ptr], "bump") /\ ptr' = ptr
      BY <1>1, <1>6 DEF GetLen, At, Goto, Moves
    <2>2. Moves(t, Strung(local[t], old, ptr, local[t].len, local[t].data), "bump")
      BY <2>1, SameMembers DEF SInv
    <2>3. alone[t] => ptr = LenAt(k, j)
      BY <1>3, <2>1 DEF Ours
    <2> HIDE DEF k, j
    <2> QED BY <1>1, <1>2, <1>4, <1>5, <2>1, <2>2, <2>3, CopyStrings DEF k, j
  <1>7. CASE GetData(t)
    <2>1. w = "data" /\ Moves(t, [local[t] EXCEPT !.data = ptr], "add") /\ ptr' = ptr
      BY <1>1, <1>7 DEF GetData, At, Goto, Moves
    <2>2. Moves(t, Strung(local[t], old, local[t].cur, local[t].len, ptr), "add")
      BY <2>1, SameMembers DEF SInv
    <2>3. alone[t] => ptr = DataAt(k, j) /\ local[t].len = <<k, j>>
      BY <1>3, <2>1 DEF Ours
    <2> HIDE DEF k, j
    <2> QED BY <1>1, <1>2, <1>4, <1>5, <2>1, <2>2, <2>3, CopyStrings DEF k, j
  <1>8. CASE Add(t)
    <2>1. w = "add" /\ Moves(t, [local[t] EXCEPT !.cur = ptr], "skip") /\ ptr' = ptr
      BY <1>1, <1>8 DEF Add, At, Goto, Moves
    <2>2. Moves(t, Strung(local[t], old, ptr, local[t].len, local[t].data), "skip")
      BY <2>1, SameMembers DEF SInv
    <2>3. alone[t] => /\ ptr = DataAt(k, j) /\ local[t].len = <<k, j>>
                      /\ local[t].data = DataAt(k, j)
      BY <1>3, <2>1 DEF Ours
    <2> HIDE DEF k, j
    <2> QED BY <1>1, <1>2, <1>4, <1>5, <2>1, <2>2, <2>3, CopyStrings DEF k, j
  <1>9. CASE GetString(t)
    <2>1. w = "skip" /\ ptr' \in Skip(local[t].cur, local[t].len)
      BY <1>1, <1>9 DEF GetString, At
    <2>2. PICK s \in Text(local[t].data, local[t].len) : Got(t, s)
      BY <1>9 DEF GetString
    <2>3. InFile(file, ptr') /\ s \in Texts
      BY <1>3, <1>4, <2>1, SkipIn, TextIn
    <2>4. ASSUME alone[t]
          PROVE  s = Str(k, j) /\ ptr' = StringAt(k, j + 1)
      <3>1. /\ local[t].cur = DataAt(k, j) /\ local[t].len = <<k, j>>
            /\ local[t].data = DataAt(k, j)
        BY <1>3, <2>1, <2>4 DEF Ours
      <3> HIDE DEF k, j
      <3> QED BY <2>1, <3>1 DEF Skip, Text, DataAt
    <2> HIDE DEF k, j
    <2> QED BY <1>1, <1>2, <2>2, <2>3, <2>4, GotStrings DEF k, j
  <1> QED BY <1>6, <1>7, <1>8, <1>9

LEMMA CallStrings ==
    ASSUME SInv, IInv', NEW t \in Threads, NEW q \in Requests, Call(t, q[1], q[2])
    PROVE  SInv'
  <1> DEFINE a == q[2] % (MaxIP + 1)
             l == [Idle EXCEPT !.op = q[1], !.ip = a, !.i_s = 1, !.i_e = file.n]
  <1>1. /\ file' = file /\ ptr' = ptr /\ up' = up /\ Moves(t, l, "loop") /\ ~InCall(t)
        /\ alone' = [u \in Threads |->
                       IF u = t THEN \A v \in Threads \ {t} : ~InCall(v)
                       ELSE alone[u] /\ ~InCall(u)]
    BY DEF Call, Goto, Moves
  <1> HIDE DEF a
  <1>2. /\ l.op = q[1] /\ l.key = 0 /\ l.cur = Wild /\ l.data = Wild /\ l.strs = <<>>
    BY DEF Idle
  <1> HIDE DEF l
  <1>3. file.n \in Nat /\ file.n > 0
    BY FileFacts DEF SInv, IInv
  <1>4. "loop" \notin Copying \cup {"range", "idle", "done"}
    BY DEF Copying
  <1>5. Serves(l.op) /\ <<>> \in Seq(Texts) /\ Len(l.strs) = 0
    BY <1>2, NamesAssumption
  <1>6. InFile(file, Wild)
    BY DEF InFile
  <1>7. Kept(file, l, "loop") /\ Ours(file, l, "loop", ptr)
    <2>1. Kept(file, l, "loop")
      BY <1>2, <1>3, <1>4, <1>5, <1>6, FieldFacts DEF Kept
    <2>2. Ours(file, l, "loop", ptr)
      BY <1>5 DEF Ours
    <2> QED BY <2>1, <2>2
  <1>8. local'[t] = l /\ pc'[t] = "loop"
    BY <1>1 DEF Moves, SInv, IInv, Typed
  <1>9. ASSUME NEW u \in Threads, u # t
        PROVE  local'[u] = local[u] /\ pc'[u] = pc[u]
    BY <1>1, <1>9 DEF Moves, SInv, IInv, Typed
  <1>10. ASSUME NEW u \in Threads
         PROVE  /\ Kept(file, local'[u], pc'[u])
                /\ alone'[u] => Ours(file, local'[u], pc'[u], ptr)
                /\ alone'[u] /\ InCall(u)' => Solitary(u)'
    <2>1. CASE u = t
      <3>1. alone'[t] => \A v \in Threads \ {t} : ~InCall(v)
        BY <1>1
      <3>2. alone'[t] => Solitary(t)'
        BY <1>9, <3>1 DEF Solitary, InCall
      <3> QED BY <1>7, <1>8, <2>1, <3>2
    <2>2. CASE u # t
      <3>1. alone'[u] => alone[u] /\ ~InCall(u)
        BY <1>1, <2>2
      <3>2. alone'[u] => ~InCall(u)'
        BY <1>9, <2>2, <3>1 DEF InCall
      <3>3. Kept(file, local[u], pc[u]) /\ (alone[u] => Ours(file, local[u], pc[u], ptr))
        BY DEF SInv
      <3> QED BY <1>9, <2>2, <3>1, <3>2, <3>3
    <2> QED BY <2>1, <2>2
  <1>11. alone' \in [Threads -> BOOLEAN]
    <2>1. ASSUME NEW u \in Threads
          PROVE  (IF u = t THEN \A v \in Threads \ {t} : ~InCall(v)
                  ELSE alone[u] /\ ~InCall(u)) \in BOOLEAN
      <3>1. alone[u] \in BOOLEAN
        BY DEF SInv
      <3> QED BY <3>1
    <2> QED BY <1>1, <2>1
  <1>12. InFile(file', ptr') /\ up' \in BOOLEAN
    BY <1>1 DEF SInv
  <1>13. \A u \in Threads :
           /\ Kept(file', local'[u], pc'[u])
           /\ alone'[u] => Ours(file', local'[u], pc'[u], ptr')
           /\ alone'[u] /\ InCall(u)' => Solitary(u)'
    BY <1>1, <1>10
  <1> QED BY <1>11, <1>12, <1>13 DEF SInv

LEMMA StutterStrings ==
    ASSUME SInv, IInv', file' = file, ptr' = ptr, local' = local, pc' = pc, alone' = alone,
           up' \in BOOLEAN
    PROVE  SInv'
  <1>1. \A t \in Threads :
           /\ Kept(file', local'[t], pc'[t])
           /\ alone'[t] => Ours(file', local'[t], pc'[t], ptr')
    BY DEF SInv
  <1>2. \A t \in Threads : alone'[t] /\ InCall(t)' => Solitary(t)'
    BY DEF SInv, Solitary, InCall
  <1>3. InFile(file', ptr') /\ alone' \in [Threads -> BOOLEAN]
    BY DEF SInv
  <1> QED BY <1>1, <1>2, <1>3 DEF SInv

LEMMA InitStrings == Init => SInv
  <1> SUFFICES ASSUME Init PROVE SInv
    OBVIOUS
  <1>1. file.n \in Nat /\ file.n > 0
    BY FilesAssumption DEF Init, IsDataFile
  <1>2. InFile(file, ptr) /\ alone \in [Threads -> BOOLEAN] /\ up \in BOOLEAN
    BY DEF Init, InFile
  <1>3. InFile(file, Wild)
    BY DEF InFile
  <1>4. ASSUME NEW t \in Threads
        PROVE  /\ Kept(file, local[t], pc[t]) /\ Ours(file, local[t], pc[t], ptr)
               /\ ~InCall(t)
    <2>1. local[t] = Idle /\ pc[t] = "idle"
      BY DEF Init
    <2>2. /\ Idle.op = "query" /\ Idle.key = 0 /\ Idle.cur = Wild /\ Idle.data = Wild
          /\ Idle.strs = <<>> /\ Len(Idle.strs) = 0 /\ Idle.strs \in Seq(Texts)
      BY DEF Idle
    <2>3. "idle" \notin Copying \cup Plain \cup {"range"}
      BY DEF Copying, Plain, Searching, Behind, Loading
    <2>4. Kept(file, Idle, "idle")
      <3>1. Serves(Idle.op)
        BY <2>2 DEF Serves
      <3> QED BY <1>1, <1>3, <2>2, <2>3, <3>1, FieldFacts DEF Kept
    <2>5. Ours(file, Idle, "idle", ptr)
      BY <2>2 DEF Ours
    <2> QED BY <2>1, <2>4, <2>5 DEF InCall
  <1>5. IInv
    BY InitInv
  <1> QED BY <1>2, <1>4, <1>5 DEF SInv

LEMMA NextStrings == SInv /\ [Next]_vars => SInv'
  <1> SUFFICES ASSUME SInv, [Next]_vars PROVE SInv'
    OBVIOUS
  <1>1. IInv'
    BY NextInv DEF SInv
  <1>2. CASE UNCHANGED vars
    BY <1>1, <1>2, StutterStrings DEF vars, SInv
  <1>3. CASE Next
    <2>1. PICK t \in Threads : \/ \E q \in Requests : Call(t, q[1], q[2])
                               \/ Step(t)
                               \/ Die(t)
      BY <1>3 DEF Next
    <2>2. CASE \E q \in Requests : Call(t, q[1], q[2])
      BY <1>1, <2>2, CallStrings
    <2>3. CASE Lookup(t)
      BY <1>1, <2>3, LookupStrings
    <2>4. CASE Read(t)
      BY <1>1, <2>4, KeyedStrings, SeekStrings, RangeStrings, BumpStrings, StringSteps DEF Read
    <2>5. CASE Die(t)
      BY <1>1, <2>5, StutterStrings DEF Die
    <2> QED BY <2>1, <2>2, <2>3, <2>4, <2>5 DEF Step
  <1> QED BY <1>2, <1>3

\* The invariant of the strings and the cursor.
THEOREM StringsInvariance == Spec => []SInv
  BY InitStrings, NextStrings, PTL DEF Spec
-----------------------------------------------------------------------------
\* The types: in particular the cursor, which every thread moves without a lock
\* (bbip.c:58, bbip.c:125), never points into the middle of anything but at the one
\* position that stands for all such bytes, and no call reads more strings than
\* a record has.
THEOREM TypeCorrect == Spec => []TypeOK
  <1>1. SInv => TypeOK
    <2> SUFFICES ASSUME SInv PROVE TypeOK
      OBVIOUS
    <2>1. \A p : InFile(file, p) = IsPosition(p)
      BY DEF InFile, IsPosition
    <2>2. file \in Files /\ index \in [Arrays -> [0..file.n -> Nat]]
      BY DEF SInv, IInv, Shared
    <2>3. \A array \in {"start", "end", "ptr"} : \A s \in 0..file.n : index[array][s] \in Nat
      BY <2>2 DEF Arrays
    <2>4. pc \in [Threads -> {"idle", "loop", "aim", "load", "save", "equal", "order", "start",
                              "end", "decide", "keyed", "seek", "range", "len", "bump", "data",
                              "add", "skip", "done"}]
      <3>1. Labels = {"idle", "loop", "aim", "load", "save", "equal", "order", "start", "end",
                      "decide", "keyed", "seek", "range", "len", "bump", "data", "add", "skip",
                      "done"}
        BY DEF Labels, Searching, Behind, Copying, Loading
      <3> QED BY <3>1 DEF SInv, IInv
    <2>5. ASSUME NEW t \in Threads
          PROVE  /\ local[t].op \in Ops /\ local[t].ip \in Addr
                 /\ local[t].key \in 0..(file.n - 1)
                 /\ IsPosition(local[t].cur) /\ IsPosition(local[t].data)
                 /\ Len(local[t].strs) <= Len(Fields)
      <3>1. PICK S : local[t] \in Locals(S)
        BY DEF SInv, IInv, Typed
      <3>2. Kept(file, local[t], pc[t])
        BY DEF SInv
      <3> QED BY <2>1, <3>1, <3>2 DEF Kept, Locals
    <2> QED BY <2>1, <2>2, <2>3, <2>4, <2>5 DEF TypeOK, SInv
  <1> QED BY <1>1, StringsInvariance, PTL

\* A call that no other overlaps answers with its own record's strings
\* (bbip_getstr, bbip.c:123), however many threads have left the cursor, and the
\* slots they load, in whatever place before.
THEOREM AloneIsRight == Spec => []AloneRight
  <1>1. SInv => AloneRight
    <2> SUFFICES ASSUME SInv, NEW t \in Threads, alone[t], pc[t] = "done", local[t].key # 0,
                        NEW i \in DOMAIN local[t].strs
                 PROVE  local[t].strs[i] = Str(local[t].key, i)
      BY DEF AloneRight, OwnStrings
    <2>1. local[t].strs \in Seq(Texts) /\ Ours(file, local[t], pc[t], ptr)
      BY DEF SInv, Kept
    <2>2. i \in 1..Len(local[t].strs)
      BY <2>1
    <2> QED BY <2>1, <2>2 DEF Ours, Str
  <1> QED BY <1>1, StringsInvariance, PTL
=============================================================================
