--------------------------- MODULE ZoneDataProofs ---------------------------
(***************************************************************************)
(* Proofs about the zone numbers, for every number of threads, all records *)
(* and all tables that satisfy TablesAssumption.                           *)
(*                                                                         *)
(* A thread carries the code it has still to run.  What is known of a      *)
(* field is said of that code: Leads, what the copy of the field will be   *)
(* when no other thread interferes; Past, where it can come from when      *)
(* others do.  Both are lemmas about sequences of instructions, which the  *)
(* steps then only cite.                                                   *)
(***************************************************************************)
EXTENDS ZoneData, SequenceTheorems, TLAPS

CountryFields == {"contient", "area", "country"}
ProvinceFields == {"province", "province_area", "isp"}

Instruction ==
    {StoreOf(f, v) : f \in FieldNames, v \in 0..255}
      \cup {CopyOf(fields) : fields \in SUBSET FieldNames} \cup {IfUnset}

IsStore(i, f) == i[1] = "store" /\ i[2] = f
IsCopy(i, f) == i[1] = "copy" /\ f \in i[2]

Stores(c, f) == \E p \in 1..Len(c) : IsStore(c[p], f)
Copies(c, f) == \E p \in 1..Len(c) : IsCopy(c[p], f)

\* The last store to f stores v.
Sets(c, f, v) ==
    \E l \in 1..Len(c) : /\ c[l] = StoreOf(f, v)
                         /\ \A m \in 1..Len(c) : m > l => ~IsStore(c[m], f)

\* The value v comes to f, and is then copied.
Delivers(c, f, v) ==
    \E p \in 1..Len(c) :
        /\ IsCopy(c[p], f)
        /\ \A q \in 1..Len(c) : q > p => ~IsCopy(c[q], f)
        /\ \E l \in 1..Len(c) :
              /\ l < p /\ c[l] = StoreOf(f, v)
              /\ \A m \in 1..Len(c) : l < m /\ m < p => ~IsStore(c[m], f)

\* The copy of f that c makes of a field that holds x.
CopiesNext(c, f) ==
    \E p \in 1..Len(c) :
        /\ IsCopy(c[p], f)
        /\ \A q \in 1..Len(c) : q > p => ~IsCopy(c[q], f)
        /\ \A l \in 1..Len(c) : l < p => ~IsStore(c[l], f)

\* When c is run from a state where the struct has x and the copy y in field f,
\* and nobody else runs, the copy has v in the end.
Leads(c, x, y, f, v) ==
    \/ Delivers(c, f, v)
    \/ CopiesNext(c, f) /\ x = v
    \/ ~Copies(c, f) /\ y = v

\* The code of a call of record r: what it stores is of that record, and the
\* test comes just before the last two copies.
CodeOf(c, r) ==
    /\ c \in Seq(Instruction)
    /\ \A i \in 1..Len(c) :
          /\ c[i][1] = "store" => c[i][3] \in MayHold(r, c[i][2])
          /\ c[i][1] = "test" =>
                /\ r.country = "Canada" /\ Len(c) = i + 2
                /\ c[i + 1] = CopyOf({"province", "province_area"})
                /\ c[i + 2] = CopyOf({"isp"})

Tests(c) == \E i \in 1..Len(c) : c[i][1] = "test"

\* What a field comes to: until the test nothing, when the province is not listed.
Aim(c, r, f) ==
    IF /\ Tests(c) /\ f \in {"province", "province_area"}
       /\ <<r.country, r.province>> \notin DOMAIN ProvinceZone
    THEN 0 ELSE ZoneOf(r)[f]

\* A store of f that a copy of f follows.
Renews(c, f) ==
    \E l \in 1..Len(c), p \in 1..Len(c) : l < p /\ IsStore(c[l], f) /\ IsCopy(c[p], f)

May(t, f) == UNION {MayHold(r, f) : r \in {rec[t]} \cup met[t]}

\* Field f of a thread's zone is not of an earlier call.
Past(t, f) ==
    \/ Renews(code[t], f)
    \/ Copies(code[t], f) /\ rc[f] \in May(t, f)
    \/ ~Copies(code[t], f) /\ own[t][f] \in May(t, f)

Typed ==
    /\ rc \in Zone
    /\ code \in [Threads -> Seq(Instruction)]
    /\ rec \in [Threads -> Records \cup {NoRecord}]
    /\ own \in [Threads -> Zone]
    /\ met \in [Threads -> SUBSET Records]

Running(t) == InCall(t) => rec[t] \in Records /\ CodeOf(code[t], rec[t])

\* Calls that overlap know of each other.
Overlap ==
    \A t, u \in Threads : t # u /\ InCall(t) /\ InCall(u) => rec[u] \in met[t]

Alone(t) ==
    met[t] = {} /\ (InCall(t) \/ rec[t] # NoRecord) =>
        \A f \in FieldNames :
            Leads(code[t], rc[f], own[t][f], f, Aim(code[t], rec[t], f))

IInv ==
    /\ Typed
    /\ \A t \in Threads : Running(t)
    /\ Overlap
    /\ \A t \in Threads : \A f \in FieldNames : Past(t, f)
    /\ \A t \in Threads : Alone(t)
-----------------------------------------------------------------------------
\* Sequences of instructions: the head, the tail and the concatenation.
LEMMA TailFacts ==
    ASSUME NEW c \in Seq(Instruction), c # <<>>
    PROVE  /\ Len(c) \in Nat /\ Len(c) > 0
           /\ Head(c) = c[1] /\ c[1] \in Instruction
           /\ Tail(c) \in Seq(Instruction) /\ Len(Tail(c)) = Len(c) - 1
           /\ \A i \in 1..(Len(c) - 1) : Tail(c)[i] = c[i + 1]
  <1>1. Len(c) \in Nat /\ Len(c) > 0
    BY EmptySeq, LenProperties
  <1>2. c[1] \in Instruction
    BY <1>1, ElementOfSeq
  <1>3. Head(c) = c[1]
    BY <1>1
  <1>4. /\ Tail(c) \in Seq(Instruction) /\ Len(Tail(c)) = Len(c) - 1
        /\ \A i \in 1..Len(Tail(c)) : Tail(c)[i] = c[i + 1]
    BY HeadTailProperties
  <1> QED BY <1>1, <1>2, <1>3, <1>4

\* What an instruction stores or copies.
LEMMA Instructions ==
    ASSUME NEW i \in Instruction, NEW f
    PROVE  /\ i[1] \in {"store", "copy", "test"}
           /\ i[1] = "store" => i = StoreOf(i[2], i[3]) /\ i[2] \in FieldNames
           /\ i[1] = "copy" => i[2] \in SUBSET FieldNames
           /\ IsStore(i, f) => i = StoreOf(f, i[3]) /\ ~IsCopy(i, f)
           /\ IsCopy(i, f) => ~IsStore(i, f)
  <1>1. CASE i \in {StoreOf(g, v) : g \in FieldNames, v \in 0..255}
    <2>1. PICK g \in FieldNames, v \in 0..255 : i = StoreOf(g, v)
      BY <1>1
    <2> QED BY <2>1 DEF IsStore, IsCopy, StoreOf
  <1>2. CASE i \in {CopyOf(fields) : fields \in SUBSET FieldNames}
    <2>1. PICK fields \in SUBSET FieldNames : i = CopyOf(fields)
      BY <1>2
    <2> QED BY <2>1 DEF IsStore, IsCopy, CopyOf
  <1>3. CASE i = IfUnset
    BY <1>3 DEF IsStore, IsCopy, IfUnset
  <1> QED BY <1>1, <1>2, <1>3 DEF Instruction

LEMMA CopiesTail ==
    ASSUME NEW c \in Seq(Instruction), c # <<>>, NEW f
    PROVE  Copies(c, f) <=> IsCopy(c[1], f) \/ Copies(Tail(c), f)
  <1>1. Copies(c, f) => IsCopy(c[1], f) \/ Copies(Tail(c), f)
    <2> SUFFICES ASSUME NEW p \in 1..Len(c), IsCopy(c[p], f), ~IsCopy(c[1], f)
                 PROVE  Copies(Tail(c), f)
      BY DEF Copies
    <2>1. p - 1 \in 1..Len(Tail(c)) /\ Tail(c)[p - 1] = c[p]
      BY TailFacts
    <2> QED BY <2>1 DEF Copies
  <1>2. Copies(Tail(c), f) => Copies(c, f)
    <2> SUFFICES ASSUME NEW p \in 1..Len(Tail(c)), IsCopy(Tail(c)[p], f)
                 PROVE  Copies(c, f)
      BY DEF Copies
    <2>1. p + 1 \in 1..Len(c) /\ Tail(c)[p] = c[p + 1]
      BY TailFacts
    <2> QED BY <2>1 DEF Copies
  <1>3. IsCopy(c[1], f) => Copies(c, f)
    BY TailFacts DEF Copies
  <1> QED BY <1>1, <1>2, <1>3

LEMMA CopiesNextTail ==
    ASSUME NEW c \in Seq(Instruction), c # <<>>, NEW f, CopiesNext(c, f)
    PROVE  /\ ~IsStore(c[1], f)
           /\ \/ IsCopy(c[1], f) /\ ~Copies(Tail(c), f)
              \/ CopiesNext(Tail(c), f)
  <1>0. /\ Len(c) \in Nat /\ Len(c) > 0 /\ c[1] \in Instruction
        /\ Len(Tail(c)) = Len(c) - 1
        /\ \A i \in 1..(Len(c) - 1) : Tail(c)[i] = c[i + 1]
    BY TailFacts
  <1>1. PICK p \in 1..Len(c) :
           /\ IsCopy(c[p], f)
           /\ \A q \in 1..Len(c) : q > p => ~IsCopy(c[q], f)
           /\ \A l \in 1..Len(c) : l < p => ~IsStore(c[l], f)
    BY DEF CopiesNext
  <1>2. CASE p = 1
    <2>1. ~Copies(Tail(c), f)
      BY <1>0, <1>1, <1>2 DEF Copies
    <2> QED BY <1>0, <1>1, <1>2, <2>1, Instructions
  <1>3. CASE p # 1
    <2>1. 1 \in 1..Len(c) /\ 1 < p
      BY <1>0, <1>3
    <2>2. p - 1 \in 1..Len(Tail(c)) /\ Tail(c)[p - 1] = c[p]
      BY <1>0, <2>1
    <2>3. \A q \in 1..Len(Tail(c)) : q > p - 1 => ~IsCopy(Tail(c)[q], f)
      BY <1>0, <1>1
    <2>4. \A l \in 1..Len(Tail(c)) : l < p - 1 => ~IsStore(Tail(c)[l], f)
      BY <1>0, <1>1
    <2>5. CopiesNext(Tail(c), f)
      BY <1>1, <2>2, <2>3, <2>4 DEF CopiesNext
    <2> QED BY <1>1, <2>1, <2>5
  <1> QED BY <1>2, <1>3

LEMMA CopiesNextCopies ==
    ASSUME NEW c, NEW f, CopiesNext(c, f)
    PROVE  Copies(c, f)
  BY DEF CopiesNext, Copies

LEMMA DeliversTail ==
    ASSUME NEW c \in Seq(Instruction), c # <<>>, NEW f, NEW v, Delivers(c, f, v)
    PROVE  \/ Delivers(Tail(c), f, v)
           \/ c[1] = StoreOf(f, v) /\ CopiesNext(Tail(c), f)
  <1>0. /\ Len(c) \in Nat /\ Len(c) > 0 /\ Len(Tail(c)) = Len(c) - 1
        /\ \A i \in 1..(Len(c) - 1) : Tail(c)[i] = c[i + 1]
    BY TailFacts
  <1>1. PICK p \in 1..Len(c) :
        /\ IsCopy(c[p], f)
        /\ \A q \in 1..Len(c) : q > p => ~IsCopy(c[q], f)
        /\ \E l \in 1..Len(c) :
              /\ l < p /\ c[l] = StoreOf(f, v)
              /\ \A m \in 1..Len(c) : l < m /\ m < p => ~IsStore(c[m], f)
    BY DEF Delivers
  <1>2. PICK l \in 1..Len(c) :
              /\ l < p /\ c[l] = StoreOf(f, v)
              /\ \A m \in 1..Len(c) : l < m /\ m < p => ~IsStore(c[m], f)
    BY <1>1
  <1>3. p - 1 \in 1..Len(Tail(c)) /\ Tail(c)[p - 1] = c[p]
    BY <1>0, <1>2
  <1>4. \A q \in 1..Len(Tail(c)) : q > p - 1 => ~IsCopy(Tail(c)[q], f)
    BY <1>0, <1>1
  <1>5. \A m \in 1..Len(Tail(c)) : l - 1 < m /\ m < p - 1 => ~IsStore(Tail(c)[m], f)
    BY <1>0, <1>2
  <1>6. CASE l = 1
    <2>1. \A m \in 1..Len(Tail(c)) : m < p - 1 => ~IsStore(Tail(c)[m], f)
      BY <1>5, <1>6
    <2>2. CopiesNext(Tail(c), f)
      BY <1>1, <1>3, <1>4, <2>1 DEF CopiesNext
    <2> QED BY <1>2, <1>6, <2>2
  <1>7. CASE l # 1
    <2>1. l - 1 \in 1..Len(Tail(c)) /\ Tail(c)[l - 1] = c[l] /\ l - 1 < p - 1
      BY <1>0, <1>2, <1>7
    <2>2. Delivers(Tail(c), f, v)
      BY <1>1, <1>2, <1>3, <1>4, <1>5, <2>1 DEF Delivers
    <2> QED BY <2>2
  <1> QED BY <1>6, <1>7

LEMMA RenewsTail ==
    ASSUME NEW c \in Seq(Instruction), c # <<>>, NEW f, Renews(c, f)
    PROVE  \/ Renews(Tail(c), f)
           \/ IsStore(c[1], f) /\ Copies(Tail(c), f)
  <1>0. /\ Len(c) \in Nat /\ Len(c) > 0 /\ Len(Tail(c)) = Len(c) - 1
        /\ \A i \in 1..(Len(c) - 1) : Tail(c)[i] = c[i + 1]
    BY TailFacts
  <1>1. PICK l \in 1..Len(c), p \in 1..Len(c) :
           l < p /\ IsStore(c[l], f) /\ IsCopy(c[p], f)
    BY DEF Renews
  <1>2. p - 1 \in 1..Len(Tail(c)) /\ Tail(c)[p - 1] = c[p]
    BY <1>0, <1>1
  <1>3. CASE l = 1
    BY <1>1, <1>2, <1>3 DEF Copies
  <1>4. CASE l # 1
    <2>1. l - 1 \in 1..Len(Tail(c)) /\ Tail(c)[l - 1] = c[l] /\ l - 1 < p - 1
      BY <1>0, <1>1, <1>4
    <2> QED BY <1>1, <1>2, <2>1 DEF Renews
  <1> QED BY <1>3, <1>4

LEMMA CodeTail ==
    ASSUME NEW c \in Seq(Instruction), c # <<>>, NEW r, CodeOf(c, r)
    PROVE  /\ CodeOf(Tail(c), r)
           /\ c[1][1] # "test" => (Tests(Tail(c)) <=> Tests(c))
           /\ c[1][1] = "test" => ~Tests(Tail(c))
  <1>0. /\ Len(c) \in Nat /\ Len(c) > 0 /\ Len(Tail(c)) = Len(c) - 1
        /\ \A i \in 1..(Len(c) - 1) : Tail(c)[i] = c[i + 1]
    BY TailFacts
  <1>1. ASSUME NEW i \in 1..Len(Tail(c))
        PROVE  /\ Tail(c)[i][1] = "store" => Tail(c)[i][3] \in MayHold(r, Tail(c)[i][2])
               /\ Tail(c)[i][1] = "test" =>
                     /\ r.country = "Canada" /\ Len(Tail(c)) = i + 2
                     /\ Tail(c)[i + 1] = CopyOf({"province", "province_area"})
                     /\ Tail(c)[i + 2] = CopyOf({"isp"})
    <2>1. i + 1 \in 1..Len(c) /\ Tail(c)[i] = c[i + 1]
      BY <1>0
    <2>2. Tail(c)[i][1] = "test" => /\ r.country = "Canada" /\ Len(c) = (i + 1) + 2
                                      /\ c[(i + 1) + 1] = CopyOf({"province", "province_area"})
                                      /\ c[(i + 1) + 2] = CopyOf({"isp"})
      BY <2>1 DEF CodeOf
    <2>3. Len(c) = (i + 1) + 2 => /\ Len(Tail(c)) = i + 2
                                  /\ Tail(c)[i + 1] = c[(i + 1) + 1]
                                  /\ Tail(c)[i + 2] = c[(i + 1) + 2]
      BY <1>0
    <2> QED BY <2>1, <2>2, <2>3 DEF CodeOf
  <1>2. CodeOf(Tail(c), r)
    BY <1>1, TailFacts DEF CodeOf
  <1>3. Tests(Tail(c)) => Tests(c)
    BY <1>0 DEF Tests
  <1>4. Tests(c) /\ c[1][1] # "test" => Tests(Tail(c))
    <2> SUFFICES ASSUME NEW i \in 1..Len(c), c[i][1] = "test", i # 1
                 PROVE  Tests(Tail(c))
      BY DEF Tests
    <2>1. i - 1 \in 1..Len(Tail(c)) /\ Tail(c)[i - 1] = c[i]
      BY <1>0
    <2> QED BY <2>1 DEF Tests
  <1>5. c[1][1] = "test" => ~Tests(Tail(c))
    <2> SUFFICES ASSUME c[1][1] = "test", NEW i \in 1..Len(Tail(c)),
                        Tail(c)[i][1] = "test"
                 PROVE  FALSE
      BY DEF Tests
    <2>1. i + 1 \in 1..Len(c) /\ Tail(c)[i] = c[i + 1] /\ 1 \in 1..Len(c)
      BY <1>0
    <2>2. \A j \in 1..Len(c) : c[j][1] = "test" => Len(c) = j + 2
      BY DEF CodeOf
    <2>3. 1 + 2 = (i + 1) + 2
      BY <2>1, <2>2
    <2>4. i \in Int /\ i >= 1
      BY <1>0
    <2>5. (i + 1) + 2 >= 4
      BY <2>4
    <2> QED BY <2>3, <2>5
  <1> QED BY <1>2, <1>3, <1>4, <1>5
-----------------------------------------------------------------------------
\* What is known of a and b, of a followed by b.
LEMMA Concat ==
    ASSUME NEW a \in Seq(Instruction), NEW b \in Seq(Instruction)
    PROVE  /\ a \o b \in Seq(Instruction)
           /\ Len(a) \in Nat /\ Len(b) \in Nat
           /\ Len(a \o b) = Len(a) + Len(b)
           /\ \A i \in 1..Len(a) : i \in 1..Len(a \o b) /\ (a \o b)[i] = a[i]
           /\ \A i \in 1..Len(b) : /\ Len(a) + i \in 1..Len(a \o b)
                                   /\ (a \o b)[Len(a) + i] = b[i]
           /\ \A i \in 1..Len(a \o b) : i \notin 1..Len(a) =>
                 i - Len(a) \in 1..Len(b) /\ (a \o b)[i] = b[i - Len(a)]
  <1>1. /\ a \o b \in Seq(Instruction)
        /\ Len(a \o b) = Len(a) + Len(b)
        /\ \A i \in 1..(Len(a) + Len(b)) :
              (a \o b)[i] = IF i <= Len(a) THEN a[i] ELSE b[i - Len(a)]
    BY ConcatProperties
  <1>2. Len(a) \in Nat /\ Len(b) \in Nat
    BY LenProperties
  <1> DEFINE ab == a \o b
  <1> HIDE DEF ab
  <1>3. /\ Len(ab) = Len(a) + Len(b)
        /\ \A i \in 1..(Len(a) + Len(b)) :
              ab[i] = IF i <= Len(a) THEN a[i] ELSE b[i - Len(a)]
    BY <1>1 DEF ab
  <1>4. \A i \in 1..Len(a) : i \in 1..Len(ab) /\ ab[i] = a[i]
    BY <1>2, <1>3
  <1>5. \A i \in 1..Len(b) : Len(a) + i \in 1..Len(ab) /\ ab[Len(a) + i] = b[i]
    <2> SUFFICES ASSUME NEW i \in 1..Len(b)
                 PROVE  Len(a) + i \in 1..Len(ab) /\ ab[Len(a) + i] = b[i]
      OBVIOUS
    <2>1. Len(a) + i \in 1..(Len(a) + Len(b)) /\ ~(Len(a) + i <= Len(a))
          /\ (Len(a) + i) - Len(a) = i
      BY <1>2
    <2> QED BY <1>3, <2>1
  <1>6. \A i \in 1..Len(ab) : i \notin 1..Len(a) =>
           i - Len(a) \in 1..Len(b) /\ ab[i] = b[i - Len(a)]
    BY <1>2, <1>3
  <1> QED BY <1>1, <1>2, <1>4, <1>5, <1>6 DEF ab

LEMMA StoresConcat ==
    ASSUME NEW a \in Seq(Instruction), NEW b \in Seq(Instruction), NEW f
    PROVE  Stores(a \o b, f) => Stores(a, f) \/ Stores(b, f)
  BY Concat DEF Stores

LEMMA CopiesConcat ==
    ASSUME NEW a \in Seq(Instruction), NEW b \in Seq(Instruction), NEW f
    PROVE  Copies(a \o b, f) => Copies(a, f) \/ Copies(b, f)
  BY Concat DEF Copies

LEMMA SetsConcat ==
    ASSUME NEW a \in Seq(Instruction), NEW b \in Seq(Instruction), NEW f, NEW v
    PROVE  /\ Sets(b, f, v) => Sets(a \o b, f, v)
           /\ Sets(a, f, v) /\ ~Stores(b, f) => Sets(a \o b, f, v)
  <1>1. Sets(b, f, v) => Sets(a \o b, f, v)
    <2> SUFFICES ASSUME NEW l \in 1..Len(b), b[l] = StoreOf(f, v),
                        \A m \in 1..Len(b) : m > l => ~IsStore(b[m], f)
                 PROVE  Sets(a \o b, f, v)
      BY DEF Sets
    <2>1. Len(a) + l \in 1..Len(a \o b) /\ (a \o b)[Len(a) + l] = StoreOf(f, v)
      BY Concat
    <2>2. ASSUME NEW m \in 1..Len(a \o b), m > Len(a) + l
          PROVE  ~IsStore((a \o b)[m], f)
      <3>1. m \notin 1..Len(a) /\ m - Len(a) > l
        BY <2>2, Concat
      <3>2. m - Len(a) \in 1..Len(b) /\ (a \o b)[m] = b[m - Len(a)]
        BY <3>1, Concat
      <3> QED BY <3>1, <3>2
    <2> QED BY <2>1, <2>2 DEF Sets
  <1>2. Sets(a, f, v) /\ ~Stores(b, f) => Sets(a \o b, f, v)
    <2> SUFFICES ASSUME ~Stores(b, f), NEW l \in 1..Len(a), a[l] = StoreOf(f, v),
                        \A m \in 1..Len(a) : m > l => ~IsStore(a[m], f)
                 PROVE  Sets(a \o b, f, v)
      BY DEF Sets
    <2>1. l \in 1..Len(a \o b) /\ (a \o b)[l] = StoreOf(f, v)
      BY Concat
    <2>2. ASSUME NEW m \in 1..Len(a \o b), m > l PROVE ~IsStore((a \o b)[m], f)
      <3>1. CASE m \in 1..Len(a)
        BY <2>2, <3>1, Concat
      <3>2. CASE m \notin 1..Len(a)
        BY <3>2, Concat DEF Stores
      <3> QED BY <3>1, <3>2
    <2> QED BY <2>1, <2>2 DEF Sets
  <1> QED BY <1>1, <1>2

\* What a sets and b copies, and nothing else, is delivered.
LEMMA Delivered ==
    ASSUME NEW a \in Seq(Instruction), NEW b \in Seq(Instruction), NEW f, NEW v,
           Sets(a, f, v), CopiesNext(b, f)
    PROVE  Delivers(a \o b, f, v)
  <1>1. PICK l \in 1..Len(a) : /\ a[l] = StoreOf(f, v)
                               /\ \A m \in 1..Len(a) : m > l => ~IsStore(a[m], f)
    BY DEF Sets
  <1>2. PICK p \in 1..Len(b) :
           /\ IsCopy(b[p], f)
           /\ \A q \in 1..Len(b) : q > p => ~IsCopy(b[q], f)
           /\ \A k \in 1..Len(b) : k < p => ~IsStore(b[k], f)
    BY DEF CopiesNext
  <1>3. /\ l \in 1..Len(a \o b) /\ (a \o b)[l] = StoreOf(f, v)
        /\ Len(a) + p \in 1..Len(a \o b) /\ (a \o b)[Len(a) + p] = b[p]
        /\ l < Len(a) + p
    BY <1>1, Concat
  <1>4. ASSUME NEW q \in 1..Len(a \o b), q > Len(a) + p PROVE ~IsCopy((a \o b)[q], f)
    <2>1. q \notin 1..Len(a) /\ q - Len(a) > p
      BY <1>4, Concat
    <2>2. q - Len(a) \in 1..Len(b) /\ (a \o b)[q] = b[q - Len(a)]
      BY <2>1, Concat
    <2> QED BY <1>2, <2>1, <2>2
  <1>5. ASSUME NEW m \in 1..Len(a \o b), l < m, m < Len(a) + p
        PROVE  ~IsStore((a \o b)[m], f)
    <2>1. CASE m \in 1..Len(a)
      BY <1>1, <1>5, <2>1, Concat
    <2>2. CASE m \notin 1..Len(a)
      <3>1. m - Len(a) \in 1..Len(b) /\ (a \o b)[m] = b[m - Len(a)] /\ m - Len(a) < p
        BY <1>5, <2>2, Concat
      <3> QED BY <1>2, <3>1
    <2> QED BY <2>1, <2>2
  <1> QED BY <1>2, <1>3, <1>4, <1>5 DEF Delivers

\* What one half delivers, both do.
LEMMA DeliversConcat ==
    ASSUME NEW a \in Seq(Instruction), NEW b \in Seq(Instruction), NEW f, NEW v
    PROVE  /\ Delivers(b, f, v) => Delivers(a \o b, f, v)
           /\ Delivers(a, f, v) /\ ~Copies(b, f) => Delivers(a \o b, f, v)
  <1>1. ASSUME Delivers(b, f, v) PROVE Delivers(a \o b, f, v)
    <2>1. PICK p \in 1..Len(b) :
           /\ IsCopy(b[p], f)
           /\ \A q \in 1..Len(b) : q > p => ~IsCopy(b[q], f)
           /\ \E l \in 1..Len(b) :
              /\ l < p /\ b[l] = StoreOf(f, v)
              /\ \A m \in 1..Len(b) : l < m /\ m < p => ~IsStore(b[m], f)
      BY <1>1 DEF Delivers
    <2>2. PICK l \in 1..Len(b) :
              /\ l < p /\ b[l] = StoreOf(f, v)
              /\ \A m \in 1..Len(b) : l < m /\ m < p => ~IsStore(b[m], f)
      BY <2>1
    <2>3. /\ Len(a) + l \in 1..Len(a \o b) /\ (a \o b)[Len(a) + l] = b[l]
          /\ Len(a) + p \in 1..Len(a \o b) /\ (a \o b)[Len(a) + p] = b[p]
          /\ Len(a) + l < Len(a) + p
      BY <2>2, Concat
    <2>4. ASSUME NEW q \in 1..Len(a \o b), q > Len(a) + p PROVE ~IsCopy((a \o b)[q], f)
      <3>1. q \notin 1..Len(a) /\ q - Len(a) > p
        BY <2>4, Concat
      <3>2. q - Len(a) \in 1..Len(b) /\ (a \o b)[q] = b[q - Len(a)]
        BY <3>1, Concat
      <3> QED BY <2>1, <3>1, <3>2
    <2>5. ASSUME NEW m \in 1..Len(a \o b), Len(a) + l < m, m < Len(a) + p
          PROVE  ~IsStore((a \o b)[m], f)
      <3>1. m \notin 1..Len(a) /\ l < m - Len(a) /\ m - Len(a) < p
        BY <2>5, Concat
      <3>2. m - Len(a) \in 1..Len(b) /\ (a \o b)[m] = b[m - Len(a)]
        BY <3>1, Concat
      <3> QED BY <2>2, <3>1, <3>2
    <2> QED BY <2>1, <2>2, <2>3, <2>4, <2>5 DEF Delivers
  <1>2. ASSUME Delivers(a, f, v), ~Copies(b, f) PROVE Delivers(a \o b, f, v)
    <2>1. PICK p \in 1..Len(a) :
           /\ IsCopy(a[p], f)
           /\ \A q \in 1..Len(a) : q > p => ~IsCopy(a[q], f)
           /\ \E l \in 1..Len(a) :
              /\ l < p /\ a[l] = StoreOf(f, v)
              /\ \A m \in 1..Len(a) : l < m /\ m < p => ~IsStore(a[m], f)
      BY <1>2 DEF Delivers
    <2>2. PICK l \in 1..Len(a) :
              /\ l < p /\ a[l] = StoreOf(f, v)
              /\ \A m \in 1..Len(a) : l < m /\ m < p => ~IsStore(a[m], f)
      BY <2>1
    <2>3. /\ l \in 1..Len(a \o b) /\ (a \o b)[l] = a[l]
          /\ p \in 1..Len(a \o b) /\ (a \o b)[p] = a[p]
      BY Concat
    <2>4. ASSUME NEW q \in 1..Len(a \o b), q > p PROVE ~IsCopy((a \o b)[q], f)
      <3>1. CASE q \in 1..Len(a)
        BY <2>1, <2>4, <3>1, Concat
      <3>2. CASE q \notin 1..Len(a)
        <4>1. q - Len(a) \in 1..Len(b) /\ (a \o b)[q] = b[q - Len(a)]
          BY <3>2, Concat
        <4> QED BY <1>2, <4>1 DEF Copies
      <3> QED BY <3>1, <3>2
    <2>5. ASSUME NEW m \in 1..Len(a \o b), l < m, m < p PROVE ~IsStore((a \o b)[m], f)
      <3>1. m \in 1..Len(a)
        BY <2>5, Concat
      <3> QED BY <2>2, <2>5, <3>1, Concat
    <2> QED BY <2>1, <2>2, <2>3, <2>4, <2>5 DEF Delivers
  <1> QED BY <1>1, <1>2

LEMMA DeliversRenews ==
    ASSUME NEW c, NEW f, NEW v, Delivers(c, f, v)
    PROVE  Renews(c, f) /\ Copies(c, f)
  BY DEF Delivers, Renews, Copies, IsStore, StoreOf

LEMMA CodeConcat ==
    ASSUME NEW a \in Seq(Instruction), NEW b \in Seq(Instruction), NEW r,
           CodeOf(a, r), ~Tests(a), CodeOf(b, r)
    PROVE  CodeOf(a \o b, r) /\ (Tests(a \o b) => Tests(b))
  <1>1. ASSUME NEW i \in 1..Len(a \o b)
        PROVE  /\ (a \o b)[i][1] = "store" => (a \o b)[i][3] \in MayHold(r, (a \o b)[i][2])
               /\ (a \o b)[i][1] = "test" =>
                     /\ i \notin 1..Len(a)
                     /\ r.country = "Canada" /\ Len(a \o b) = i + 2
                     /\ (a \o b)[i + 1] = CopyOf({"province", "province_area"})
                     /\ (a \o b)[i + 2] = CopyOf({"isp"})
    <2>1. CASE i \in 1..Len(a)
      <3>1. (a \o b)[i] = a[i]
        BY <2>1, Concat
      <3> QED BY <2>1, <3>1 DEF CodeOf, Tests
    <2>2. CASE i \notin 1..Len(a)
      <3> DEFINE j == i - Len(a)
      <3>1. j \in 1..Len(b) /\ (a \o b)[i] = b[j]
        BY <2>2, Concat
      <3>2. b[j][1] = "test" => /\ r.country = "Canada" /\ Len(b) = j + 2
                                /\ b[j + 1] = CopyOf({"province", "province_area"})
                                /\ b[j + 2] = CopyOf({"isp"})
        BY <3>1 DEF CodeOf
      <3>3. Len(b) = j + 2 => /\ Len(a \o b) = i + 2
                              /\ (a \o b)[i + 1] = b[j + 1] /\ (a \o b)[i + 2] = b[j + 2]
        <4> SUFFICES ASSUME Len(b) = j + 2
                     PROVE  /\ Len(a \o b) = i + 2
                            /\ (a \o b)[i + 1] = b[j + 1] /\ (a \o b)[i + 2] = b[j + 2]
          OBVIOUS
        <4>1. /\ j + 1 \in 1..Len(b) /\ j + 2 \in 1..Len(b)
              /\ Len(a) + (j + 1) = i + 1 /\ Len(a) + (j + 2) = i + 2
          BY <3>1, Concat
        <4>2. Len(a \o b) = i + 2
          BY <4>1, Concat
        <4>3. (a \o b)[Len(a) + (j + 1)] = b[j + 1] /\ (a \o b)[Len(a) + (j + 2)] = b[j + 2]
          BY <4>1, Concat
        <4> QED BY <4>1, <4>2, <4>3
      <3>4. b[j][1] = "store" => b[j][3] \in MayHold(r, b[j][2])
        BY <3>1 DEF CodeOf
      <3> QED BY <2>2, <3>1, <3>2, <3>3, <3>4
    <2> QED BY <2>1, <2>2
  <1>2. Tests(a \o b) => Tests(b)
    BY Concat DEF Tests, CodeOf
  <1> QED BY <1>1, <1>2, Concat DEF CodeOf

LEMMA Associative ==
    ASSUME NEW a \in Seq(Instruction), NEW b \in Seq(Instruction), NEW c \in Seq(Instruction)
    PROVE  (a \o b) \o c = a \o (b \o c)
  <1>1. \A S : \A s, t, u \in Seq(S) : (s \o t) \o u = s \o (t \o u)
    BY ConcatAssociative
  <1> QED BY <1>1
-----------------------------------------------------------------------------
\* The parts the programs are made of.
LEMMA ThreeStores ==
    ASSUME NEW f \in FieldNames, NEW g \in FieldNames, NEW h \in FieldNames,
           f # g, g # h, f # h, NEW r,
           NEW u \in MayHold(r, f), NEW v \in MayHold(r, g), NEW w \in MayHold(r, h),
           u \in 0..255, v \in 0..255, w \in 0..255
    PROVE  LET c == <<StoreOf(f, u), StoreOf(g, v), StoreOf(h, w)>>
           IN  /\ c \in Seq(Instruction) /\ CodeOf(c, r) /\ ~Tests(c)
               /\ Sets(c, f, u) /\ Sets(c, g, v) /\ Sets(c, h, w)
               /\ \A x : ~Copies(c, x)
  <1> DEFINE c == <<StoreOf(f, u), StoreOf(g, v), StoreOf(h, w)>>
  <1>1. StoreOf(f, u) \in Instruction /\ StoreOf(g, v) \in Instruction
        /\ StoreOf(h, w) \in Instruction
    BY DEF Instruction
  <1>2. c \in Seq(Instruction)
    BY <1>1
  <1>3. Len(c) = 3 /\ c[1] = StoreOf(f, u) /\ c[2] = StoreOf(g, v) /\ c[3] = StoreOf(h, w)
    OBVIOUS
  <1> HIDE DEF c
  <1>4. CodeOf(c, r) /\ ~Tests(c)
    BY <1>2, <1>3 DEF CodeOf, Tests, StoreOf
  <1>5. Sets(c, f, u) /\ Sets(c, g, v) /\ Sets(c, h, w)
    BY <1>3 DEF Sets, IsStore, StoreOf
  <1>6. \A x : ~Copies(c, x)
    BY <1>3 DEF Copies, IsCopy, StoreOf
  <1> QED BY <1>2, <1>4, <1>5, <1>6 DEF c

LEMMA TwoStores ==
    ASSUME NEW f \in FieldNames, NEW g \in FieldNames, f # g, NEW r,
           NEW u \in MayHold(r, f), NEW v \in MayHold(r, g),
           u \in 0..255, v \in 0..255
    PROVE  LET c == <<StoreOf(f, u), StoreOf(g, v)>>
           IN  /\ c \in Seq(Instruction) /\ CodeOf(c, r) /\ ~Tests(c)
               /\ Sets(c, f, u) /\ Sets(c, g, v)
               /\ \A x : ~Copies(c, x) /\ (x \notin {f, g} => ~Stores(c, x))
  <1> DEFINE c == <<StoreOf(f, u), StoreOf(g, v)>>
  <1>1. StoreOf(f, u) \in Instruction /\ StoreOf(g, v) \in Instruction
    BY DEF Instruction
  <1>2. c \in Seq(Instruction)
    BY <1>1
  <1>3. Len(c) = 2 /\ c[1] = StoreOf(f, u) /\ c[2] = StoreOf(g, v)
    OBVIOUS
  <1> HIDE DEF c
  <1>4. CodeOf(c, r) /\ ~Tests(c)
    BY <1>2, <1>3 DEF CodeOf, Tests, StoreOf
  <1>5. Sets(c, f, u) /\ Sets(c, g, v)
    BY <1>3 DEF Sets, IsStore, StoreOf
  <1>6. \A x : ~Copies(c, x) /\ (x \notin {f, g} => ~Stores(c, x))
    BY <1>3 DEF Copies, IsCopy, Stores, IsStore, StoreOf
  <1> QED BY <1>2, <1>4, <1>5, <1>6 DEF c

LEMMA OneStore ==
    ASSUME NEW f \in FieldNames, NEW r, NEW u \in MayHold(r, f), u \in 0..255
    PROVE  LET c == <<StoreOf(f, u)>>
           IN  /\ c \in Seq(Instruction) /\ CodeOf(c, r) /\ ~Tests(c) /\ Sets(c, f, u)
               /\ \A x : ~Copies(c, x) /\ (x # f => ~Stores(c, x))
  <1> DEFINE c == <<StoreOf(f, u)>>
  <1>1. StoreOf(f, u) \in Instruction
    BY DEF Instruction
  <1>2. c \in Seq(Instruction)
    BY <1>1
  <1>3. Len(c) = 1 /\ c[1] = StoreOf(f, u)
    OBVIOUS
  <1> HIDE DEF c
  <1>4. CodeOf(c, r) /\ ~Tests(c)
    BY <1>2, <1>3 DEF CodeOf, Tests, StoreOf
  <1>5. Sets(c, f, u)
    BY <1>3 DEF Sets, IsStore, StoreOf
  <1>6. \A x : ~Copies(c, x) /\ (x # f => ~Stores(c, x))
    BY <1>3 DEF Copies, IsCopy, Stores, IsStore, StoreOf
  <1> QED BY <1>2, <1>4, <1>5, <1>6 DEF c

LEMMA NoInstruction ==
    ASSUME NEW r
    PROVE  /\ <<>> \in Seq(Instruction) /\ CodeOf(<<>>, r) /\ ~Tests(<<>>)
           /\ \A x : ~Copies(<<>>, x) /\ ~Stores(<<>>, x)
  BY DEF CodeOf, Tests, Copies, Stores

LEMMA TwoCopies ==
    ASSUME NEW S \in SUBSET FieldNames, NEW T \in SUBSET FieldNames, S \cap T = {}, NEW r
    PROVE  LET c == <<CopyOf(S), CopyOf(T)>>
           IN  /\ c \in Seq(Instruction) /\ CodeOf(c, r) /\ ~Tests(c)
               /\ \A x \in S \cup T : CopiesNext(c, x)
               /\ \A x : x \notin S \cup T => ~Copies(c, x)
  <1> DEFINE c == <<CopyOf(S), CopyOf(T)>>
  <1>1. CopyOf(S) \in Instruction /\ CopyOf(T) \in Instruction
    BY DEF Instruction
  <1>2. c \in Seq(Instruction)
    BY <1>1
  <1>3. Len(c) = 2 /\ c[1] = CopyOf(S) /\ c[2] = CopyOf(T)
    OBVIOUS
  <1> HIDE DEF c
  <1>4. CodeOf(c, r) /\ ~Tests(c)
    BY <1>2, <1>3 DEF CodeOf, Tests, CopyOf
  <1>5. \A x \in S \cup T : CopiesNext(c, x)
    <2> SUFFICES ASSUME NEW x \in S \cup T PROVE CopiesNext(c, x)
      OBVIOUS
    <2>1. CASE x \in S
      <3>1. IsCopy(c[1], x) /\ ~IsCopy(c[2], x)
        BY <1>3, <2>1 DEF IsCopy, CopyOf
      <3> QED BY <1>3, <3>1 DEF CopiesNext
    <2>2. CASE x \in T
      <3>1. IsCopy(c[2], x) /\ ~IsStore(c[1], x)
        BY <1>3, <2>2 DEF IsCopy, IsStore, CopyOf
      <3> QED BY <1>3, <3>1 DEF CopiesNext
    <2> QED BY <2>1, <2>2
  <1>6. \A x : x \notin S \cup T => ~Copies(c, x)
    BY <1>3 DEF Copies, IsCopy, CopyOf
  <1> QED BY <1>2, <1>4, <1>5, <1>6 DEF c

\* The test and what comes behind it.
LEMMA TestAndCopies ==
    ASSUME NEW r, r.country = "Canada"
    PROVE  LET c == <<IfUnset>> \o <<CopyOf({"province", "province_area"}), CopyOf({"isp"})>>
           IN  /\ <<IfUnset>> \in Seq(Instruction)
               /\ c \in Seq(Instruction) /\ CodeOf(c, r) /\ Tests(c)
               /\ \A x \in ProvinceFields : CopiesNext(c, x)
               /\ \A x : x \notin ProvinceFields => ~Copies(c, x)
  <1> DEFINE e == <<CopyOf({"province", "province_area"}), CopyOf({"isp"})>>
             i == <<IfUnset>>
             c == i \o e
  <1>1. e \in Seq(Instruction)
    BY TwoCopies DEF FieldNames
  <1>2. Len(e) = 2 /\ e[1] = CopyOf({"province", "province_area"}) /\ e[2] = CopyOf({"isp"})
    OBVIOUS
  <1>3. i \in Seq(Instruction) /\ Len(i) = 1 /\ i[1] = IfUnset
    BY DEF Instruction
  <1> HIDE DEF e, i
  <1>4. c \in Seq(Instruction) /\ Len(c) = 3
    <2>1. c \in Seq(Instruction) /\ Len(c) = Len(i) + Len(e)
      BY <1>1, <1>3, Concat
    <2> QED BY <1>2, <1>3, <2>1
  <1>5. c[1] = IfUnset
    BY <1>1, <1>3, Concat
  <1>6. c[2] = CopyOf({"province", "province_area"}) /\ c[3] = CopyOf({"isp"})
    <2>1. 1 \in 1..Len(e) /\ 2 \in 1..Len(e) /\ Len(i) + 1 = 2 /\ Len(i) + 2 = 3
      BY <1>2, <1>3
    <2>2. c[Len(i) + 1] = e[1] /\ c[Len(i) + 2] = e[2]
      BY <1>1, <1>3, <2>1, Concat
    <2> QED BY <1>2, <2>1, <2>2
  <1> HIDE DEF c
  <1>7. CodeOf(c, r) /\ Tests(c)
    BY <1>4, <1>5, <1>6 DEF CodeOf, Tests, CopyOf, IfUnset
  <1>8. \A x \in ProvinceFields : CopiesNext(c, x)
    <2> SUFFICES ASSUME NEW x \in ProvinceFields PROVE CopiesNext(c, x)
      OBVIOUS
    <2>0. ~IsStore(c[1], x) /\ ~IsStore(c[2], x)
      BY <1>5, <1>6 DEF IsStore, IfUnset, CopyOf
    <2>1. CASE x # "isp"
      <3>1. IsCopy(c[2], x) /\ ~IsCopy(c[3], x)
        BY <1>6, <2>1 DEF IsCopy, CopyOf, ProvinceFields
      <3> QED BY <1>4, <2>0, <3>1 DEF CopiesNext
    <2>2. CASE x = "isp"
      <3>1. IsCopy(c[3], x)
        BY <1>6, <2>2 DEF IsCopy, CopyOf
      <3> QED BY <1>4, <2>0, <3>1 DEF CopiesNext
    <2> QED BY <2>1, <2>2
  <1>9. \A x : x \notin ProvinceFields => ~Copies(c, x)
    BY <1>4, <1>5, <1>6 DEF Copies, IsCopy, CopyOf, IfUnset, ProvinceFields
  <1> QED BY <1>3, <1>4, <1>7, <1>8, <1>9 DEF c, i, e

\* What the tables give fits the fields.
Width ==
    [contient |-> 0..6, area |-> 0..7, country |-> 0..63,
     province |-> 0..255, province_area |-> 0..15, isp |-> 0..63]

LEMMA ZoneFits ==
    ASSUME NEW r
    PROVE  /\ ZoneOf(r).contient \in 0..6 /\ ZoneOf(r).area \in 0..7
           /\ ZoneOf(r).country \in 0..63 /\ ZoneOf(r).province \in 0..255
           /\ ZoneOf(r).province_area \in 0..15 /\ ZoneOf(r).isp \in 0..63
  <1>1. r.country \in DOMAIN CountryZone =>
           /\ CountryZone[r.country].contient \in 0..6
           /\ CountryZone[r.country].area \in 0..7
           /\ CountryZone[r.country].country \in 0..63
    BY TablesAssumption
  <1>2. <<r.country, r.province>> \in DOMAIN ProvinceZone =>
           /\ ProvinceZone[<<r.country, r.province>>].province \in 0..255
           /\ ProvinceZone[<<r.country, r.province>>].province_area \in 0..15
    BY TablesAssumption
  <1>3. Isp(r) \in 0..63
    BY TablesAssumption DEF Isp
  <1> QED BY <1>1, <1>2, <1>3 DEF ZoneOf

LEMMA MayHoldFits ==
    ASSUME NEW r, NEW f \in FieldNames
    PROVE  /\ MayHold(r, f) \subseteq Width[f] /\ MayHold(r, f) \subseteq 0..255
           /\ 0 \in MayHold(r, f) /\ ZoneOf(r)[f] \in MayHold(r, f)
  <1>1. ZoneOf(r)[f] \in Width[f] /\ Width[f] \subseteq 0..255 /\ 0 \in Width[f]
    BY ZoneFits DEF Width, FieldNames
  <1>2. (f = "province" => 255 \in Width[f]) /\ (f = "province_area" => 15 \in Width[f])
    BY DEF Width
  <1> QED BY <1>1, <1>2 DEF MayHold
-----------------------------------------------------------------------------
\* The programs of a call.
LEMMA CountryDelivers ==
    ASSUME NEW r
    PROVE  /\ CountryProgram(r) \in Seq(Instruction) /\ CodeOf(CountryProgram(r), r)
           /\ ~Tests(CountryProgram(r))
           /\ \A f \in CountryFields : Delivers(CountryProgram(r), f, ZoneOf(r)[f])
  <1> DEFINE A == Clear("contient", "area", "country")
             B == IF r.country \in DOMAIN CountryZone
                  THEN LET z == CountryZone[r.country]
                       IN  <<StoreOf("contient", z.contient), StoreOf("area", z.area),
                             StoreOf("country", z.country)>>
                  ELSE <<>>
             C == <<CopyOf({"contient", "area"}), CopyOf({"country"})>>
  <1>0. /\ {"contient", "area", "country"} \subseteq FieldNames
        /\ \A f \in FieldNames : 0 \in MayHold(r, f) /\ 0 \in 0..255
    BY MayHoldFits DEF FieldNames
  <1>1. /\ A \in Seq(Instruction) /\ CodeOf(A, r) /\ ~Tests(A)
        /\ \A f \in CountryFields : Sets(A, f, 0)
    BY <1>0, ThreeStores DEF Clear, CountryFields
  <1>2. /\ C \in Seq(Instruction) /\ CodeOf(C, r) /\ ~Tests(C)
        /\ \A f \in CountryFields : CopiesNext(C, f)
    BY <1>0, TwoCopies DEF CountryFields
  <1>3. /\ B \in Seq(Instruction) /\ CodeOf(B, r) /\ ~Tests(B)
        /\ \A f \in CountryFields : Sets(A \o B, f, ZoneOf(r)[f])
    <2>1. CASE r.country \in DOMAIN CountryZone
      <3> DEFINE z == CountryZone[r.country]
      <3>1. /\ z.contient = ZoneOf(r)["contient"] /\ z.area = ZoneOf(r)["area"]
            /\ z.country = ZoneOf(r)["country"]
        BY <2>1 DEF ZoneOf
      <3>2. \A f \in CountryFields : ZoneOf(r)[f] \in MayHold(r, f) /\ ZoneOf(r)[f] \in 0..255
        BY <1>0, MayHoldFits DEF CountryFields
      <3>3. B = <<StoreOf("contient", ZoneOf(r)["contient"]), StoreOf("area", ZoneOf(r)["area"]),
                  StoreOf("country", ZoneOf(r)["country"])>>
        BY <2>1, <3>1
      <3> HIDE DEF B
      <3>4. /\ B \in Seq(Instruction) /\ CodeOf(B, r) /\ ~Tests(B)
            /\ \A f \in CountryFields : Sets(B, f, ZoneOf(r)[f])
        BY <1>0, <3>2, <3>3, ThreeStores DEF CountryFields
      <3> QED BY <1>1, <3>4, SetsConcat
    <2>2. CASE r.country \notin DOMAIN CountryZone
      <3>1. B = <<>>
        BY <2>2
      <3>2. \A f \in CountryFields : ZoneOf(r)[f] = 0
        BY <2>2 DEF ZoneOf, CountryFields
      <3> HIDE DEF B
      <3>3. B \in Seq(Instruction) /\ CodeOf(B, r) /\ ~Tests(B) /\ \A x : ~Stores(B, x)
        BY <3>1, NoInstruction
      <3> QED BY <1>1, <3>2, <3>3, SetsConcat
    <2> QED BY <2>1, <2>2
  <1>4. CountryProgram(r) = (A \o B) \o C
    BY DEF CountryProgram
  <1> HIDE DEF A, B, C
  <1>5. A \o B \in Seq(Instruction) /\ CodeOf(A \o B, r) /\ ~Tests(A \o B)
    BY <1>1, <1>3, CodeConcat, Concat
  <1>6. (A \o B) \o C \in Seq(Instruction) /\ CodeOf((A \o B) \o C, r)
        /\ ~Tests((A \o B) \o C)
    BY <1>2, <1>5, CodeConcat, Concat
  <1>7. \A f \in CountryFields : Delivers((A \o B) \o C, f, ZoneOf(r)[f])
    BY <1>2, <1>3, <1>5, Delivered
  <1> QED BY <1>4, <1>6, <1>7

\* FindProvince stores the zone's fields, or nothing.
LEMMA Province ==
    ASSUME NEW r, r.country \in {"China", "Canada"}
    PROVE  LET p == FindProvince(r)
               listed == <<r.country, r.province>> \in DOMAIN ProvinceZone
           IN  /\ p \in Seq(Instruction) /\ CodeOf(p, r) /\ ~Tests(p)
               /\ \A x : ~Copies(p, x)
               /\ ~Stores(p, "isp")
               /\ listed => \A f \in {"province", "province_area"} : Sets(p, f, ZoneOf(r)[f])
               /\ ~listed => \A x : ~Stores(p, x)
  <1>1. CASE <<r.country, r.province>> \in DOMAIN ProvinceZone
    <2>1. FindProvince(r) = <<StoreOf("province", ZoneOf(r)["province"]),
                              StoreOf("province_area", ZoneOf(r)["province_area"])>>
      BY <1>1 DEF FindProvince, ZoneOf
    <2>2. /\ {"province", "province_area"} \subseteq FieldNames
          /\ \A f \in {"province", "province_area"} :
                ZoneOf(r)[f] \in MayHold(r, f) /\ ZoneOf(r)[f] \in 0..255
      BY MayHoldFits DEF FieldNames
    <2> QED BY <1>1, <2>1, <2>2, TwoStores
  <1>2. CASE <<r.country, r.province>> \notin DOMAIN ProvinceZone
    <2>1. FindProvince(r) = <<>>
      BY <1>2 DEF FindProvince
    <2> QED BY <1>2, <2>1, NoInstruction
  <1> QED BY <1>1, <1>2

LEMMA OtherProvinceFacts ==
    ASSUME NEW r, r.country \in {"China", "Canada"}
    PROVE  /\ OtherProvince \in Seq(Instruction) /\ CodeOf(OtherProvince, r)
           /\ ~Tests(OtherProvince)
           /\ Sets(OtherProvince, "province", 255) /\ Sets(OtherProvince, "province_area", 15)
           /\ \A x : ~Copies(OtherProvince, x)
  <1>1. 255 \in MayHold(r, "province") /\ 15 \in MayHold(r, "province_area")
    BY DEF MayHold
  <1>2. "province" \in FieldNames /\ "province_area" \in FieldNames
        /\ 255 \in 0..255 /\ 15 \in 0..255
    BY DEF FieldNames
  <1> QED BY <1>1, <1>2, TwoStores DEF OtherProvince

\* The copies at the end.
LEMMA LastCopies ==
    ASSUME NEW r
    PROVE  LET c == <<CopyOf({"province", "province_area"}), CopyOf({"isp"})>>
           IN  /\ c \in Seq(Instruction) /\ CodeOf(c, r) /\ ~Tests(c)
               /\ \A f \in ProvinceFields : CopiesNext(c, f)
               /\ \A x : x \notin ProvinceFields => ~Copies(c, x)
  BY TwoCopies DEF FieldNames, ProvinceFields

LEMMA ProvinceDelivers ==
    ASSUME NEW r
    PROVE  /\ ProvinceProgram(r) \in Seq(Instruction) /\ CodeOf(ProvinceProgram(r), r)
           /\ \A f \in CountryFields : ~Copies(ProvinceProgram(r), f)
           /\ \A f \in ProvinceFields :
                 Delivers(ProvinceProgram(r), f, Aim(ProvinceProgram(r), r, f))
  <1> DEFINE A == Clear("province", "province_area", "isp")
             P == FindProvince(r)
             C == <<CopyOf({"province", "province_area"}), CopyOf({"isp"})>>
             listed == <<r.country, r.province>> \in DOMAIN ProvinceZone
  <1>0. /\ {"province", "province_area", "isp"} \subseteq FieldNames
        /\ \A f \in FieldNames : 0 \in MayHold(r, f) /\ 0 \in 0..255
        /\ \A f \in CountryFields : f \notin ProvinceFields
    BY MayHoldFits DEF FieldNames, CountryFields, ProvinceFields
  <1>1. /\ A \in Seq(Instruction) /\ CodeOf(A, r) /\ ~Tests(A)
        /\ \A f \in ProvinceFields : Sets(A, f, 0)
        /\ \A x : ~Copies(A, x)
    BY <1>0, ThreeStores DEF Clear, ProvinceFields
  <1>2. /\ C \in Seq(Instruction) /\ CodeOf(C, r) /\ ~Tests(C)
        /\ \A f \in ProvinceFields : CopiesNext(C, f)
        /\ \A x : x \notin ProvinceFields => ~Copies(C, x)
    BY LastCopies
  <1>3. CASE r.country = "Canada"
    <2> DEFINE T == <<IfUnset>>
    <2>1. ProvinceProgram(r) = (A \o (P \o T)) \o C
      BY <1>3 DEF ProvinceProgram
    <2>2. /\ T \in Seq(Instruction)
          /\ T \o C \in Seq(Instruction) /\ CodeOf(T \o C, r) /\ Tests(T \o C)
          /\ \A x \in ProvinceFields : CopiesNext(T \o C, x)
          /\ \A x : x \notin ProvinceFields => ~Copies(T \o C, x)
      BY <1>3, TestAndCopies
    <2>3. /\ P \in Seq(Instruction) /\ CodeOf(P, r) /\ ~Tests(P)
          /\ \A x : ~Copies(P, x)
          /\ ~Stores(P, "isp")
          /\ listed => \A f \in {"province", "province_area"} : Sets(P, f, ZoneOf(r)[f])
          /\ ~listed => \A x : ~Stores(P, x)
      BY <1>3, Province
    <2> HIDE DEF A, P, C, T, listed
    <2>4. (A \o (P \o T)) \o C = (A \o P) \o (T \o C)
      <3>1. A \o (P \o T) = (A \o P) \o T
        BY <1>1, <2>2, <2>3, Associative
      <3>2. A \o P \in Seq(Instruction)
        BY <1>1, <2>3, Concat
      <3>3. ((A \o P) \o T) \o C = (A \o P) \o (T \o C)
        BY <1>2, <2>2, <3>2, Associative
      <3> QED BY <3>1, <3>3
    <2> DEFINE q == (A \o P) \o (T \o C)
    <2>5. A \o P \in Seq(Instruction) /\ CodeOf(A \o P, r) /\ ~Tests(A \o P)
          /\ \A x : ~Copies(A \o P, x)
      BY <1>1, <2>3, CodeConcat, CopiesConcat, Concat
    <2>6. q \in Seq(Instruction) /\ CodeOf(q, r)
          /\ \A x : x \notin ProvinceFields => ~Copies(q, x)
      BY <2>2, <2>5, CodeConcat, CopiesConcat, Concat
    <2>7. Tests(q)
      <3>1. PICK i \in 1..Len(T \o C) : (T \o C)[i][1] = "test"
        BY <2>2 DEF Tests
      <3>2. Len(A \o P) + i \in 1..Len(q) /\ q[Len(A \o P) + i] = (T \o C)[i]
        BY <2>2, <2>5, Concat
      <3> QED BY <3>1, <3>2 DEF Tests
    <2>8. ASSUME NEW f \in ProvinceFields PROVE Sets(A \o P, f, Aim(q, r, f))
      <3>1. CASE f = "isp"
        <4>1. Aim(q, r, f) = 0
          BY <1>3, <3>1 DEF Aim, ZoneOf
        <4> QED BY <1>1, <2>3, <3>1, <4>1, SetsConcat
      <3>2. CASE f # "isp" /\ listed
        <4>1. Aim(q, r, f) = ZoneOf(r)[f]
          BY <3>2 DEF Aim, listed
        <4>2. f \in {"province", "province_area"}
          BY <3>2 DEF ProvinceFields
        <4> QED BY <1>1, <2>3, <3>2, <4>1, <4>2, SetsConcat
      <3>3. CASE f # "isp" /\ ~listed
        <4>1. Aim(q, r, f) = 0
          BY <2>7, <3>3 DEF Aim, listed, ProvinceFields
        <4> QED BY <1>1, <2>3, <3>3, <4>1, SetsConcat
      <3> QED BY <3>1, <3>2, <3>3
    <2>9. \A f \in ProvinceFields : Delivers(q, f, Aim(q, r, f))
      BY <2>2, <2>5, <2>8, Delivered
    <2> HIDE DEF q
    <2>10. ProvinceProgram(r) = q
      BY <2>1, <2>4 DEF q
    <2> QED BY <1>0, <2>6, <2>9, <2>10
  <1>4. CASE r.country = "China"
    <2> DEFINE O == OtherProvince
               S == <<StoreOf("isp", Isp(r))>>
    <2>1. ProvinceProgram(r) = (A \o ((O \o P) \o S)) \o C
      BY <1>4 DEF ProvinceProgram
    <2>2. /\ P \in Seq(Instruction) /\ CodeOf(P, r) /\ ~Tests(P)
          /\ \A x : ~Copies(P, x)
          /\ listed => \A f \in {"province", "province_area"} : Sets(P, f, ZoneOf(r)[f])
          /\ ~listed => \A x : ~Stores(P, x)
      BY <1>4, Province
    <2>3. /\ O \in Seq(Instruction) /\ CodeOf(O, r) /\ ~Tests(O)
          /\ Sets(O, "province", 255) /\ Sets(O, "province_area", 15)
          /\ \A x : ~Copies(O, x)
      BY <1>4, OtherProvinceFacts
    <2>4. /\ S \in Seq(Instruction) /\ CodeOf(S, r) /\ ~Tests(S)
          /\ Sets(S, "isp", ZoneOf(r)["isp"])
          /\ \A x : ~Copies(S, x) /\ (x # "isp" => ~Stores(S, x))
      <3>1. Isp(r) = ZoneOf(r)["isp"]
        BY <1>4 DEF ZoneOf
      <3>2. "isp" \in FieldNames /\ ZoneOf(r)["isp"] \in MayHold(r, "isp")
            /\ ZoneOf(r)["isp"] \in 0..255
        BY <1>0, MayHoldFits
      <3> QED BY <3>1, <3>2, OneStore
    <2> DEFINE OP == O \o P
               B == OP \o S
               AB == A \o B
               q == AB \o C
    <2> HIDE DEF A, P, C, O, S, listed
    <2>5. OP \in Seq(Instruction) /\ CodeOf(OP, r) /\ ~Tests(OP) /\ \A x : ~Copies(OP, x)
      BY <2>2, <2>3, CodeConcat, CopiesConcat, Concat
    <2>6. \A f \in {"province", "province_area"} : Sets(OP, f, ZoneOf(r)[f])
      <3>1. CASE listed
        BY <2>2, <2>3, <3>1, SetsConcat
      <3>2. CASE ~listed
        <4>1. ZoneOf(r)["province"] = 255 /\ ZoneOf(r)["province_area"] = 15
          BY <1>4, <3>2 DEF ZoneOf, listed
        <4> QED BY <2>2, <2>3, <3>2, <4>1, SetsConcat
      <3> QED BY <3>1, <3>2
    <2> HIDE DEF OP
    <2>7. B \in Seq(Instruction) /\ CodeOf(B, r) /\ ~Tests(B) /\ \A x : ~Copies(B, x)
      BY <2>4, <2>5, CodeConcat, CopiesConcat, Concat
    <2>8. \A f \in ProvinceFields : Sets(B, f, ZoneOf(r)[f])
      <3>1. Sets(B, "isp", ZoneOf(r)["isp"])
        BY <2>4, <2>5, SetsConcat
      <3>2. \A f \in {"province", "province_area"} : Sets(B, f, ZoneOf(r)[f])
        BY <2>4, <2>5, <2>6, SetsConcat
      <3> QED BY <3>1, <3>2 DEF ProvinceFields
    <2> HIDE DEF B
    <2>9. AB \in Seq(Instruction) /\ CodeOf(AB, r) /\ ~Tests(AB) /\ \A x : ~Copies(AB, x)
          /\ \A f \in ProvinceFields : Sets(AB, f, ZoneOf(r)[f])
      BY <1>1, <2>7, <2>8, CodeConcat, CopiesConcat, SetsConcat, Concat
    <2> HIDE DEF AB
    <2>10. /\ q \in Seq(Instruction) /\ CodeOf(q, r) /\ ~Tests(q)
           /\ \A x : x \notin ProvinceFields => ~Copies(q, x)
           /\ \A f \in ProvinceFields : Delivers(q, f, ZoneOf(r)[f])
      BY <1>2, <2>9, CodeConcat, CopiesConcat, Delivered, Concat
    <2>11. ProvinceProgram(r) = q
      BY <2>1 DEF AB, B, OP
    <2> HIDE DEF q
    <2> QED BY <1>0, <2>10, <2>11 DEF Aim
  <1>5. CASE r.country \notin {"Canada", "China"}
    <2>1. ProvinceProgram(r) = (A \o <<>>) \o C
      BY <1>5 DEF ProvinceProgram
    <2> HIDE DEF A, C
    <2>2. A \o <<>> = A
      BY <1>1, ConcatEmptySeq
    <2> DEFINE q == A \o C
    <2>3. /\ q \in Seq(Instruction) /\ CodeOf(q, r) /\ ~Tests(q)
          /\ \A x : x \notin ProvinceFields => ~Copies(q, x)
          /\ \A f \in ProvinceFields : Delivers(q, f, 0)
      BY <1>1, <1>2, CodeConcat, CopiesConcat, Delivered, Concat
    <2>4. \A f \in ProvinceFields : ZoneOf(r)[f] = 0
      BY <1>5 DEF ZoneOf, ProvinceFields
    <2> HIDE DEF q
    <2>5. ProvinceProgram(r) = q
      BY <2>1, <2>2 DEF q
    <2> QED BY <1>0, <2>3, <2>4, <2>5 DEF Aim
  <1> QED BY <1>3, <1>4, <1>5

\* A new call: every field is stored and then copied, and comes to what Aim says.
LEMMA ProgramFacts ==
    ASSUME NEW r
    PROVE  /\ Program(r) \in Seq(Instruction) /\ Program(r) # <<>> /\ CodeOf(Program(r), r)
           /\ \A f \in FieldNames : Delivers(Program(r), f, Aim(Program(r), r, f))
  <1> DEFINE a == CountryProgram(r)
             b == ProvinceProgram(r)
  <1>1. /\ a \in Seq(Instruction) /\ CodeOf(a, r) /\ ~Tests(a)
        /\ \A f \in CountryFields : Delivers(a, f, ZoneOf(r)[f])
    BY CountryDelivers
  <1>2. /\ b \in Seq(Instruction) /\ CodeOf(b, r)
        /\ \A f \in CountryFields : ~Copies(b, f)
        /\ \A f \in ProvinceFields : Delivers(b, f, Aim(b, r, f))
    BY ProvinceDelivers
  <1>3. Program(r) = a \o b
    BY DEF Program
  <1> HIDE DEF a, b
  <1>4. a \o b \in Seq(Instruction) /\ CodeOf(a \o b, r)
    BY <1>1, <1>2, CodeConcat, Concat
  <1>5. Tests(a \o b) <=> Tests(b)
    <2>1. Tests(b) => Tests(a \o b)
      BY <1>1, <1>2, Concat DEF Tests
    <2> QED BY <1>1, <1>2, <2>1, CodeConcat
  <1>6. \A f \in FieldNames : Delivers(a \o b, f, Aim(a \o b, r, f))
    <2>1. ASSUME NEW f \in CountryFields PROVE Delivers(a \o b, f, Aim(a \o b, r, f))
      <3>1. Aim(a \o b, r, f) = ZoneOf(r)[f]
        BY DEF Aim, CountryFields
      <3> QED BY <1>1, <1>2, <3>1, DeliversConcat
    <2>2. ASSUME NEW f \in ProvinceFields PROVE Delivers(a \o b, f, Aim(a \o b, r, f))
      <3>1. Aim(a \o b, r, f) = Aim(b, r, f)
        BY <1>5 DEF Aim
      <3> QED BY <1>1, <1>2, <3>1, DeliversConcat
    <2> QED BY <2>1, <2>2 DEF FieldNames, CountryFields, ProvinceFields
  <1>7. a \o b # <<>>
    <2>1. PICK p \in 1..Len(a \o b) : IsCopy((a \o b)[p], "isp")
      BY <1>6, DeliversRenews DEF Copies, FieldNames
    <2> QED BY <2>1
  <1> QED BY <1>3, <1>4, <1>6, <1>7
-----------------------------------------------------------------------------
\* A step of the code.
LEMMA StoreLeads ==
    ASSUME NEW c \in Seq(Instruction), c # <<>>, NEW g, NEW v, c[1] = StoreOf(g, v),
           NEW x, NEW y, NEW f, NEW w, Leads(c, x, y, f, w)
    PROVE  Leads(Tail(c), IF f = g THEN v ELSE x, y, f, w)
  <1>0. ~IsCopy(c[1], f) /\ (IsStore(c[1], f) <=> f = g)
    BY DEF IsCopy, IsStore, StoreOf
  <1>1. CASE Delivers(c, f, w)
    <2>1. \/ Delivers(Tail(c), f, w)
          \/ c[1] = StoreOf(f, w) /\ CopiesNext(Tail(c), f)
      BY <1>1, DeliversTail
    <2>2. c[1] = StoreOf(f, w) => f = g /\ v = w
      BY DEF StoreOf
    <2> QED BY <2>1, <2>2 DEF Leads
  <1>2. CASE CopiesNext(c, f) /\ x = w
    <2>1. f # g /\ CopiesNext(Tail(c), f)
      BY <1>0, <1>2, CopiesNextTail
    <2> QED BY <1>2, <2>1 DEF Leads
  <1>3. CASE ~Copies(c, f) /\ y = w
    BY <1>3, CopiesTail DEF Leads
  <1> QED BY <1>1, <1>2, <1>3 DEF Leads

LEMMA CopyLeads ==
    ASSUME NEW c \in Seq(Instruction), c # <<>>, NEW S, c[1] = CopyOf(S),
           NEW x, NEW y, NEW f, NEW w, Leads(c, x, y, f, w)
    PROVE  Leads(Tail(c), x, IF f \in S THEN x ELSE y, f, w)
  <1>0. (IsCopy(c[1], f) <=> f \in S) /\ c[1] # StoreOf(f, w)
    BY DEF IsCopy, CopyOf, StoreOf
  <1>1. CASE Delivers(c, f, w)
    BY <1>0, <1>1, DeliversTail DEF Leads
  <1>2. CASE CopiesNext(c, f) /\ x = w
    <2>1. (IsCopy(c[1], f) /\ ~Copies(Tail(c), f)) \/ CopiesNext(Tail(c), f)
      BY <1>2, CopiesNextTail
    <2> QED BY <1>0, <1>2, <2>1 DEF Leads
  <1>3. CASE ~Copies(c, f) /\ y = w
    <2>1. ~IsCopy(c[1], f) /\ ~Copies(Tail(c), f)
      BY <1>3, CopiesTail
    <2> QED BY <1>0, <1>3, <2>1 DEF Leads
  <1> QED BY <1>1, <1>2, <1>3 DEF Leads

LEMMA Over ==
    ASSUME NEW f
    PROVE  /\ ~Copies(<<>>, f) /\ ~Renews(<<>>, f) /\ ~CopiesNext(<<>>, f)
           /\ \A w : ~Delivers(<<>>, f, w)
           /\ \A x, y, w : Leads(<<>>, x, y, f, w) <=> y = w
  BY DEF Copies, Renews, Leads, Delivers, CopiesNext

\* What is left of the code at the test.
LEMMA TestFacts ==
    ASSUME NEW c \in Seq(Instruction), c # <<>>, NEW r, CodeOf(c, r), c[1][1] = "test"
    PROVE  /\ r.country = "Canada" /\ Tests(c)
           /\ \A f : ~Stores(c, f) /\ ~Renews(c, f)
           /\ \A f \in ProvinceFields : Copies(c, f) /\ CopiesNext(Tail(c), f)
           /\ \A f : f \notin ProvinceFields => ~Copies(c, f) /\ ~Copies(Tail(c), f)
           /\ Tail(c) \in Seq(Instruction) /\ CodeOf(Tail(c), r) /\ ~Tests(Tail(c))
  <1>0. /\ Len(c) \in Nat /\ Len(c) > 0 /\ Len(Tail(c)) = Len(c) - 1
        /\ \A i \in 1..(Len(c) - 1) : Tail(c)[i] = c[i + 1]
    BY TailFacts
  <1>1. 1 \in 1..Len(c)
    BY <1>0
  <1>2. /\ r.country = "Canada" /\ Len(c) = 1 + 2
        /\ c[1 + 1] = CopyOf({"province", "province_area"}) /\ c[1 + 2] = CopyOf({"isp"})
    BY <1>1 DEF CodeOf
  <1>3. /\ Len(c) = 3 /\ c[2] = CopyOf({"province", "province_area"}) /\ c[3] = CopyOf({"isp"})
    BY <1>2
  <1>4. /\ Len(Tail(c)) = 2 /\ Tail(c)[1] = CopyOf({"province", "province_area"})
        /\ Tail(c)[2] = CopyOf({"isp"})
    BY <1>0, <1>3
  <1>5. \A f : ~IsStore(c[1], f) /\ ~IsCopy(c[1], f) /\ ~IsStore(c[2], f) /\ ~IsStore(c[3], f)
    BY <1>3 DEF IsStore, IsCopy, CopyOf
  <1>6. \A f : /\ IsCopy(c[2], f) <=> f \in {"province", "province_area"}
               /\ IsCopy(c[3], f) <=> f = "isp"
    BY <1>3 DEF IsCopy, CopyOf
  <1>7. \A f : ~Stores(c, f) /\ ~Renews(c, f)
    BY <1>3, <1>5 DEF Stores, Renews
  <1>8. \A f \in ProvinceFields : Copies(c, f)
    BY <1>3, <1>6 DEF Copies, ProvinceFields
  <1>9. \A f : f \notin ProvinceFields => ~Copies(c, f)
    BY <1>3, <1>5, <1>6 DEF Copies, ProvinceFields
  <1>10. \A f : f \notin ProvinceFields => ~Copies(Tail(c), f)
    BY <1>9, CopiesTail
  <1> DEFINE e == Tail(c)
  <1>11. \A f \in ProvinceFields : CopiesNext(e, f)
    <2> SUFFICES ASSUME NEW f \in ProvinceFields PROVE CopiesNext(e, f)
      OBVIOUS
    <2>1. Len(e) = 2 /\ e[1] = c[2] /\ e[2] = c[3]
      BY <1>3, <1>4
    <2> HIDE DEF e
    <2>2. ~IsStore(e[1], f)
      BY <1>5, <2>1
    <2>3. CASE f = "isp"
      <3>1. IsCopy(e[2], f)
        BY <1>6, <2>1, <2>3
      <3> QED BY <2>1, <2>2, <3>1 DEF CopiesNext
    <2>4. CASE f # "isp"
      <3>1. IsCopy(e[1], f) /\ ~IsCopy(e[2], f)
        BY <1>6, <2>1, <2>4 DEF ProvinceFields
      <3> QED BY <2>1, <3>1 DEF CopiesNext
    <2> QED BY <2>3, <2>4
  <1>12. Tests(c)
    BY <1>1 DEF Tests
  <1>13. CodeOf(Tail(c), r) /\ ~Tests(Tail(c)) /\ Tail(c) \in Seq(Instruction)
    BY CodeTail, TailFacts
  <1> QED BY <1>2, <1>7, <1>8, <1>9, <1>10, <1>11, <1>12, <1>13

\* And what the test puts before it.
LEMMA TakenFacts ==
    ASSUME NEW e \in Seq(Instruction), NEW r, r.country = "Canada", CodeOf(e, r), ~Tests(e),
           \A f \in ProvinceFields : CopiesNext(e, f),
           \A f : f \notin ProvinceFields => ~Copies(e, f)
    PROVE  LET d == (OtherProvince \o <<StoreOf("isp", 0)>>) \o e
           IN  /\ d \in Seq(Instruction) /\ CodeOf(d, r) /\ ~Tests(d)
               /\ Delivers(d, "province", 255) /\ Delivers(d, "province_area", 15)
               /\ Delivers(d, "isp", 0)
               /\ \A f : f \notin ProvinceFields => ~Copies(d, f)
  <1> DEFINE O == OtherProvince
             S == <<StoreOf("isp", 0)>>
             OS == O \o S
  <1>1. /\ O \in Seq(Instruction) /\ CodeOf(O, r) /\ ~Tests(O)
        /\ Sets(O, "province", 255) /\ Sets(O, "province_area", 15)
        /\ \A x : ~Copies(O, x)
    BY OtherProvinceFacts
  <1>2. "isp" \in FieldNames /\ 0 \in MayHold(r, "isp") /\ 0 \in 0..255
    BY DEF FieldNames, MayHold
  <1>3. /\ S \in Seq(Instruction) /\ CodeOf(S, r) /\ ~Tests(S) /\ Sets(S, "isp", 0)
        /\ \A x : ~Copies(S, x) /\ (x # "isp" => ~Stores(S, x))
    BY <1>2, OneStore
  <1> HIDE DEF O, S
  <1>4. /\ OS \in Seq(Instruction) /\ CodeOf(OS, r) /\ ~Tests(OS)
        /\ \A x : ~Copies(OS, x)
        /\ Sets(OS, "province", 255) /\ Sets(OS, "province_area", 15) /\ Sets(OS, "isp", 0)
    <2>1. OS \in Seq(Instruction) /\ CodeOf(OS, r) /\ ~Tests(OS)
      BY <1>1, <1>3, CodeConcat, Concat
    <2>2. \A x : ~Copies(OS, x)
      BY <1>1, <1>3, CopiesConcat
    <2>3. Sets(OS, "isp", 0)
      BY <1>1, <1>3, SetsConcat
    <2>4. Sets(OS, "province", 255) /\ Sets(OS, "province_area", 15)
      BY <1>1, <1>3, SetsConcat
    <2> QED BY <2>1, <2>2, <2>3, <2>4
  <1> HIDE DEF OS
  <1>5. /\ OS \o e \in Seq(Instruction) /\ CodeOf(OS \o e, r) /\ ~Tests(OS \o e)
        /\ \A f : f \notin ProvinceFields => ~Copies(OS \o e, f)
    BY <1>4, CodeConcat, CopiesConcat, Concat
  <1>6. /\ Delivers(OS \o e, "province", 255) /\ Delivers(OS \o e, "province_area", 15)
        /\ Delivers(OS \o e, "isp", 0)
    BY <1>4, Delivered DEF ProvinceFields
  <1> QED BY <1>5, <1>6 DEF OS, O, S

\* The structs.
LEMMA ZoneIs ==
    ASSUME NEW z \in Zone, NEW f \in FieldNames
    PROVE  z[f] \in Width[f]
  BY DEF Zone, Width, FieldNames

LEMMA ZoneStore ==
    ASSUME NEW z \in Zone, NEW g \in FieldNames, NEW v \in Width[g]
    PROVE  /\ [z EXCEPT ![g] = v] \in Zone
           /\ \A f \in FieldNames : [z EXCEPT ![g] = v][f] = IF f = g THEN v ELSE z[f]
  <1>1. \A f \in FieldNames : [z EXCEPT ![g] = v][f] = IF f = g THEN v ELSE z[f]
    BY DEF Zone, FieldNames
  <1>2. /\ DOMAIN [z EXCEPT ![g] = v] = FieldNames
    BY DEF Zone, FieldNames
  <1>3. [z EXCEPT ![g] = v] \in Zone
    BY DEF Zone, Width, FieldNames
  <1> QED BY <1>1, <1>3

LEMMA ZoneCopy ==
    ASSUME NEW z \in Zone, NEW y \in Zone, NEW S
    PROVE  [f \in FieldNames |-> IF f \in S THEN z[f] ELSE y[f]] \in Zone
  <1> DEFINE m == [f \in FieldNames |-> IF f \in S THEN z[f] ELSE y[f]]
  <1>1. /\ m["contient"] \in 0..6 /\ m["area"] \in 0..7 /\ m["country"] \in 0..63
        /\ m["province"] \in 0..255 /\ m["province_area"] \in 0..15 /\ m["isp"] \in 0..63
    BY DEF Zone, FieldNames
  <1>2. m = [contient |-> m["contient"], area |-> m["area"], country |-> m["country"],
             province |-> m["province"], province_area |-> m["province_area"],
             isp |-> m["isp"]]
    BY DEF FieldNames
  <1> HIDE DEF m
  <1>3. m \in Zone
    BY <1>1, <1>2 DEF Zone
  <1> QED BY <1>3 DEF m
-----------------------------------------------------------------------------
\* The steps.
LEMMA InitInv == Init => IInv
  <1> SUFFICES ASSUME Init PROVE IInv
    OBVIOUS
  <1>1. Typed
    <2>1. <<>> \in Seq(Instruction)
      BY EmptySeq
    <2>2. rc \in Zone /\ \A t \in Threads : own[t] \in Zone
      BY DEF Init, Zero, FieldNames, Zone
    <2> QED BY <2>1, <2>2 DEF Init, Typed
  <1>2. \A t \in Threads : ~InCall(t)
    BY DEF Init, InCall
  <1>3. ASSUME NEW t \in Threads, NEW f \in FieldNames PROVE Past(t, f)
    <2>1. code[t] = <<>> /\ own[t][f] = 0 /\ rec[t] = NoRecord
      BY DEF Init, Zero
    <2>2. 0 \in May(t, f)
      BY <2>1, MayHoldFits DEF May
    <2> QED BY <2>1, <2>2, Over DEF Past
  <1>4. \A t \in Threads : Alone(t)
    BY <1>2 DEF Alone, Init
  <1> QED BY <1>1, <1>2, <1>3, <1>4 DEF IInv, Running, Overlap

LEMMA CallInv ==
    ASSUME IInv, NEW t \in Threads, NEW r \in Records, Call(t, r)
    PROVE  IInv'
  <1>1. /\ Program(r) \in Seq(Instruction) /\ Program(r) # <<>> /\ CodeOf(Program(r), r)
        /\ \A f \in FieldNames : Delivers(Program(r), f, Aim(Program(r), r, f))
    BY ProgramFacts
  <1>2. /\ code' = [code EXCEPT ![t] = Program(r)] /\ rec' = [rec EXCEPT ![t] = r]
        /\ own' = [own EXCEPT ![t] = Zero] /\ rc' = rc
        /\ met' = [u \in Threads |->
                     IF u = t THEN {rec[v] : v \in {v \in Threads \ {t} : InCall(v)}}
                     ELSE IF InCall(u) THEN met[u] \cup {r} ELSE met[u]]
    BY DEF Call
  <1>3. Typed
    BY DEF IInv
  <1>4. /\ code'[t] = Program(r) /\ rec'[t] = r
        /\ \A u \in Threads : u # t =>
              /\ code'[u] = code[u] /\ rec'[u] = rec[u] /\ own'[u] = own[u]
              /\ met[u] \subseteq met'[u]
              /\ InCall(u) => r \in met'[u]
              /\ ~InCall(u) => met'[u] = met[u]
              /\ InCall(u)' <=> InCall(u)
    BY <1>2, <1>3 DEF Typed, InCall
  <1>5. Typed'
    <2>1. Zero \in Zone
      BY DEF Zero, FieldNames, Zone
    <2>2. \A v \in Threads : InCall(v) => rec[v] \in Records
      BY DEF IInv, Running
    <2>3. met' \in [Threads -> SUBSET Records]
      BY <1>2, <1>3, <2>2 DEF Typed
    <2> QED BY <1>1, <1>2, <1>3, <2>1, <2>3 DEF Typed
  <1>6. ASSUME NEW u \in Threads PROVE Running(u)'
    <2>1. CASE u = t
      BY <1>1, <1>4, <2>1 DEF Running
    <2>2. CASE u # t
      BY <1>4, <2>2 DEF IInv, Running, InCall
    <2> QED BY <2>1, <2>2
  <1>7. Overlap'
    <2> SUFFICES ASSUME NEW u \in Threads, NEW v \in Threads, u # v, InCall(u)', InCall(v)'
                 PROVE  rec'[v] \in met'[u]
      BY DEF Overlap
    <2>1. CASE u = t
      <3>1. v \in Threads \ {t} /\ InCall(v) /\ rec'[v] = rec[v]
        BY <1>4, <2>1
      <3>2. met'[u] = {rec[w] : w \in {w \in Threads \ {t} : InCall(w)}}
        BY <1>2, <2>1
      <3> QED BY <3>1, <3>2
    <2>2. CASE v = t
      BY <1>4, <2>2
    <2>3. CASE u # t /\ v # t
      BY <1>4, <2>3 DEF IInv, Overlap
    <2> QED BY <2>1, <2>2, <2>3
  <1>8. ASSUME NEW u \in Threads, NEW f \in FieldNames PROVE Past(u, f)'
    <2>1. CASE u = t
      BY <1>1, <1>4, <2>1, DeliversRenews DEF Past
    <2>2. CASE u # t
      <3>1. May(u, f) \subseteq May(u, f)'
        BY <1>4, <2>2 DEF May
      <3> QED BY <1>2, <1>4, <2>2, <3>1 DEF IInv, Past
    <2> QED BY <2>1, <2>2
  <1>9. ASSUME NEW u \in Threads PROVE Alone(u)'
    <2>1. CASE u = t
      BY <1>1, <1>4, <2>1 DEF Alone, Leads
    <2>2. CASE u # t
      <3>1. CASE InCall(u)
        BY <1>4, <2>2, <3>1 DEF Alone
      <3>2. CASE ~InCall(u)
        BY <1>2, <1>4, <2>2, <3>2 DEF IInv, Alone
      <3> QED BY <3>1, <3>2
    <2> QED BY <2>1, <2>2
  <1> QED BY <1>5, <1>6, <1>7, <1>8, <1>9 DEF IInv

\* What a step of thread t leaves alone.
LEMMA OthersStay ==
    ASSUME IInv, NEW t \in Threads, NEW d \in Seq(Instruction), code' = [code EXCEPT ![t] = d],
           InCall(t), CodeOf(d, rec[t]), rec' = rec, met' = met
    PROVE  /\ code' \in [Threads -> Seq(Instruction)] /\ code'[t] = d
           /\ \A u \in Threads : u # t => code'[u] = code[u]
           /\ \A u \in Threads : Running(u)'
           /\ Overlap'
           /\ \A u \in Threads, f \in FieldNames : May(u, f)' = May(u, f)
           /\ \A u \in Threads : u # t /\ InCall(u) => rec[t] \in met[u]
  <1>1. code \in [Threads -> Seq(Instruction)]
    BY DEF IInv, Typed
  <1>2. /\ code' \in [Threads -> Seq(Instruction)] /\ code'[t] = d
        /\ \A u \in Threads : u # t => code'[u] = code[u]
    BY <1>1
  <1>3. \A u \in Threads : InCall(u)' => InCall(u)
    BY <1>2 DEF InCall
  <1>4. ASSUME NEW u \in Threads PROVE Running(u)'
    BY <1>2, <1>3 DEF IInv, Running
  <1>5. Overlap'
    BY <1>3 DEF IInv, Overlap
  <1>6. \A u \in Threads, f \in FieldNames : May(u, f)' = May(u, f)
    BY DEF May
  <1>7. \A u \in Threads : u # t /\ InCall(u) => rec[t] \in met[u]
    BY DEF IInv, Overlap
  <1> QED BY <1>2, <1>4, <1>5, <1>6, <1>7

\* An instruction that thread t runs.
LEMMA Instruct ==
    ASSUME IInv, NEW t \in Threads, NEW kind, Is(t, kind)
    PROVE  /\ code[t] \in Seq(Instruction) /\ code[t] # <<>> /\ InCall(t)
           /\ rec[t] \in Records /\ CodeOf(code[t], rec[t])
           /\ Head(code[t]) = code[t][1] /\ code[t][1] \in Instruction /\ code[t][1][1] = kind
           /\ Tail(code[t]) \in Seq(Instruction) /\ CodeOf(Tail(code[t]), rec[t])
           /\ kind = "store" => code[t][1][3] \in MayHold(rec[t], code[t][1][2])
           /\ kind # "test" =>
                 \A f : Aim(Tail(code[t]), rec[t], f) = Aim(code[t], rec[t], f)
  <1>1. code[t] \in Seq(Instruction) /\ code[t] # <<>> /\ InCall(t)
    BY DEF IInv, Typed, Is, InCall
  <1>2. rec[t] \in Records /\ CodeOf(code[t], rec[t])
    BY <1>1 DEF IInv, Running
  <1>3. /\ Head(code[t]) = code[t][1] /\ code[t][1] \in Instruction
        /\ Tail(code[t]) \in Seq(Instruction) /\ 1 \in 1..Len(code[t])
    BY <1>1, TailFacts
  <1>4. code[t][1][1] = kind
    BY <1>3 DEF Is
  <1>5. kind = "store" => code[t][1][3] \in MayHold(rec[t], code[t][1][2])
    BY <1>2, <1>3, <1>4 DEF CodeOf
  <1>6. CodeOf(Tail(code[t]), rec[t])
        /\ (kind # "test" => (Tests(Tail(code[t])) <=> Tests(code[t])))
    BY <1>1, <1>2, <1>4, CodeTail
  <1> QED BY <1>1, <1>2, <1>3, <1>4, <1>5, <1>6 DEF Aim

LEMMA StoreInv ==
    ASSUME IInv, NEW t \in Threads, Store(t)
    PROVE  IInv'
  <1> DEFINE c == code[t]
             g == c[1][2]
             v == c[1][3]
  <1>1. /\ c \in Seq(Instruction) /\ c # <<>> /\ InCall(t)
        /\ Head(c) = c[1] /\ c[1] \in Instruction /\ c[1][1] = "store"
        /\ Tail(c) \in Seq(Instruction) /\ CodeOf(Tail(c), rec[t])
        /\ v \in MayHold(rec[t], g)
        /\ \A f : Aim(Tail(c), rec[t], f) = Aim(c, rec[t], f)
    BY Instruct DEF Store
  <1>2. c[1] = StoreOf(g, v) /\ g \in FieldNames
    BY <1>1, Instructions
  <1>3. v \in Width[g]
    BY <1>1, <1>2, MayHoldFits
  <1>4. /\ rc' = [rc EXCEPT ![g] = v] /\ code' = [code EXCEPT ![t] = Tail(c)]
        /\ rec' = rec /\ own' = own /\ met' = met
    BY <1>1 DEF Store
  <1>5. rc' \in Zone /\ \A f \in FieldNames : rc'[f] = IF f = g THEN v ELSE rc[f]
    <2>1. rc \in Zone
      BY DEF IInv, Typed
    <2> HIDE DEF c, g, v
    <2>2. /\ [rc EXCEPT ![g] = v] \in Zone
          /\ \A f \in FieldNames : [rc EXCEPT ![g] = v][f] = IF f = g THEN v ELSE rc[f]
      BY <1>2, <1>3, <2>1, ZoneStore
    <2> QED BY <1>4, <2>2
  <1>6. /\ code' \in [Threads -> Seq(Instruction)] /\ code'[t] = Tail(c)
        /\ \A u \in Threads : u # t => code'[u] = code[u]
        /\ \A u \in Threads : Running(u)'
        /\ Overlap'
        /\ \A u \in Threads, f \in FieldNames : May(u, f)' = May(u, f)
        /\ \A u \in Threads : u # t /\ InCall(u) => rec[t] \in met[u]
    BY <1>1, <1>4, OthersStay
  <1> HIDE DEF c, g, v
  <1>7. Typed'
    BY <1>4, <1>5, <1>6 DEF IInv, Typed
  <1>8. ASSUME NEW u \in Threads, NEW f \in FieldNames PROVE Past(u, f)'
    <2>1. CASE u = t
      <3>1. (IsStore(c[1], f) <=> f = g) /\ ~IsCopy(c[1], f)
        BY <1>2 DEF IsStore, IsCopy, StoreOf
      <3>2. Copies(c, f) <=> Copies(Tail(c), f)
        BY <1>1, <3>1, CopiesTail
      <3>3. f = g => rc'[f] \in May(u, f)
        BY <1>1, <1>5, <2>1 DEF May
      <3>4. CASE Renews(c, f)
        BY <1>1, <1>6, <2>1, <3>1, <3>3, <3>4, RenewsTail DEF Past
      <3>5. CASE Copies(c, f) /\ rc[f] \in May(u, f)
        BY <1>5, <1>6, <2>1, <3>2, <3>3, <3>5 DEF Past
      <3>6. CASE ~Copies(c, f) /\ own[u][f] \in May(u, f)
        BY <1>4, <1>6, <2>1, <3>2, <3>6 DEF Past
      <3> QED BY <2>1, <3>4, <3>5, <3>6 DEF IInv, Past, c
    <2>2. CASE u # t
      <3>1. CASE InCall(u)
        <4>1. f = g => rc'[f] \in May(u, f)
          BY <1>1, <1>5, <1>6, <2>2, <3>1 DEF May
        <4> QED BY <1>4, <1>5, <1>6, <2>2, <4>1 DEF IInv, Past
      <3>2. CASE ~InCall(u)
        <4>1. ~Copies(code[u], f)
          BY <3>2, Over DEF InCall
        <4> QED BY <1>4, <1>6, <2>2, <4>1 DEF IInv, Past
      <3> QED BY <3>1, <3>2
    <2> QED BY <2>1, <2>2
  <1>9. ASSUME NEW u \in Threads PROVE Alone(u)'
    <2> SUFFICES ASSUME met'[u] = {}, (InCall(u) \/ rec[u] # NoRecord)', NEW f \in FieldNames
                 PROVE  Leads(code'[u], rc'[f], own'[u][f], f, Aim(code'[u], rec'[u], f))
      BY DEF Alone
    <2>1. CASE u = t
      <3>1. Leads(c, rc[f], own[u][f], f, Aim(c, rec[u], f))
        BY <1>1, <1>4, <2>1 DEF IInv, Alone, c
      <3>2. Leads(Tail(c), IF f = g THEN v ELSE rc[f], own[u][f], f, Aim(c, rec[u], f))
        BY <1>1, <1>2, <3>1, StoreLeads
      <3>3. code'[u] = Tail(c) /\ rc'[f] = (IF f = g THEN v ELSE rc[f]) /\ own'[u] = own[u]
        BY <1>4, <1>5, <1>6, <2>1
      <3>4. Aim(code'[u], rec'[u], f) = Aim(c, rec[u], f)
        BY <1>1, <1>4, <2>1, <3>3
      <3> QED BY <3>2, <3>3, <3>4
    <2>2. CASE u # t
      <3>1. ~InCall(u)
        BY <1>4, <1>6, <2>2
      <3>2. code[u] = <<>> /\ code'[u] = <<>>
        BY <1>6, <2>2, <3>1 DEF InCall
      <3>3. Leads(code[u], rc[f], own[u][f], f, Aim(code[u], rec[u], f))
        BY <1>4, <1>6, <2>2, <3>1 DEF IInv, Alone, InCall
      <3>4. own[u][f] = Aim(<<>>, rec[u], f)
        <4>1. Leads(<<>>, rc[f], own[u][f], f, Aim(<<>>, rec[u], f))
          BY <3>2, <3>3
        <4> QED BY <4>1, Over DEF Leads
      <3>5. Leads(<<>>, rc'[f], own[u][f], f, Aim(<<>>, rec[u], f))
        BY <3>4, Over DEF Leads
      <3> QED BY <1>4, <3>2, <3>5
    <2> QED BY <2>1, <2>2
  <1> QED BY <1>6, <1>7, <1>8, <1>9 DEF IInv

LEMMA CopyInv ==
    ASSUME IInv, NEW t \in Threads, Copy(t)
    PROVE  IInv'
  <1> DEFINE c == code[t]
             S == c[1][2]
  <1>1. /\ c \in Seq(Instruction) /\ c # <<>> /\ InCall(t)
        /\ Head(c) = c[1] /\ c[1] \in Instruction /\ c[1][1] = "copy"
        /\ Tail(c) \in Seq(Instruction) /\ CodeOf(Tail(c), rec[t])
        /\ \A f : Aim(Tail(c), rec[t], f) = Aim(c, rec[t], f)
    BY Instruct DEF Copy
  <1>2. c[1] = CopyOf(S)
    BY <1>1 DEF Instruction, StoreOf, CopyOf, IfUnset
  <1>3. /\ own' = [own EXCEPT ![t] = [f \in FieldNames |-> IF f \in S THEN rc[f] ELSE own[t][f]]]
        /\ code' = [code EXCEPT ![t] = Tail(c)]
        /\ rc' = rc /\ rec' = rec /\ met' = met
    BY <1>1 DEF Copy
  <1>4. /\ own' \in [Threads -> Zone]
        /\ \A f \in FieldNames : own'[t][f] = IF f \in S THEN rc[f] ELSE own[t][f]
        /\ \A u \in Threads : u # t => own'[u] = own[u]
    <2>1. own \in [Threads -> Zone] /\ rc \in Zone /\ own[t] \in Zone
      BY DEF IInv, Typed
    <2>2. [f \in FieldNames |-> IF f \in S THEN rc[f] ELSE own[t][f]] \in Zone
      BY <2>1, ZoneCopy
    <2> QED BY <1>3, <2>1, <2>2
  <1>5. /\ code' \in [Threads -> Seq(Instruction)] /\ code'[t] = Tail(c)
        /\ \A u \in Threads : u # t => code'[u] = code[u]
        /\ \A u \in Threads : Running(u)'
        /\ Overlap'
        /\ \A u \in Threads, f \in FieldNames : May(u, f)' = May(u, f)
    BY <1>1, <1>3, OthersStay
  <1> HIDE DEF c, S
  <1>6. Typed'
    BY <1>3, <1>4, <1>5 DEF IInv, Typed
  <1>7. ASSUME NEW u \in Threads, NEW f \in FieldNames PROVE Past(u, f)'
    <2>1. CASE u = t
      <3>1. ~IsStore(c[1], f) /\ (IsCopy(c[1], f) <=> f \in S)
        BY <1>2 DEF IsStore, IsCopy, CopyOf
      <3>2. Copies(c, f) <=> f \in S \/ Copies(Tail(c), f)
        BY <1>1, <3>1, CopiesTail
      <3>3. CASE Renews(c, f)
        BY <1>1, <1>5, <2>1, <3>1, <3>3, RenewsTail DEF Past
      <3>4. CASE Copies(c, f) /\ rc[f] \in May(u, f)
        BY <1>3, <1>4, <1>5, <2>1, <3>2, <3>4 DEF Past
      <3>5. CASE ~Copies(c, f) /\ own[u][f] \in May(u, f)
        BY <1>4, <1>5, <2>1, <3>2, <3>5 DEF Past
      <3> QED BY <2>1, <3>3, <3>4, <3>5 DEF IInv, Past, c
    <2>2. CASE u # t
      BY <1>3, <1>4, <1>5, <2>2 DEF IInv, Past
    <2> QED BY <2>1, <2>2
  <1>8. ASSUME NEW u \in Threads PROVE Alone(u)'
    <2> SUFFICES ASSUME met'[u] = {}, (InCall(u) \/ rec[u] # NoRecord)', NEW f \in FieldNames
                 PROVE  Leads(code'[u], rc'[f], own'[u][f], f, Aim(code'[u], rec'[u], f))
      BY DEF Alone
    <2>1. CASE u = t
      <3>1. Leads(c, rc[f], own[u][f], f, Aim(c, rec[u], f))
        BY <1>1, <1>3, <2>1 DEF IInv, Alone, c
      <3>2. Leads(Tail(c), rc[f], IF f \in S THEN rc[f] ELSE own[u][f], f, Aim(c, rec[u], f))
        BY <1>1, <1>2, <3>1, CopyLeads
      <3> QED BY <1>1, <1>3, <1>4, <1>5, <2>1, <3>2
    <2>2. CASE u # t
      BY <1>3, <1>4, <1>5, <2>2 DEF IInv, Alone, InCall
    <2> QED BY <2>1, <2>2
  <1> QED BY <1>5, <1>6, <1>7, <1>8 DEF IInv

\* What a passed test leaves to do leads where it should when nobody interferes,
\* and copies every field of the provinces in any case.
LEMMA TestLeads ==
    ASSUME NEW c \in Seq(Instruction), c # <<>>, NEW r, CodeOf(c, r), c[1][1] = "test",
           NEW z \in Zone
    PROVE  LET d == (IF z.province_area = 0
                     THEN OtherProvince \o <<StoreOf("isp", 0)>> ELSE <<>>) \o Tail(c)
           IN  /\ d \in Seq(Instruction) /\ CodeOf(d, r) /\ ~Tests(d)
               /\ \A f : Copies(d, f) <=> Copies(c, f)
               /\ \A f : f \in ProvinceFields <=> Copies(c, f)
               /\ \A f : ~Renews(c, f)
               /\ \A f \in ProvinceFields : Renews(d, f) \/ CopiesNext(d, f)
               /\ \A y : \A f \in FieldNames :
                     (\A g \in ProvinceFields : Leads(c, z[g], y[g], g, Aim(c, r, g)))
                       /\ Leads(c, z[f], y[f], f, Aim(c, r, f)) =>
                        Leads(d, z[f], y[f], f, Aim(d, r, f))
  <1> DEFINE e == Tail(c)
             n == OtherProvince \o <<StoreOf("isp", 0)>>
             d == (IF z.province_area = 0 THEN n ELSE <<>>) \o e
  <1>1. /\ r.country = "Canada" /\ Tests(c)
        /\ \A f : ~Stores(c, f) /\ ~Renews(c, f)
        /\ \A f \in ProvinceFields : Copies(c, f) /\ CopiesNext(e, f)
        /\ \A f : f \notin ProvinceFields => ~Copies(c, f) /\ ~Copies(e, f)
        /\ e \in Seq(Instruction) /\ CodeOf(e, r) /\ ~Tests(e)
    BY TestFacts
  <1>2. CASE z.province_area = 0
    <2>1. d = n \o e
      BY <1>2
    <2>2. /\ n \o e \in Seq(Instruction) /\ CodeOf(n \o e, r) /\ ~Tests(n \o e)
          /\ Delivers(n \o e, "province", 255) /\ Delivers(n \o e, "province_area", 15)
          /\ Delivers(n \o e, "isp", 0)
          /\ \A f : f \notin ProvinceFields => ~Copies(n \o e, f)
      <3> HIDE DEF e
      <3> QED BY <1>1, TakenFacts
    <2> HIDE DEF d, e, n
    <2>3. /\ d \in Seq(Instruction) /\ CodeOf(d, r) /\ ~Tests(d)
          /\ Delivers(d, "province", 255) /\ Delivers(d, "province_area", 15)
          /\ Delivers(d, "isp", 0)
          /\ \A f : f \notin ProvinceFields => ~Copies(d, f)
      BY <2>1, <2>2
    <2>4. \A f \in ProvinceFields : Renews(d, f) /\ Copies(d, f)
      BY <2>3, DeliversRenews DEF ProvinceFields
    <2>5. ASSUME NEW y, NEW f \in FieldNames,
                 \A g \in ProvinceFields : Leads(c, z[g], y[g], g, Aim(c, r, g)),
                 Leads(c, z[f], y[f], f, Aim(c, r, f))
          PROVE  Leads(d, z[f], y[f], f, Aim(d, r, f))
      <3>1. Aim(d, r, f) = ZoneOf(r)[f]
        BY <2>3 DEF Aim
      <3>2. CASE f \in ProvinceFields
        <4>1. <<r.country, r.province>> \notin DOMAIN ProvinceZone
          <5>1. "province_area" \in ProvinceFields
            BY DEF ProvinceFields
          <5>2. Leads(c, z["province_area"], y["province_area"], "province_area",
                      Aim(c, r, "province_area"))
            BY <2>5, <5>1
          <5>3. /\ ~Delivers(c, "province_area", Aim(c, r, "province_area"))
                /\ Copies(c, "province_area")
            BY <1>1, <5>1, DeliversRenews
          <5>4. Aim(c, r, "province_area") = 0
            BY <1>2, <5>2, <5>3 DEF Leads
          <5>5. <<r.country, r.province>> \in DOMAIN ProvinceZone =>
                   Aim(c, r, "province_area") \in 1..12
            BY <1>1, TablesAssumption DEF Aim, ZoneOf
          <5> QED BY <5>4, <5>5
        <4>2. /\ ZoneOf(r)["province"] = 255 /\ ZoneOf(r)["province_area"] = 15
              /\ ZoneOf(r)["isp"] = 0
          BY <1>1, <4>1 DEF ZoneOf
        <4>3. Delivers(d, f, ZoneOf(r)[f])
          BY <2>3, <3>2, <4>2 DEF ProvinceFields
        <4> QED BY <3>1, <4>3 DEF Leads
      <3>3. CASE f \notin ProvinceFields
        <4>1. ~Copies(c, f) /\ ~Copies(d, f)
          BY <1>1, <2>3, <3>3
        <4>2. Aim(c, r, f) = ZoneOf(r)[f]
          BY <3>3 DEF Aim, ProvinceFields
        <4>3. y[f] = ZoneOf(r)[f]
          BY <2>5, <4>1, <4>2, DeliversRenews, CopiesNextCopies DEF Leads
        <4> QED BY <3>1, <4>1, <4>3 DEF Leads
      <3> QED BY <3>2, <3>3
    <2> QED BY <1>1, <2>3, <2>4, <2>5 DEF d, e, n
  <1>3. CASE z.province_area # 0
    <2>1. d = e
      <3>1. d = <<>> \o e
        BY <1>3
      <3> QED BY <1>1, <3>1, ConcatEmptySeq
    <2> HIDE DEF d, e, n
    <2>2. \A f \in ProvinceFields : Copies(e, f)
      BY <1>1, CopiesNextCopies
    <2>3. ASSUME NEW y, NEW f \in FieldNames,
                 \A g \in ProvinceFields : Leads(c, z[g], y[g], g, Aim(c, r, g)),
                 Leads(c, z[f], y[f], f, Aim(c, r, f))
          PROVE  Leads(e, z[f], y[f], f, Aim(e, r, f))
      <3>1. Aim(e, r, f) = ZoneOf(r)[f]
        BY <1>1 DEF Aim
      <3>2. CASE f \in ProvinceFields
        <4>1. <<r.country, r.province>> \in DOMAIN ProvinceZone
          <5>1. "province_area" \in ProvinceFields
            BY DEF ProvinceFields
          <5>2. Leads(c, z["province_area"], y["province_area"], "province_area",
                      Aim(c, r, "province_area"))
            BY <2>3, <5>1
          <5>3. /\ ~Delivers(c, "province_area", Aim(c, r, "province_area"))
                /\ Copies(c, "province_area")
            BY <1>1, <5>1, DeliversRenews
          <5>4. Aim(c, r, "province_area") # 0
            BY <1>3, <5>2, <5>3 DEF Leads
          <5> QED BY <1>1, <5>4 DEF Aim
        <4>2. Aim(c, r, f) = ZoneOf(r)[f]
          BY <4>1 DEF Aim
        <4>3. z[f] = ZoneOf(r)[f]
          BY <1>1, <2>3, <3>2, <4>2, DeliversRenews DEF Leads
        <4> QED BY <1>1, <3>1, <3>2, <4>3 DEF Leads
      <3>3. CASE f \notin ProvinceFields
        <4>1. ~Copies(c, f) /\ ~Copies(e, f)
          BY <1>1, <3>3
        <4>2. Aim(c, r, f) = ZoneOf(r)[f]
          BY <3>3 DEF Aim, ProvinceFields
        <4>3. y[f] = ZoneOf(r)[f]
          BY <2>3, <4>1, <4>2, DeliversRenews, CopiesNextCopies DEF Leads
        <4> QED BY <3>1, <4>1, <4>3 DEF Leads
      <3> QED BY <3>2, <3>3
    <2> QED BY <1>1, <2>1, <2>2, <2>3 DEF d, e, n
  <1> QED BY <1>2, <1>3

LEMMA TestInv ==
    ASSUME IInv, NEW t \in Threads, Test(t)
    PROVE  IInv'
  <1> DEFINE c == code[t]
             r == rec[t]
             d == (IF rc.province_area = 0
                   THEN OtherProvince \o <<StoreOf("isp", 0)>> ELSE <<>>) \o Tail(c)
  <1>1. /\ c \in Seq(Instruction) /\ c # <<>> /\ InCall(t)
        /\ c[1][1] = "test" /\ CodeOf(c, r) /\ r \in Records
    BY Instruct DEF Test
  <1>2. rc \in Zone
    BY DEF IInv, Typed
  <1>3. /\ d \in Seq(Instruction) /\ CodeOf(d, r) /\ ~Tests(d)
        /\ \A f : Copies(d, f) <=> Copies(c, f)
        /\ \A f : ~Renews(c, f)
        /\ \A y : \A f \in FieldNames :
              (\A g \in ProvinceFields : Leads(c, rc[g], y[g], g, Aim(c, r, g)))
                /\ Leads(c, rc[f], y[f], f, Aim(c, r, f)) =>
                   Leads(d, rc[f], y[f], f, Aim(d, r, f))
    BY <1>1, <1>2, TestLeads
  <1>4. /\ code' = [code EXCEPT ![t] = d]
        /\ rc' = rc /\ own' = own /\ rec' = rec /\ met' = met
    BY DEF Test
  <1> HIDE DEF d
  <1>5. /\ code' \in [Threads -> Seq(Instruction)] /\ code'[t] = d
        /\ \A u \in Threads : u # t => code'[u] = code[u]
        /\ \A u \in Threads : Running(u)'
        /\ Overlap'
        /\ \A u \in Threads, f \in FieldNames : May(u, f)' = May(u, f)
    BY <1>1, <1>3, <1>4, OthersStay
  <1>6. Typed'
    BY <1>4, <1>5 DEF IInv, Typed
  <1>7. ASSUME NEW u \in Threads, NEW f \in FieldNames PROVE Past(u, f)'
    <2>1. CASE u = t
      BY <1>3, <1>4, <1>5, <2>1 DEF IInv, Past
    <2>2. CASE u # t
      BY <1>4, <1>5, <2>2 DEF IInv, Past
    <2> QED BY <2>1, <2>2
  <1>8. ASSUME NEW u \in Threads PROVE Alone(u)'
    <2> SUFFICES ASSUME met'[u] = {}, (InCall(u) \/ rec[u] # NoRecord)', NEW f \in FieldNames
                 PROVE  Leads(code'[u], rc'[f], own'[u][f], f, Aim(code'[u], rec'[u], f))
      BY DEF Alone
    <2>1. CASE u = t
      <3>1. \A g \in FieldNames : Leads(c, rc[g], own[t][g], g, Aim(c, r, g))
        BY <1>1, <1>4, <2>1 DEF IInv, Alone
      <3>2. Leads(d, rc[f], own[t][f], f, Aim(d, r, f))
        BY <1>3, <3>1 DEF FieldNames, ProvinceFields
      <3>3. code'[u] = d /\ rec'[u] = r
        BY <1>4, <1>5, <2>1
      <3> QED BY <1>4, <2>1, <3>2, <3>3
    <2>2. CASE u # t
      BY <1>4, <1>5, <2>2 DEF IInv, Alone, InCall
    <2> QED BY <2>1, <2>2
  <1> QED BY <1>5, <1>6, <1>7, <1>8 DEF IInv

LEMMA NextInv == IInv /\ [Next]_vars => IInv'
  <1> SUFFICES ASSUME IInv, [Next]_vars PROVE IInv'
    OBVIOUS
  <1>1. CASE Next
    BY <1>1, CallInv, StoreInv, TestInv, CopyInv DEF Next
  <1>2. CASE UNCHANGED vars
    BY <1>2 DEF vars, IInv, Typed, Running, Overlap, Past, May, Alone, InCall
  <1> QED BY <1>1, <1>2

\* The inductive invariant of the threads' calls.
THEOREM Invariance == Spec => []IInv
  BY InitInv, NextInv, PTL DEF Spec
-----------------------------------------------------------------------------
\* The structs and the copies never exceed the number's bits, whatever the
\* threads interleave (bbip_server.cpp fills the statics field by field).
THEOREM TypeCorrect == Spec => []TypeOK
  <1>1. IInv => TypeOK
    BY DEF IInv, Typed, TypeOK
  <1> QED BY <1>1, Invariance, PTL

\* A call that no other overlaps returns the zone of its record: no field of the
\* statics is left from a call before.
THEOREM AloneIsRight == Spec => []AloneRight
  <1>1. IInv => AloneRight
    <2> SUFFICES ASSUME IInv, NEW t \in Threads, Done(t), met[t] = {}
                 PROVE  own[t] = ZoneOf(rec[t])
      BY DEF AloneRight
    <2>1. code[t] = <<>> /\ rec[t] # NoRecord
      BY DEF Done, InCall
    <2>2. \A f \in FieldNames : own[t][f] = Aim(<<>>, rec[t], f)
      <3> SUFFICES ASSUME NEW f \in FieldNames PROVE own[t][f] = Aim(<<>>, rec[t], f)
        OBVIOUS
      <3>1. Leads(code[t], rc[f], own[t][f], f, Aim(code[t], rec[t], f))
        BY <2>1 DEF IInv, Alone
      <3> QED BY <2>1, <3>1, Over DEF Leads
    <2>3. \A f \in FieldNames : Aim(<<>>, rec[t], f) = ZoneOf(rec[t])[f]
      BY DEF Aim, Tests
    <2>4. own[t] \in Zone
      BY DEF IInv, Typed
    <2>5. \A f \in FieldNames : own[t][f] = ZoneOf(rec[t])[f]
      BY <2>2, <2>3
    <2>6. ZoneOf(rec[t]) \in Zone
      BY ZoneFits DEF ZoneOf, Zone
    <2> QED BY <2>4, <2>5, <2>6 DEF Zone, FieldNames
  <1> QED BY <1>1, Invariance, PTL

\* Every field of a returned zone is of the call itself or of a call that has
\* overlapped it.
THEOREM NothingStale == Spec => []NothingOfThePast
  <1>1. IInv => NothingOfThePast
    <2> SUFFICES ASSUME IInv, NEW t \in Threads, Done(t), NEW f \in FieldNames
                 PROVE  \E r \in {rec[t]} \cup met[t] : own[t][f] \in MayHold(r, f)
      BY DEF NothingOfThePast
    <2>1. code[t] = <<>>
      BY DEF Done, InCall
    <2>2. own[t][f] \in May(t, f)
      BY <2>1, Over DEF IInv, Past
    <2> QED BY <2>2 DEF May
  <1> QED BY <1>1, Invariance, PTL

-----------------------------------------------------------------------------
\* The number and its fields.
LEMMA Split6 ==
    ASSUME NEW a \in 0..(2^6 - 1), NEW q \in Nat
    PROVE  (a + q * 2^6) % 2^6 = a /\ (a + q * 2^6) \div 2^6 = q
  BY SMT

LEMMA Mods ==
    ASSUME NEW q \in Nat
    PROVE  /\ \A a \in 0..255 : (a + q * 2^8) % 2^8 = a
           /\ \A a \in 0..15 : (a + q * 2^4) % 2^4 = a
           /\ \A a \in 0..63 : (a + q * 2^6) % 2^6 = a
           /\ \A a \in 0..7 : (a + q * 2^3) % 2^3 = a
  BY SMT

Number(isp, province, parea, country, area, contient) ==
    isp + province * 2^6 + parea * 2^14 + country * 2^18 + area * 2^24 + contient * 2^27

Fields(id) ==
    [isp |-> id % 2^6,
     province |-> (id \div 2^6) % 2^8,
     province_area |-> (id \div 2^14) % 2^4,
     country |-> (id \div 2^18) % 2^6,
     area |-> (id \div 2^24) % 2^3,
     contient |-> id \div 2^27]

LEMMA PackDecodes ==
    ASSUME NEW isp \in 0..63, NEW province \in 0..255, NEW parea \in 0..15,
           NEW country \in 0..63, NEW area \in 0..7, NEW contient \in 0..6
    PROVE  Fields(Number(isp, province, parea, country, area, contient)) =
             [isp |-> isp, province |-> province, province_area |-> parea,
              country |-> country, area |-> area, contient |-> contient]
  <1> DEFINE id == Number(isp, province, parea, country, area, contient)
             b14 == isp + province * 2^6
             b18 == b14 + parea * 2^14
             b24 == b18 + country * 2^18
             b27 == b24 + area * 2^24
             q24 == area + contient * 2^3
             q18 == country + q24 * 2^6
             q14 == parea + q18 * 2^4
             q6 == province + q14 * 2^8
  <1>1. isp \in 0..(2^6 - 1) /\ q6 \in Nat /\ id = isp + q6 * 2^6
    BY SMT DEF Number
  <1>2. b14 \in 0..(2^14 - 1) /\ q14 \in Nat /\ id = b14 + q14 * 2^14
    BY SMT DEF Number
  <1>3. b18 \in 0..(2^18 - 1) /\ q18 \in Nat /\ id = b18 + q18 * 2^18
    BY SMT DEF Number
  <1>4. b24 \in 0..(2^24 - 1) /\ q24 \in Nat /\ id = b24 + q24 * 2^24
    BY SMT DEF Number
  <1>5. b27 \in 0..(2^27 - 1) /\ contient \in Nat /\ id = b27 + contient * 2^27
    BY SMT DEF Number
  <1>6. q24 % 2^3 = area /\ q18 % 2^6 = country /\ q14 % 2^4 = parea /\ q6 % 2^8 = province
    <2> HIDE DEF id, b14, b18, b24, b27
    <2>1. q24 % 2^3 = area
      BY Mods, SMT
    <2>2. q18 % 2^6 = country
      <3> HIDE DEF q24
      <3> QED BY <1>2, <1>3, <1>4, Mods, SMT
    <2>3. q14 % 2^4 = parea
      <3> HIDE DEF q18
      <3> QED BY <1>2, <1>3, <1>4, Mods, SMT
    <2>4. q6 % 2^8 = province
      <3> HIDE DEF q14
      <3> QED BY <1>2, <1>3, <1>4, Mods, SMT
    <2> QED BY <2>1, <2>2, <2>3, <2>4
  <1> HIDE DEF id, b14, b18, b24, b27, q24, q18, q14, q6
  <1>7. id % 2^6 = isp /\ id \div 2^6 = q6
    BY <1>1, Split6, SMT
  <1>8. id \div 2^14 = q14
    BY <1>2, SMT
  <1>9. id \div 2^18 = q18
    BY <1>3, SMT
  <1>10. id \div 2^24 = q24
    BY <1>4, SMT
  <1>11. id \div 2^27 = contient
    BY <1>5, SMT
  <1>12. /\ id % 2^6 = isp /\ (id \div 2^6) % 2^8 = province
         /\ (id \div 2^14) % 2^4 = parea /\ (id \div 2^18) % 2^6 = country
         /\ (id \div 2^24) % 2^3 = area /\ id \div 2^27 = contient
    BY <1>6, <1>7, <1>8, <1>9, <1>10, <1>11, SMT
  <1> QED BY <1>12, SMT DEF Fields, id

\* No field of a returned number runs into its neighbour: all six can be taken
\* out again, whatever the threads have made of them.
THEOREM IdsDecode == Spec => []IdDecodes
  <1>1. TypeOK => IdDecodes
    <2> SUFFICES ASSUME TypeOK, NEW t \in Threads
                 PROVE  own[t] = Fields(Pack(own[t]))
      BY SMT DEF IdDecodes, Fields
    <2> DEFINE z == own[t]
    <2>1. z \in Zone
      BY DEF TypeOK
    <2>2. /\ z.isp \in 0..63 /\ z.province \in 0..255 /\ z.province_area \in 0..15
          /\ z.country \in 0..63 /\ z.area \in 0..7 /\ z.contient \in 0..6
          /\ z = [isp |-> z.isp, province |-> z.province, province_area |-> z.province_area,
                  country |-> z.country, area |-> z.area, contient |-> z.contient]
      BY <2>1, SMT DEF Zone
    <2>3. Pack(z) = Number(z.isp, z.province, z.province_area, z.country, z.area, z.contient)
      BY SMT DEF Pack, Number
    <2> HIDE DEF z
    <2>4. Fields(Pack(z)) = z
      <3>1. Fields(Number(z.isp, z.province, z.province_area, z.country, z.area, z.contient)) =
              [isp |-> z.isp, province |-> z.province, province_area |-> z.province_area,
               country |-> z.country, area |-> z.area, contient |-> z.contient]
        BY <2>2, PackDecodes, Zenon
      <3> QED BY <2>2, <2>3, <3>1, Zenon
    <2> QED BY <2>4 DEF z
  <1> QED BY <1>1, TypeCorrect, PTL
=============================================================================
