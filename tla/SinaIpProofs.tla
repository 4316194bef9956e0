---------------------------- MODULE SinaIpProofs ----------------------------
(***************************************************************************)
(* Proofs about the resources of a request, for every number of variables, *)
(* calls of sinaip_init and addresses that fopen may return.               *)
(***************************************************************************)
EXTENDS SinaIp, FiniteSetTheorems, SequenceTheorems, TLAPS

Php == [fp : Streams \cup {"null"}, built : BOOLEAN, refs : Nat]

Typed(w) ==
    /\ w \in [resources : Seq(Php), stream : [Streams -> {"free", "open"}], freed : Seq(Nat)]
    /\ Len(w.freed) = Len(w.resources)

IdsOf(w) == DOMAIN w.resources

\* A whole resource that is listed.
Live(w, i) == w.resources[i].built /\ w.resources[i].refs > 0

\* A resource is destroyed once.  The open streams are those of the whole
\* resources that are listed, and what is registered behind one has another
\* address.
Life(w) ==
    /\ \A i \in IdsOf(w) : w.freed[i] = IF w.resources[i].refs = 0 THEN 1 ELSE 0
    /\ \A i \in IdsOf(w) : w.resources[i].built => w.resources[i].fp \in Streams
    /\ \A i \in IdsOf(w) : Live(w, i) =>
          /\ w.stream[w.resources[i].fp] = "open"
          /\ \A j \in IdsOf(w) : i < j => w.resources[j].fp # w.resources[i].fp
    /\ \A a \in Streams : w.stream[a] = "open" =>
          \E i \in IdsOf(w) : Live(w, i) /\ w.resources[i].fp = a

\* The variables that have number i.
Having(h, i) == {z \in Holders : h[z] = i}

\* The references of a whole resource that is not in c are those of the
\* variables h, and one more for the number o that is about to be dropped; a
\* half-built resource is in no variable and keeps its reference.
Counted(w, h, c, o) ==
    /\ \A z \in Holders : h[z] # 0 => h[z] \in IdsOf(w) /\ w.resources[h[z]].built
    /\ o # 0 => w.resources[o].built
    /\ \A i \in IdsOf(w) :
          IF w.resources[i].built
          THEN i \notin c =>
                  w.resources[i].refs = Cardinality(Having(h, i)) + (IF i = o THEN 1 ELSE 0)
          ELSE w.resources[i].refs = 1

\* A failed sinaip_init, once the destructor ran over what it left.
Botched(w) == \E i \in IdsOf(w) : ~w.resources[i].built /\ w.freed[i] = 1

IInv ==
    /\ TypeOK
    /\ phase # "crashed" => Life(world)
    /\ phase = "crashed" => Botched(world) /\ \A i \in Ids : freed[i] <= 1
    /\ phase \in {"running", "ending"} => Counted(world, holder, closed, 0)
    /\ phase = "ended" => Listed = {}
-----------------------------------------------------------------------------
LEMMA TypedWorld ==
    ASSUME NEW w, Typed(w)
    PROVE  /\ IdsOf(w) = 1..Len(w.resources) /\ Len(w.resources) \in Nat /\ 0 \notin IdsOf(w)
           /\ \A i \in IdsOf(w) : w.resources[i] \in Php /\ w.freed[i] \in Nat
  <1>1. /\ w.resources \in Seq(Php) /\ w.freed \in Seq(Nat)
        /\ Len(w.freed) = Len(w.resources)
    BY DEF Typed
  <1>2. IdsOf(w) = 1..Len(w.resources) /\ Len(w.resources) \in Nat
    BY <1>1, LenProperties DEF IdsOf
  <1>3. \A i \in IdsOf(w) : w.resources[i] \in Php /\ w.freed[i] \in Nat
    BY <1>1, <1>2, ElementOfSeq
  <1> QED BY <1>2, <1>3

LEMMA HavingCounts ==
    ASSUME NEW h, NEW i
    PROVE  IsFiniteSet(Having(h, i)) /\ Cardinality(Having(h, i)) \in Nat
  <1>1. Having(h, i) \in SUBSET Holders
    BY DEF Having
  <1>2. IsFiniteSet(Having(h, i))
    BY <1>1, HoldersAssumption, FS_Subset
  <1> QED BY <1>2, FS_CardinalityType

\* How the counts change when variable z takes the number v.
Assigned(g, h, z, v) == \A y \in Holders : g[y] = IF y = z THEN v ELSE h[y]

LEMMA CountAssigned ==
    ASSUME NEW h, NEW g, NEW z \in Holders, NEW v, NEW i, Assigned(g, h, z, v)
    PROVE  Cardinality(Having(g, i)) =
             Cardinality(Having(h, i)) - (IF h[z] = i THEN 1 ELSE 0) + (IF v = i THEN 1 ELSE 0)
  <1> DEFINE rest == Having(h, i) \ {z}
  <1>1. IsFiniteSet(Having(h, i)) /\ Cardinality(Having(h, i)) \in Nat
    BY HavingCounts
  <1>2. /\ IsFiniteSet(rest)
        /\ Cardinality(rest) = Cardinality(Having(h, i)) - (IF h[z] = i THEN 1 ELSE 0)
    <2>1. z \in Having(h, i) <=> h[z] = i
      BY DEF Having
    <2> QED BY <1>1, <2>1, FS_RemoveElement
  <1>3. Having(g, i) = IF v = i THEN rest \cup {z} ELSE rest
    BY DEF Having, Assigned
  <1>4. Cardinality(rest \cup {z}) = Cardinality(rest) + 1
    BY <1>2, FS_AddElement
  <1> QED BY <1>1, <1>2, <1>3, <1>4

LEMMA RefsChanged ==
    ASSUME NEW s \in Seq(Php), NEW id \in 1..Len(s), NEW n \in Nat
    PROVE  LET t == [s EXCEPT ![id].refs = n]
           IN  /\ t \in Seq(Php) /\ Len(t) = Len(s)
               /\ \A j \in 1..Len(s) : /\ t[j].fp = s[j].fp /\ t[j].built = s[j].built
                                        /\ t[j].refs = IF j = id THEN n ELSE s[j].refs
  <1> DEFINE e == [s[id] EXCEPT !.refs = n]
  <1>1. s[id] \in Php /\ e \in Php
    <2>1. s[id] \in Php
      BY ElementOfSeq
    <2> QED BY <2>1 DEF Php
  <1>2. e.fp = s[id].fp /\ e.built = s[id].built /\ e.refs = n
    BY <1>1 DEF Php
  <1>3. [s EXCEPT ![id].refs = n] = [s EXCEPT ![id] = e]
    OBVIOUS
  <1>4. /\ [s EXCEPT ![id] = e] \in Seq(Php) /\ Len([s EXCEPT ![id] = e]) = Len(s)
        /\ \A j \in 1..Len(s) : [s EXCEPT ![id] = e][j] = IF j = id THEN e ELSE s[j]
    BY <1>1, ExceptSeq
  <1> QED BY <1>2, <1>3, <1>4

\* The destructor.
LEMMA DestroyedWorld ==
    ASSUME NEW w, Typed(w), NEW id \in IdsOf(w)
    PROVE  LET d == Destroyed(w, id)
           IN  /\ Typed(d) /\ IdsOf(d) = IdsOf(w)
               /\ \A i \in IdsOf(w) :
                     /\ d.resources[i].fp = w.resources[i].fp
                     /\ d.resources[i].built = w.resources[i].built
                     /\ d.resources[i].refs = IF i = id THEN 0 ELSE w.resources[i].refs
                     /\ d.freed[i] = IF i = id THEN w.freed[i] + 1 ELSE w.freed[i]
               /\ \A a \in Streams :
                     d.stream[a] = IF a = w.resources[id].fp THEN "free" ELSE w.stream[a]
  <1> DEFINE d == Destroyed(w, id)
             f == [w.freed EXCEPT ![id] = @ + 1]
  <1>1. /\ w.resources \in Seq(Php) /\ w.freed \in Seq(Nat)
        /\ w.stream \in [Streams -> {"free", "open"}]
        /\ Len(w.freed) = Len(w.resources)
    BY DEF Typed
  <1>2. IdsOf(w) = 1..Len(w.resources) /\ Len(w.resources) \in Nat
    BY <1>1, LenProperties DEF IdsOf
  <1>3. w.freed[id] + 1 \in Nat /\ id \in 1..Len(w.freed)
    BY <1>1, <1>2, ElementOfSeq
  <1>4. /\ f \in Seq(Nat) /\ Len(f) = Len(w.freed)
        /\ \A i \in 1..Len(w.freed) : f[i] = IF i = id THEN w.freed[i] + 1 ELSE w.freed[i]
    BY <1>1, <1>3, ExceptSeq
  <1>5. /\ d.resources = [w.resources EXCEPT ![id].refs = 0] /\ d.freed = f
        /\ d.stream = [a \in Streams |-> IF a = w.resources[id].fp THEN "free" ELSE w.stream[a]]
        /\ d = [resources |-> d.resources, stream |-> d.stream, freed |-> d.freed]
    BY DEF Destroyed
  <1>6. /\ d.resources \in Seq(Php) /\ Len(d.resources) = Len(w.resources)
        /\ \A i \in 1..Len(w.resources) :
              /\ d.resources[i].fp = w.resources[i].fp
              /\ d.resources[i].built = w.resources[i].built
              /\ d.resources[i].refs = IF i = id THEN 0 ELSE w.resources[i].refs
    <2>1. PICK n \in Nat : n = 0
      OBVIOUS
    <2> DEFINE r == [w.resources EXCEPT ![id].refs = n]
    <2>2. /\ r \in Seq(Php) /\ Len(r) = Len(w.resources)
          /\ \A i \in 1..Len(w.resources) :
                /\ r[i].fp = w.resources[i].fp /\ r[i].built = w.resources[i].built
                /\ r[i].refs = IF i = id THEN n ELSE w.resources[i].refs
      BY <1>1, <1>2, RefsChanged
    <2>3. d.resources = r
      BY <1>5, <2>1
    <2> HIDE DEF d, r
    <2> QED BY <2>1, <2>2, <2>3
  <1>7. d.stream \in [Streams -> {"free", "open"}]
    BY <1>1, <1>5
  <1>8. Typed(d)
    BY <1>1, <1>4, <1>5, <1>6, <1>7 DEF Typed
  <1>9. IdsOf(d) = IdsOf(w)
    BY <1>2, <1>6, LenProperties DEF IdsOf
  <1> HIDE DEF d, f
  <1>10. \A i \in IdsOf(w) :
            /\ d.resources[i].fp = w.resources[i].fp
            /\ d.resources[i].built = w.resources[i].built
            /\ d.resources[i].refs = IF i = id THEN 0 ELSE w.resources[i].refs
            /\ d.freed[i] = IF i = id THEN w.freed[i] + 1 ELSE w.freed[i]
    BY <1>1, <1>2, <1>4, <1>5, <1>6
  <1>11. \A a \in Streams :
            d.stream[a] = IF a = w.resources[id].fp THEN "free" ELSE w.stream[a]
    BY <1>5
  <1> QED BY <1>8, <1>9, <1>10, <1>11 DEF d

\* One reference less, of several.
LEMMA ReleasedWorld ==
    ASSUME NEW w, Typed(w), NEW id \in IdsOf(w), NEW n \in Nat
    PROVE  LET d == [w EXCEPT !.resources[id].refs = n]
           IN  /\ Typed(d) /\ IdsOf(d) = IdsOf(w)
               /\ d.stream = w.stream /\ d.freed = w.freed
               /\ \A i \in IdsOf(w) :
                     /\ d.resources[i].fp = w.resources[i].fp
                     /\ d.resources[i].built = w.resources[i].built
                     /\ d.resources[i].refs = IF i = id THEN n ELSE w.resources[i].refs
  <1> DEFINE d == [w EXCEPT !.resources[id].refs = n]
             r == [w.resources EXCEPT ![id].refs = n]
  <1>1. /\ w.resources \in Seq(Php) /\ w.freed \in Seq(Nat)
        /\ w.stream \in [Streams -> {"free", "open"}]
        /\ Len(w.freed) = Len(w.resources)
        /\ w = [resources |-> w.resources, stream |-> w.stream, freed |-> w.freed]
    BY DEF Typed
  <1>2. IdsOf(w) = 1..Len(w.resources)
    BY <1>1, LenProperties DEF IdsOf
  <1>3. d = [resources |-> r, stream |-> w.stream, freed |-> w.freed]
    <2>1. d = [w EXCEPT !.resources = r]
      BY Zenon
    <2> HIDE DEF d, r
    <2> QED BY <1>1, <2>1
  <1>4. d.resources = r /\ d.stream = w.stream /\ d.freed = w.freed
    BY <1>3
  <1>5. /\ r \in Seq(Php) /\ Len(r) = Len(w.resources)
        /\ \A i \in 1..Len(w.resources) :
              /\ r[i].fp = w.resources[i].fp /\ r[i].built = w.resources[i].built
              /\ r[i].refs = IF i = id THEN n ELSE w.resources[i].refs
    BY <1>1, <1>2, RefsChanged
  <1>6. Typed(d)
    BY <1>1, <1>3, <1>5 DEF Typed
  <1>7. IdsOf(d) = IdsOf(w)
    BY <1>2, <1>4, <1>5, LenProperties DEF IdsOf
  <1> QED BY <1>2, <1>4, <1>5, <1>6, <1>7
-----------------------------------------------------------------------------
\* The destructor keeps the rest of the list as it is, if no other whole
\* resource has the address that it closes.
LEMMA DestroyedLife ==
    ASSUME NEW w, Typed(w), Life(w), NEW id \in IdsOf(w), w.resources[id].refs > 0,
           \A j \in IdsOf(w) : Live(w, j) /\ j # id => w.resources[j].fp # w.resources[id].fp
    PROVE  Life(Destroyed(w, id))
  <1> DEFINE d == Destroyed(w, id)
  <1>1. /\ Typed(d) /\ IdsOf(d) = IdsOf(w)
        /\ \A i \in IdsOf(w) :
              /\ d.resources[i].fp = w.resources[i].fp
              /\ d.resources[i].built = w.resources[i].built
              /\ d.resources[i].refs = IF i = id THEN 0 ELSE w.resources[i].refs
              /\ d.freed[i] = IF i = id THEN w.freed[i] + 1 ELSE w.freed[i]
        /\ \A a \in Streams :
              d.stream[a] = IF a = w.resources[id].fp THEN "free" ELSE w.stream[a]
    BY DestroyedWorld
  <1> HIDE DEF d
  <1>2. \A i \in IdsOf(w) : Live(d, i) <=> Live(w, i) /\ i # id
    BY <1>1 DEF Live
  <1>3. \A i \in IdsOf(d) : d.freed[i] = IF d.resources[i].refs = 0 THEN 1 ELSE 0
    BY <1>1 DEF Life
  <1>4. \A i \in IdsOf(d) : d.resources[i].built => d.resources[i].fp \in Streams
    BY <1>1 DEF Life
  <1>5. \A i \in IdsOf(d) : Live(d, i) =>
           /\ d.stream[d.resources[i].fp] = "open"
           /\ \A j \in IdsOf(d) : i < j => d.resources[j].fp # d.resources[i].fp
    <2> SUFFICES ASSUME NEW i \in IdsOf(w), Live(d, i)
                 PROVE  /\ d.stream[d.resources[i].fp] = "open"
                        /\ \A j \in IdsOf(w) : i < j => d.resources[j].fp # d.resources[i].fp
      BY <1>1
    <2>1. Live(w, i) /\ i # id
      BY <1>2
    <2>2. /\ w.resources[i].fp \in Streams /\ w.stream[w.resources[i].fp] = "open"
          /\ \A j \in IdsOf(w) : i < j => w.resources[j].fp # w.resources[i].fp
          /\ w.resources[i].fp # w.resources[id].fp
      BY <2>1 DEF Life, Live
    <2> QED BY <1>1, <2>2
  <1>6. \A a \in Streams : d.stream[a] = "open" =>
           \E i \in IdsOf(d) : Live(d, i) /\ d.resources[i].fp = a
    <2> SUFFICES ASSUME NEW a \in Streams, d.stream[a] = "open"
                 PROVE  \E i \in IdsOf(d) : Live(d, i) /\ d.resources[i].fp = a
      OBVIOUS
    <2>1. a # w.resources[id].fp /\ w.stream[a] = "open"
      BY <1>1
    <2>2. PICK i \in IdsOf(w) : Live(w, i) /\ w.resources[i].fp = a
      BY <2>1 DEF Life
    <2> QED BY <1>1, <1>2, <2>1, <2>2
  <1>7. Life(d)
    BY <1>3, <1>4, <1>5, <1>6 DEF Life
  <1> QED BY <1>7 DEF d

\* Dropping the number o: the counts are right again, and the destructor, when
\* it runs, closes a stream that is open.
LEMMA DeletedKeeps ==
    ASSUME NEW w, Typed(w), Life(w), NEW h, NEW c, NEW o \in IdsOf(w) \cup {0},
           Counted(w, h, c, o)
    PROVE  /\ Typed(Deleted(w, o)) /\ IdsOf(Deleted(w, o)) = IdsOf(w)
           /\ Life(Deleted(w, o)) /\ Counted(Deleted(w, o), h, c, 0)
           /\ o # 0 /\ w.resources[o].refs = 1 => Behind(w, o) = {phase}
  <1>1. 0 \notin IdsOf(w) /\ \A i \in IdsOf(w) : w.resources[i].refs \in Nat
    BY TypedWorld DEF Php
  <1>2. \A i : Cardinality(Having(h, i)) \in Nat
    BY HavingCounts
  <1>3. CASE o = 0
    <2>1. Deleted(w, o) = w
      BY <1>3 DEF Deleted
    <2> QED BY <1>3, <2>1
  <1>4. CASE o # 0 /\ w.resources[o].refs = 0
    <2>1. Deleted(w, o) = w
      BY <1>4 DEF Deleted
    <2>2. o \in c
      BY <1>1, <1>2, <1>4 DEF Counted
    <2>3. Counted(w, h, c, 0)
      BY <1>1, <1>2, <1>4, <2>2 DEF Counted
    <2> QED BY <1>4, <2>1, <2>3
  <1>5. CASE o # 0 /\ w.resources[o].refs = 1
    <2> DEFINE d == Destroyed(w, o)
    <2>1. Deleted(w, o) = d
      BY <1>5 DEF Deleted
    <2>2. /\ Typed(d) /\ IdsOf(d) = IdsOf(w)
          /\ \A i \in IdsOf(w) :
                /\ d.resources[i].fp = w.resources[i].fp
                /\ d.resources[i].built = w.resources[i].built
                /\ d.resources[i].refs = IF i = o THEN 0 ELSE w.resources[i].refs
      BY <1>5, DestroyedWorld
    <2> HIDE DEF d
    <2>3. Live(w, o)
      BY <1>5 DEF Counted, Live
    <2>4. /\ w.resources[o].fp \in Streams
          /\ w.stream[w.resources[o].fp] = "open"
      BY <1>5, <2>3 DEF Life, Live
    <2>5. \A j \in IdsOf(w) : Live(w, j) /\ j # o => w.resources[j].fp # w.resources[o].fp
      <3>1. IdsOf(w) \subseteq Nat
        BY TypedWorld
      <3> QED BY <1>5, <2>3, <3>1 DEF Life
    <2>6. Life(d)
      BY <1>5, <2>5, DestroyedLife DEF d
    <2>7. Counted(d, h, c, 0)
      <3>1. \A z \in Holders : h[z] # 0 => h[z] \in IdsOf(d) /\ d.resources[h[z]].built
        <4> SUFFICES ASSUME NEW z \in Holders, h[z] # 0
                     PROVE  h[z] \in IdsOf(d) /\ d.resources[h[z]].built
          OBVIOUS
        <4>1. h[z] \in IdsOf(w) /\ w.resources[h[z]].built
          BY DEF Counted
        <4> QED BY <2>2, <4>1
      <3>2. ASSUME NEW i \in IdsOf(d)
            PROVE  IF d.resources[i].built
                   THEN i \notin c => d.resources[i].refs = Cardinality(Having(h, i))
                   ELSE d.resources[i].refs = 1
        <4>1. CASE i = o
          <5>1. w.resources[o].built
            BY <1>5 DEF Counted
          <5>2. o \notin c => Cardinality(Having(h, o)) = 0
            BY <1>2, <1>5, <5>1 DEF Counted
          <5> QED BY <1>5, <2>2, <4>1, <5>1, <5>2
        <4>2. CASE i # o
          BY <1>2, <2>2, <4>2 DEF Counted
        <4> QED BY <4>1, <4>2
      <3> QED BY <1>1, <1>2, <2>2, <3>1, <3>2 DEF Counted
    <2>8. Behind(w, o) = {phase}
      BY <2>4, StreamsAssumption DEF Behind
    <2> QED BY <2>1, <2>2, <2>6, <2>7, <2>8
  <1>6. CASE o # 0 /\ w.resources[o].refs > 1
    <2>1. w.resources[o].refs - 1 \in Nat
      BY <1>1, <1>6
    <2> DEFINE d == [w EXCEPT !.resources[o].refs = w.resources[o].refs - 1]
    <2>2. Deleted(w, o) = d
      BY <1>6 DEF Deleted
    <2>3. /\ Typed(d) /\ IdsOf(d) = IdsOf(w)
          /\ d.stream = w.stream /\ d.freed = w.freed
          /\ \A i \in IdsOf(w) :
                /\ d.resources[i].fp = w.resources[i].fp
                /\ d.resources[i].built = w.resources[i].built
                /\ d.resources[i].refs =
                      IF i = o THEN w.resources[o].refs - 1 ELSE w.resources[i].refs
      BY <1>6, <2>1, ReleasedWorld
    <2> HIDE DEF d
    <2>4. \A i \in IdsOf(w) : Live(d, i) <=> Live(w, i)
      BY <1>1, <1>6, <2>3 DEF Live
    <2>5. Life(d)
      BY <1>1, <1>6, <2>3, <2>4 DEF Life
    <2>6. Counted(d, h, c, 0)
      <3>1. \A i \in IdsOf(d) :
               d.resources[i].built /\ i \notin c =>
                  d.resources[i].refs = Cardinality(Having(h, i)) + (IF i = 0 THEN 1 ELSE 0)
        <4>1. ASSUME NEW i \in IdsOf(w), d.resources[i].built, i \notin c
              PROVE  /\ w.resources[i].built
                     /\ w.resources[i].refs = Cardinality(Having(h, i)) + (IF i = o THEN 1 ELSE 0)
          BY <2>3, <4>1 DEF Counted
        <4> QED BY <1>1, <1>2, <1>6, <2>3, <4>1
      <3>2. \A i \in IdsOf(d) : ~d.resources[i].built => d.resources[i].refs = 1
        BY <1>6, <2>3 DEF Counted
      <3>3. \A z \in Holders : h[z] # 0 => h[z] \in IdsOf(d) /\ d.resources[h[z]].built
        BY <2>3 DEF Counted
      <3> QED BY <3>1, <3>2, <3>3 DEF Counted
    <2> QED BY <1>6, <2>2, <2>3, <2>5, <2>6
  <1> QED BY <1>1, <1>3, <1>4, <1>5, <1>6
-----------------------------------------------------------------------------
\* From the variables to a world and back.
LEMMA ThisWorld ==
    ASSUME TypeOK
    PROVE  /\ Typed(world) /\ IdsOf(world) = Ids
           /\ world.resources = resources /\ world.stream = stream /\ world.freed = freed
  <1>1. resources \in Seq(Php)
    BY DEF TypeOK, Php
  <1>2. Ids = 1..Len(resources) /\ Len(resources) \in Nat
    BY <1>1, LenProperties DEF Ids
  <1>3. freed \in Seq(Nat) /\ Len(freed) = Len(resources)
    BY <1>2, SeqDef DEF TypeOK
  <1> QED BY <1>1, <1>3 DEF TypeOK, Typed, IdsOf, Ids, world

LEMMA NextWorld ==
    ASSUME NEW w, Typed(w), Become(w), Len(w.resources) <= MaxInits,
           holder' \in [Holders -> IdsOf(w) \cup {0}], closed' \subseteq IdsOf(w),
           result' \in {"none", "value", "false", "null"},
           phase' \in {"running", "ending", "listing", "ended", "crashed"}
    PROVE  TypeOK' /\ world' = w /\ Ids' = IdsOf(w)
  <1>1. /\ w = [resources |-> w.resources, stream |-> w.stream, freed |-> w.freed]
        /\ w.resources \in Seq(Php) /\ w.stream \in [Streams -> {"free", "open"}]
        /\ w.freed \in Seq(Nat) /\ Len(w.freed) = Len(w.resources)
    BY DEF Typed
  <1>2. resources' = w.resources /\ stream' = w.stream /\ freed' = w.freed
    BY DEF Become
  <1>3. world' = w
    BY <1>1, <1>2 DEF world
  <1>4. Ids' = IdsOf(w)
    BY <1>2 DEF Ids, IdsOf
  <1>5. freed' \in [IdsOf(w) -> Nat]
    BY <1>1, <1>2, TypedWorld, LenProperties
  <1> QED BY <1>1, <1>2, <1>3, <1>4, <1>5 DEF TypeOK, Php

\* A call that ends by dropping the number o, in the running script or behind it.
LEMMA DropKeeps ==
    ASSUME NEW w, Typed(w), Life(w), Len(w.resources) <= MaxInits,
           NEW o \in IdsOf(w) \cup {0}, Counted(w, holder', closed', o),
           holder' \in [Holders -> IdsOf(w) \cup {0}], closed' \subseteq IdsOf(w),
           result' \in {"none", "value", "false", "null"},
           phase \in {"running", "ending"},
           \/ Drop(w, o)
           \/ Become(Deleted(w, o)) /\ phase' = phase
    PROVE  IInv'
  <1> DEFINE d == Deleted(w, o)
  <1>1. /\ Typed(d) /\ IdsOf(d) = IdsOf(w)
        /\ Life(d) /\ Counted(d, holder', closed', 0)
        /\ o # 0 /\ w.resources[o].refs = 1 => Behind(w, o) = {phase}
    BY DeletedKeeps
  <1>2. Become(d) /\ phase' = phase
    BY <1>1 DEF Drop
  <1> HIDE DEF d
  <1>3. Len(d.resources) = Len(w.resources)
    <2>1. /\ 1..Len(d.resources) = 1..Len(w.resources)
          /\ Len(d.resources) \in Nat /\ Len(w.resources) \in Nat
      BY <1>1, TypedWorld
    <2> QED BY <2>1
  <1>4. TypeOK' /\ world' = d /\ Ids' = IdsOf(d)
    BY <1>1, <1>2, <1>3, NextWorld
  <1>5. Life(world)' /\ Counted(world, holder, closed, 0)'
    BY <1>1, <1>4
  <1> QED BY <1>2, <1>4, <1>5 DEF IInv
-----------------------------------------------------------------------------
\* sinaip_init registers a resource.

Registered(w, fp, built, streams) ==
    [resources |-> Append(w.resources, php_sinaip(fp, built)),
     stream |-> streams, freed |-> Append(w.freed, 0)]

LEMMA RegisteredWorld ==
    ASSUME NEW w, Typed(w), NEW fp \in Streams \cup {"null"}, NEW built \in BOOLEAN,
           NEW streams \in [Streams -> {"free", "open"}]
    PROVE  LET v == Registered(w, fp, built, streams)
               id == Len(w.resources) + 1
           IN  /\ Typed(v) /\ IdsOf(v) = IdsOf(w) \cup {id} /\ id \notin IdsOf(w)
               /\ Len(v.resources) = id /\ v.stream = streams
               /\ v.resources[id] = php_sinaip(fp, built) /\ v.freed[id] = 0
               /\ \A i \in IdsOf(w) : /\ v.resources[i] = w.resources[i] /\ v.freed[i] = w.freed[i]
                                      /\ i < id
  <1> DEFINE v == Registered(w, fp, built, streams)
             id == Len(w.resources) + 1
             r == Append(w.resources, php_sinaip(fp, built))
             f == Append(w.freed, 0)
  <1>1. /\ w.resources \in Seq(Php) /\ w.freed \in Seq(Nat)
        /\ Len(w.freed) = Len(w.resources) /\ Len(w.resources) \in Nat
        /\ IdsOf(w) = 1..Len(w.resources)
    BY TypedWorld DEF Typed
  <1>2. php_sinaip(fp, built) \in Php
    BY DEF php_sinaip, Php
  <1>3. /\ r \in Seq(Php) /\ Len(r) = id
        /\ \A i \in 1..Len(w.resources) : r[i] = w.resources[i]
        /\ r[id] = php_sinaip(fp, built)
    BY <1>1, <1>2, AppendProperties
  <1>4. /\ f \in Seq(Nat) /\ Len(f) = id
        /\ \A i \in 1..Len(w.resources) : f[i] = w.freed[i]
        /\ f[id] = 0
    BY <1>1, AppendProperties
  <1>5. /\ v = [resources |-> r, stream |-> streams, freed |-> f]
        /\ v.resources = r /\ v.stream = streams /\ v.freed = f
    BY DEF Registered
  <1> HIDE DEF v, r, f
  <1>6. Typed(v)
    BY <1>3, <1>4, <1>5 DEF Typed
  <1>7. IdsOf(v) = 1..id
    BY <1>3, <1>5, <1>6, TypedWorld
  <1>8. 1..id = (1..Len(w.resources)) \cup {id} /\ id \notin 1..Len(w.resources)
    BY <1>1
  <1> QED BY <1>1, <1>3, <1>4, <1>5, <1>6, <1>7, <1>8 DEF v

\* What is registered has no stream, one that is closed again, or a new one.
LEMMA RegisteredLife ==
    ASSUME NEW w, Typed(w), Life(w), NEW fp \in Streams \cup {"null"}, NEW built \in BOOLEAN,
           fp # "null" => w.stream[fp] = "free", built => fp # "null"
    PROVE  Life(Registered(w, fp, built,
                           IF built THEN [w.stream EXCEPT ![fp] = "open"] ELSE w.stream))
  <1> DEFINE streams == IF built THEN [w.stream EXCEPT ![fp] = "open"] ELSE w.stream
             v == Registered(w, fp, built, streams)
             id == Len(w.resources) + 1
  <1>1. streams \in [Streams -> {"free", "open"}]
    BY DEF Typed
  <1>2. \A a \in Streams : streams[a] = IF built /\ a = fp THEN "open" ELSE w.stream[a]
    BY DEF Typed
  <1> HIDE DEF streams
  <1>3. /\ IdsOf(v) = IdsOf(w) \cup {id} /\ id \notin IdsOf(w) /\ v.stream = streams
        /\ v.resources[id] = php_sinaip(fp, built) /\ v.freed[id] = 0
        /\ \A i \in IdsOf(w) : /\ v.resources[i] = w.resources[i] /\ v.freed[i] = w.freed[i]
                               /\ i < id
        /\ IdsOf(w) \subseteq Nat /\ id \in Nat
    <2>1. IdsOf(w) \subseteq Nat /\ id \in Nat
      BY TypedWorld
    <2>2. /\ IdsOf(v) = IdsOf(w) \cup {id} /\ id \notin IdsOf(w) /\ v.stream = streams
          /\ v.resources[id] = php_sinaip(fp, built) /\ v.freed[id] = 0
          /\ \A i \in IdsOf(w) : /\ v.resources[i] = w.resources[i] /\ v.freed[i] = w.freed[i]
                                 /\ i < id
      BY <1>1, RegisteredWorld
    <2> QED BY <2>1, <2>2
  <1>4. /\ v.resources[id].fp = fp /\ v.resources[id].built = built
        /\ v.resources[id].refs = 1
    BY <1>3 DEF php_sinaip
  <1> HIDE DEF v, id
  <1>5. \A i \in IdsOf(w) : Live(v, i) <=> Live(w, i)
    BY <1>3 DEF Live
  <1>6. Live(v, id) <=> built
    BY <1>4 DEF Live
  <1>7. \A i \in IdsOf(v) : v.freed[i] = IF v.resources[i].refs = 0 THEN 1 ELSE 0
    BY <1>3, <1>4 DEF Life
  <1>8. \A i \in IdsOf(v) : v.resources[i].built => v.resources[i].fp \in Streams
    BY <1>3, <1>4 DEF Life
  <1>9. ASSUME NEW i \in IdsOf(v), Live(v, i)
        PROVE  /\ v.stream[v.resources[i].fp] = "open"
               /\ \A j \in IdsOf(v) : i < j => v.resources[j].fp # v.resources[i].fp
    <2>1. CASE i = id
      <3>1. \A j \in IdsOf(v) : ~(i < j)
        BY <1>3, <2>1
      <3> QED BY <1>3, <1>4, <1>2, <1>6, <1>9, <2>1, <3>1
    <2>2. CASE i \in IdsOf(w)
      <3>1. /\ v.resources[i].fp \in Streams /\ w.stream[v.resources[i].fp] = "open"
            /\ \A j \in IdsOf(w) : i < j => w.resources[j].fp # w.resources[i].fp
        BY <1>3, <1>5, <1>9, <2>2 DEF Life, Live
      <3>2. fp # v.resources[i].fp
        BY <3>1, StreamsAssumption
      <3> QED BY <1>3, <1>4, <1>2, <2>2, <3>1, <3>2
    <2> QED BY <1>3, <2>1, <2>2
  <1>10. ASSUME NEW a \in Streams, v.stream[a] = "open"
         PROVE  \E i \in IdsOf(v) : Live(v, i) /\ v.resources[i].fp = a
    <2>1. CASE built /\ a = fp
      BY <1>3, <1>4, <1>6, <2>1
    <2>2. CASE ~(built /\ a = fp)
      <3>1. w.stream[a] = "open"
        BY <1>3, <1>2, <1>10, <2>2
      <3>2. PICK i \in IdsOf(w) : Live(w, i) /\ w.resources[i].fp = a
        BY <3>1 DEF Life
      <3> QED BY <1>3, <1>5, <3>2
    <2> QED BY <2>1, <2>2
  <1>11. Life(v)
    BY <1>7, <1>8, <1>9, <1>10 DEF Life
  <1> QED BY <1>11 DEF v, streams
LEMMA RegisteredHere ==
    ASSUME TypeOK, NEW fp \in Streams \cup {"null"}, NEW built \in BOOLEAN,
           NEW streams \in [Streams -> {"free", "open"}]
    PROVE  LET v == Registered(world, fp, built, streams)
               id == Len(resources) + 1
           IN  /\ Typed(v) /\ IdsOf(v) = Ids \cup {id} /\ id \notin Ids
               /\ Len(v.resources) = id
               /\ v.resources[id] = php_sinaip(fp, built)
               /\ \A i \in Ids : v.resources[i] = resources[i]
  <1> DEFINE v == Registered(world, fp, built, streams)
             id == Len(world.resources) + 1
  <1>1. /\ Typed(world) /\ IdsOf(world) = Ids /\ world.resources = resources
    BY ThisWorld
  <1>2. /\ Typed(v) /\ IdsOf(v) = IdsOf(world) \cup {id} /\ id \notin IdsOf(world)
        /\ Len(v.resources) = id
        /\ v.resources[id] = php_sinaip(fp, built)
        /\ \A i \in IdsOf(world) : v.resources[i] = world.resources[i]
    BY <1>1, RegisteredWorld
  <1> HIDE DEF v
  <1>3. id = Len(resources) + 1
    BY <1>1
  <1> HIDE DEF id
  <1>4. /\ Typed(v) /\ IdsOf(v) = Ids \cup {id} /\ id \notin Ids
        /\ Len(v.resources) = id
        /\ v.resources[id] = php_sinaip(fp, built)
        /\ \A i \in Ids : v.resources[i] = resources[i]
    BY <1>1, <1>2
  <1> QED BY <1>3, <1>4 DEF v

\* The variable has the new resource, if it is whole, and the old number is to
\* be dropped.
LEMMA RegisteredCounted ==
    ASSUME IInv, phase = "running", NEW z \in Holders,
           NEW fp \in Streams \cup {"null"}, NEW built \in BOOLEAN,
           NEW streams \in [Streams -> {"free", "open"}]
    PROVE  LET id == Len(resources) + 1
           IN  Counted(Registered(world, fp, built, streams),
                       [holder EXCEPT ![z] = IF built THEN id ELSE 0], closed, holder[z])
  <1> DEFINE v == Registered(world, fp, built, streams)
             id == Len(resources) + 1
             new == IF built THEN id ELSE 0
             h == [holder EXCEPT ![z] = new]
  <1>1. /\ Typed(world) /\ IdsOf(world) = Ids
        /\ world.resources = resources /\ world.stream = stream /\ world.freed = freed
    BY ThisWorld DEF IInv
  <1>2. /\ IdsOf(v) = Ids \cup {id} /\ id \notin Ids
        /\ v.resources[id] = php_sinaip(fp, built)
        /\ \A i \in Ids : v.resources[i] = resources[i]
    BY RegisteredHere DEF IInv
  <1>3. v.resources[id].built = built /\ v.resources[id].refs = 1
    BY <1>2 DEF php_sinaip
  <1>4. /\ Counted(world, holder, closed, 0) /\ closed \subseteq Ids
        /\ holder \in [Holders -> Ids \cup {0}]
        /\ 0 \notin Ids /\ id # 0
    BY <1>1, TypedWorld DEF IInv, TypeOK
  <1>5. new = IF built THEN id ELSE 0
    OBVIOUS
  <1> HIDE DEF v, id, new
  <1>6. \A y \in Holders : h[y] = IF y = z THEN new ELSE holder[y]
    BY <1>4
  <1> HIDE DEF h
  <1>7. ASSUME NEW i
        PROVE  /\ Cardinality(Having(h, i)) =
                     Cardinality(Having(holder, i)) - (IF holder[z] = i THEN 1 ELSE 0)
                       + (IF new = i THEN 1 ELSE 0)
               /\ Cardinality(Having(holder, i)) \in Nat
    <2>1. Assigned(h, holder, z, new)
      BY <1>6 DEF Assigned
    <2> QED BY <2>1, CountAssigned, HavingCounts
  <1>8. \A y \in Holders : h[y] # 0 => h[y] \in IdsOf(v) /\ v.resources[h[y]].built
    BY <1>1, <1>2, <1>3, <1>4, <1>5, <1>6 DEF Counted
  <1>9. holder[z] # 0 => v.resources[holder[z]].built
    BY <1>1, <1>2, <1>4 DEF Counted
  <1>10. ASSUME NEW i \in IdsOf(v)
        PROVE  IF v.resources[i].built
               THEN i \notin closed =>
                       v.resources[i].refs = Cardinality(Having(h, i))
                                               + (IF i = holder[z] THEN 1 ELSE 0)
               ELSE v.resources[i].refs = 1
    <2>1. CASE i = id
      <3>1. Having(holder, id) = {}
        BY <1>2, <1>4 DEF Having
      <3>2. Cardinality(Having(holder, id)) = 0
        BY <3>1, FS_EmptySet
      <3>3. holder[z] # id
        BY <1>2, <1>4
      <3>4. built => Cardinality(Having(h, id)) = 1
        BY <1>5, <1>7, <3>2, <3>3
      <3> QED BY <1>3, <2>1, <3>3, <3>4
    <2>2. CASE i \in Ids
      <3>1. v.resources[i] = resources[i] /\ i # id /\ i # 0
        BY <1>2, <1>4, <2>2
      <3>2. IF resources[i].built
            THEN i \notin closed => resources[i].refs = Cardinality(Having(holder, i)) + 0
            ELSE resources[i].refs = 1
        BY <1>1, <1>4, <2>2, <3>1 DEF Counted
      <3>3. Cardinality(Having(h, i)) =
              Cardinality(Having(holder, i)) - (IF holder[z] = i THEN 1 ELSE 0)
        BY <1>2, <1>4, <1>5, <1>7, <2>2, <3>1
      <3> QED BY <1>7, <3>1, <3>2, <3>3
    <2> QED BY <1>2, <2>1, <2>2
  <1>11. Counted(v, h, closed, holder[z])
    BY <1>8, <1>9, <1>10 DEF Counted
  <1> QED BY <1>11 DEF v, h, new, id
-----------------------------------------------------------------------------
\* The steps.

LEMMA InitInv == Init => IInv
  <1> SUFFICES ASSUME Init PROVE IInv
    OBVIOUS
  <1>1. /\ resources = <<>> /\ freed = <<>> /\ closed = {} /\ phase = "running"
        /\ holder = [z \in Holders |-> 0] /\ stream = [a \in Streams |-> "free"]
        /\ result = "none"
    BY DEF Init
  <1>2. Ids = {} /\ Len(resources) = 0 /\ resources \in Seq(Php)
    BY <1>1, EmptySeq DEF Ids
  <1>3. TypeOK
    BY <1>1, <1>2, MaxInitsAssumption DEF TypeOK, Php
  <1>4. IdsOf(world) = {} /\ \A a \in Streams : world.stream[a] = "free"
    BY <1>1, <1>2, <1>3, ThisWorld
  <1>5. Life(world) /\ Counted(world, holder, closed, 0)
    BY <1>1, <1>4 DEF Life, Counted
  <1> QED BY <1>1, <1>3, <1>5 DEF IInv

LEMMA SinaipInitInv ==
    ASSUME IInv, NEW z \in Holders, NEW opens \in {"null", "short", "empty", "data"},
           SinaipInit(z, opens)
    PROVE  IInv'
  <1> DEFINE built == opens = "data"
             id == Len(resources) + 1
  <1>1. phase = "running" /\ Len(resources) < MaxInits /\ closed' = closed
        /\ holder' = [holder EXCEPT ![z] = IF built THEN id ELSE 0]
        /\ result' \in {"value", "false"}
    BY DEF SinaipInit, Returns
  <1>2. PICK fp \in Streams \cup {"null"} :
           LET streams == IF built THEN [stream EXCEPT ![fp] = "open"] ELSE stream
           IN  /\ Drop(Registered(world, fp, built, streams), holder[z])
               /\ fp # "null" => stream[fp] = "free"
               /\ built => fp # "null"
    <2>1. CASE opens = "null"
      BY <2>1 DEF SinaipInit, Registered, world
    <2>2. CASE opens # "null"
      BY <2>2, StreamsAssumption DEF SinaipInit, Registered, world
    <2> QED BY <2>1, <2>2
  <1> DEFINE streams == IF built THEN [stream EXCEPT ![fp] = "open"] ELSE stream
             w == Registered(world, fp, built, streams)
  <1>3. /\ Typed(world) /\ IdsOf(world) = Ids /\ Life(world)
        /\ world.resources = resources /\ world.stream = stream
        /\ stream \in [Streams -> {"free", "open"}]
        /\ holder \in [Holders -> Ids \cup {0}] /\ closed \subseteq Ids
    BY <1>1, ThisWorld DEF IInv, TypeOK
  <1>4. streams \in [Streams -> {"free", "open"}]
    BY <1>3
  <1>5. Life(w)
    BY <1>2, <1>3, RegisteredLife
  <1>6. Drop(w, holder[z])
    BY <1>2
  <1> HIDE DEF streams
  <1>7. Counted(w, holder', closed', holder[z])
    BY <1>1, <1>4, RegisteredCounted
  <1>8. Typed(w) /\ IdsOf(w) = Ids \cup {id} /\ Len(w.resources) = id
    BY <1>4, RegisteredHere DEF IInv
  <1> HIDE DEF w
  <1>9. /\ holder' \in [Holders -> IdsOf(w) \cup {0}] /\ closed' \subseteq IdsOf(w)
        /\ holder[z] \in IdsOf(w) \cup {0}
    BY <1>1, <1>3, <1>8
  <1>10. Len(w.resources) <= MaxInits
    BY <1>1, <1>3, <1>8, TypedWorld, MaxInitsAssumption
  <1> QED BY <1>1, <1>5, <1>6, <1>7, <1>8, <1>9, <1>10, DropKeeps

LEMMA CopyInv ==
    ASSUME IInv, NEW z \in Holders, NEW y \in Holders, Copy(z, y)
    PROVE  IInv'
  <1> DEFINE id == holder[y]
             w == Copied(world, id)
             h == [holder EXCEPT ![z] = id]
  <1>1. /\ phase = "running" /\ z # y /\ closed' = closed /\ result' = result
        /\ holder' = h /\ Drop(w, holder[z])
    BY DEF Copy
  <1>2. /\ Typed(world) /\ IdsOf(world) = Ids /\ Life(world)
        /\ world.resources = resources /\ world.stream = stream /\ world.freed = freed
        /\ holder \in [Holders -> Ids \cup {0}] /\ closed \subseteq Ids
        /\ Counted(world, holder, closed, 0) /\ 0 \notin Ids
        /\ Len(resources) <= MaxInits /\ result \in {"none", "value", "false", "null"}
    BY <1>1, ThisWorld, TypedWorld DEF IInv, TypeOK
  <1>3. \A i \in Ids : resources[i].refs \in Nat
    BY <1>2, TypedWorld DEF Php
  <1>4. id \in Ids \cup {0}
    BY <1>2
  <1> HIDE DEF id
  <1>5. /\ Typed(w) /\ IdsOf(w) = Ids /\ Life(w) /\ Len(w.resources) = Len(resources)
        /\ \A i \in Ids : w.resources[i].built = resources[i].built
        /\ \A i \in Ids : w.resources[i].refs =
              IF i = id /\ resources[i].refs > 0 THEN resources[i].refs + 1 ELSE resources[i].refs
    <2>1. CASE id # 0 /\ resources[id].refs > 0
      <3> DEFINE n == resources[id].refs + 1
                 v == [world EXCEPT !.resources[id].refs = n]
      <3>1. w = v
        BY <1>2, <2>1 DEF Copied
      <3>2. n \in Nat /\ n > 0
        BY <1>3, <1>4, <2>1
      <3>3. n = resources[id].refs + 1
        OBVIOUS
      <3> HIDE DEF n
      <3>4. /\ Typed(v) /\ IdsOf(v) = IdsOf(world)
            /\ v.stream = world.stream /\ v.freed = world.freed
            /\ \A i \in IdsOf(world) :
                  /\ v.resources[i].fp = world.resources[i].fp
                  /\ v.resources[i].built = world.resources[i].built
                  /\ v.resources[i].refs = IF i = id THEN n ELSE world.resources[i].refs
        BY <1>2, <1>4, <2>1, <3>2, ReleasedWorld
      <3> HIDE DEF v, w
      <3>5. \A i \in Ids : Live(v, i) <=> Live(world, i)
        BY <1>2, <2>1, <3>2, <3>4 DEF Live
      <3>6. \A i \in Ids : v.resources[i].refs = 0 <=> world.resources[i].refs = 0
        BY <1>2, <2>1, <3>2, <3>4
      <3>7. Life(v)
        BY <1>2, <3>4, <3>5, <3>6 DEF Life
      <3>8. Len(v.resources) = Len(resources)
        <4>1. /\ 1..Len(v.resources) = 1..Len(world.resources)
              /\ Len(v.resources) \in Nat /\ Len(world.resources) \in Nat
          BY <1>2, <3>4, TypedWorld
        <4> QED BY <1>2, <4>1
      <3> QED BY <1>2, <2>1, <3>1, <3>3, <3>4, <3>7, <3>8
    <2>2. CASE ~(id # 0 /\ resources[id].refs > 0)
      <3>1. w = world
        BY <1>2, <2>2 DEF Copied
      <3> HIDE DEF w
      <3> QED BY <1>2, <2>2, <3>1
    <2> QED BY <2>1, <2>2
  <1> HIDE DEF w
  <1>6. \A x \in Holders : h[x] = IF x = z THEN id ELSE holder[x]
    BY <1>2
  <1>7. id = holder[y]
    BY DEF id
  <1>8. holder' \in [Holders -> Ids \cup {0}]
    BY <1>1, <1>2, <1>4
  <1> HIDE DEF h
  <1>9. ASSUME NEW i
        PROVE  /\ Cardinality(Having(h, i)) =
                     Cardinality(Having(holder, i)) - (IF holder[z] = i THEN 1 ELSE 0)
                       + (IF id = i THEN 1 ELSE 0)
               /\ Cardinality(Having(holder, i)) \in Nat
    <2>1. Assigned(h, holder, z, id)
      BY <1>6 DEF Assigned
    <2> QED BY <2>1, CountAssigned, HavingCounts
  <1>10. \A x \in Holders : holder[x] # 0 => w.resources[holder[x]].built
    BY <1>2, <1>5 DEF Counted
  <1>11. ASSUME NEW i \in Ids
        PROVE  IF w.resources[i].built
               THEN i \notin closed =>
                       w.resources[i].refs = Cardinality(Having(h, i))
                                               + (IF i = holder[z] THEN 1 ELSE 0)
               ELSE w.resources[i].refs = 1
    <2>1. IF resources[i].built
          THEN i \notin closed => resources[i].refs = Cardinality(Having(holder, i)) + 0
          ELSE resources[i].refs = 1
      BY <1>2 DEF Counted
    <2>2. CASE i = id
      <3>1. resources[i].built /\ y \in Having(holder, i)
        BY <1>2, <1>7, <2>2 DEF Counted, Having
      <3>2. Cardinality(Having(holder, i)) > 0
        BY <3>1, HavingCounts, FS_EmptySet
      <3> QED BY <1>5, <1>9, <2>1, <2>2, <3>1, <3>2
    <2>3. CASE i # id
      BY <1>5, <1>9, <2>1, <2>3
    <2> QED BY <2>2, <2>3
  <1>12. \A x \in Holders : h[x] # 0 => h[x] \in IdsOf(w) /\ w.resources[h[x]].built
    BY <1>1, <1>2, <1>4, <1>5, <1>6, <1>7, <1>8, <1>10
  <1>13. Counted(w, h, closed, holder[z])
    BY <1>2, <1>5, <1>10, <1>11, <1>12 DEF Counted
  <1> QED BY <1>1, <1>2, <1>5, <1>8, <1>13, DropKeeps

LEMMA UnsetInv ==
    ASSUME IInv, NEW z \in Holders, Unset(z)
    PROVE  IInv'
  <1> DEFINE h == [holder EXCEPT ![z] = 0]
  <1>1. /\ phase \in {"running", "ending"} /\ closed' = closed /\ result' = result
        /\ holder' = h /\ Drop(world, holder[z])
    BY DEF Unset
  <1>2. /\ Typed(world) /\ IdsOf(world) = Ids /\ Life(world)
        /\ world.resources = resources
        /\ holder \in [Holders -> Ids \cup {0}] /\ closed \subseteq Ids
        /\ Counted(world, holder, closed, 0) /\ 0 \notin Ids
        /\ Len(resources) <= MaxInits /\ result \in {"none", "value", "false", "null"}
    BY <1>1, ThisWorld, TypedWorld DEF IInv, TypeOK
  <1>3. ASSUME NEW i \in Ids
        PROVE  Cardinality(Having(h, i)) + (IF i = holder[z] THEN 1 ELSE 0) =
                  Cardinality(Having(holder, i))
    <2>1. Assigned(h, holder, z, 0)
      BY <1>2 DEF Assigned
    <2> HIDE DEF h
    <2>2. Cardinality(Having(h, i)) =
            Cardinality(Having(holder, i)) - (IF holder[z] = i THEN 1 ELSE 0)
              + (IF 0 = i THEN 1 ELSE 0)
      BY <2>1, CountAssigned
    <2> QED BY <1>2, <2>2, HavingCounts
  <1>4. holder' \in [Holders -> Ids \cup {0}]
    BY <1>1, <1>2
  <1>5. \A x \in Holders : holder'[x] # 0 => holder'[x] = holder[x]
    BY <1>1, <1>2
  <1> HIDE DEF h
  <1>6. Counted(world, holder', closed', holder[z])
    <2>1. \A i \in Ids :
             IF resources[i].built
             THEN i \notin closed => resources[i].refs = Cardinality(Having(holder, i)) + 0
             ELSE resources[i].refs = 1
      BY <1>2 DEF Counted
    <2>2. \A i \in Ids : Cardinality(Having(holder, i)) \in Nat
      BY HavingCounts
    <2>3. \A i \in IdsOf(world) :
             IF world.resources[i].built
             THEN i \notin closed' =>
                     world.resources[i].refs = Cardinality(Having(holder', i))
                                                 + (IF i = holder[z] THEN 1 ELSE 0)
             ELSE world.resources[i].refs = 1
      BY <1>1, <1>2, <1>3, <2>1, <2>2
    <2>4. holder[z] # 0 => world.resources[holder[z]].built
      BY <1>2 DEF Counted
    <2>5. \A x \in Holders : holder'[x] # 0 => /\ holder'[x] \in IdsOf(world)
                                               /\ world.resources[holder'[x]].built
      BY <1>2, <1>5 DEF Counted
    <2> QED BY <2>3, <2>4, <2>5 DEF Counted
  <1> QED BY <1>1, <1>2, <1>4, <1>6, DropKeeps

LEMMA SinaipCloseInv ==
    ASSUME IInv, NEW z \in Holders, SinaipClose(z)
    PROVE  IInv'
  <1>1. /\ phase = "running" /\ phase' = phase /\ holder' = holder
        /\ result' \in {"value", "false"}
    BY DEF SinaipClose
  <1>2. /\ Typed(world) /\ IdsOf(world) = Ids /\ Life(world)
        /\ world.resources = resources
        /\ holder \in [Holders -> Ids \cup {0}] /\ closed \subseteq Ids
        /\ Counted(world, holder, closed, 0) /\ 0 \notin Ids
        /\ Len(resources) <= MaxInits
    BY <1>1, ThisWorld, TypedWorld DEF IInv, TypeOK
  <1>3. CASE Fetched(z)
    <2>1. /\ Become(Deleted(world, holder[z])) /\ closed' = closed \cup {holder[z]}
          /\ holder[z] \in Ids
      BY <1>2, <1>3 DEF SinaipClose, Closed, Fetched
    <2>2. \A i \in Ids : Cardinality(Having(holder, i)) \in Nat
      BY HavingCounts
    <2>3. Counted(world, holder', closed', holder[z])
      BY <1>1, <1>2, <2>1, <2>2 DEF Counted
    <2> QED BY <1>1, <1>2, <2>1, <2>3, DropKeeps
  <1>4. CASE ~Fetched(z)
    <2>1. UNCHANGED <<resources, stream, freed, closed>>
      BY <1>4 DEF SinaipClose
    <2>2. Become(Deleted(world, 0)) /\ Counted(world, holder', closed', 0)
      BY <1>1, <1>2, <2>1 DEF Become, Deleted, world
    <2> QED BY <1>1, <1>2, <2>1, <2>2, DropKeeps
  <1> QED BY <1>3, <1>4

\* What leaves the resources and the variables alone.
LEMMA OnlyPhase ==
    ASSUME IInv, UNCHANGED <<resources, stream, holder, closed, freed>>,
           result' \in {"none", "value", "false", "null"},
           \/ phase' = phase
           \/ phase = "running" /\ phase' = "ending"
           \/ phase = "ending" /\ phase' = "listing"
           \/ phase = "listing" /\ phase' = "ended" /\ Listed = {}
    PROVE  IInv'
  <1>1. /\ resources' = resources /\ stream' = stream /\ holder' = holder
        /\ closed' = closed /\ freed' = freed
    OBVIOUS
  <1>2. TypeOK'
    BY <1>1 DEF IInv, TypeOK, Ids
  <1>3. world' = world /\ Ids' = Ids /\ Listed' = Listed
    BY <1>1 DEF world, Ids, Listed
  <1>4. /\ Life(world)' <=> Life(world)
        /\ Botched(world)' <=> Botched(world)
        /\ Counted(world, holder, closed, 0)' <=> Counted(world, holder, closed, 0)
    BY <1>1, <1>3
  <1>5. (\A i \in Ids : freed[i] <= 1)' <=> (\A i \in Ids : freed[i] <= 1)
    BY <1>1, <1>3
  <1> QED BY <1>2, <1>3, <1>4, <1>5 DEF IInv

\* The list is emptied from its end, so that the address of a half-built
\* resource is nobody's when the destructor closes it.
LEMMA DestroyNextInv ==
    ASSUME IInv, DestroyNext
    PROVE  IInv'
  <1>1. PICK id \in Listed : /\ \A j \in Listed : j <= id
                             /\ Become(Destroyed(world, id)) /\ phase' \in Behind(world, id)
    BY DEF DestroyNext, NextDestroyed
  <1> DEFINE d == Destroyed(world, id)
  <1>2. /\ phase = "listing" /\ Become(d) /\ phase' \in Behind(world, id)
        /\ holder' = holder /\ closed' = closed /\ result' = result
    BY <1>1 DEF DestroyNext
  <1>3. /\ Typed(world) /\ IdsOf(world) = Ids /\ Life(world)
        /\ world.resources = resources /\ world.freed = freed /\ world.stream = stream
        /\ Ids = 1..Len(resources) /\ Len(resources) \in Nat
        /\ \A i \in Ids : resources[i] \in Php
    BY <1>2, ThisWorld, TypedWorld DEF IInv
  <1>4. id \in Ids /\ world.resources[id].refs > 0
    BY <1>3, <1>1 DEF Listed
  <1>5. \A j \in Ids : Live(world, j) /\ j # id =>
           world.resources[j].fp # world.resources[id].fp
    <2>1. \A j \in Ids : Live(world, j) /\ j # id => j < id
      BY <1>3, <1>1, <1>4 DEF Live, Listed
    <2> QED BY <1>3, <1>4, <2>1 DEF Life
  <1>6. Life(d)
    BY <1>3, <1>4, <1>5, DestroyedLife
  <1>7. /\ Typed(d) /\ IdsOf(d) = Ids
        /\ d.resources[id].built = resources[id].built /\ d.freed[id] = freed[id] + 1
    BY <1>3, <1>4, DestroyedWorld
  <1>8. d.freed[id] = 1
    BY <1>3, <1>4, <1>7 DEF Life
  <1> HIDE DEF d
  <1>9. phase' \in {"listing", "crashed"}
    BY <1>2 DEF Behind
  <1>10. phase' = "crashed" => ~resources[id].built
    <2>1. resources[id].built => /\ resources[id].fp \in Streams
                                 /\ stream[resources[id].fp] = "open"
      BY <1>3, <1>4 DEF Life, Live
    <2> QED BY <1>2, <1>3, <2>1, StreamsAssumption DEF Behind
  <1>11. Len(d.resources) = Len(resources)
    <2>1. 1..Len(d.resources) = 1..Len(resources) /\ Len(d.resources) \in Nat
      BY <1>3, <1>7, TypedWorld
    <2> QED BY <1>3, <2>1
  <1>12. TypeOK' /\ world' = d /\ Ids' = IdsOf(d)
    BY <1>2, <1>3, <1>7, <1>9, <1>11, NextWorld DEF IInv, TypeOK
  <1>13. Life(world)'
    BY <1>6, <1>12
  <1>14. phase' = "crashed" => Botched(world)'
    <2>1. phase' = "crashed" => Botched(d)
      BY <1>4, <1>7, <1>8, <1>10 DEF Botched
    <2> QED BY <1>12, <2>1
  <1>15. \A i \in Ids' : freed'[i] <= 1
    <2>1. freed' = d.freed
      BY <1>2 DEF Become
    <2> QED BY <1>6, <1>12, <2>1 DEF Life
  <1> QED BY <1>9, <1>12, <1>13, <1>14, <1>15 DEF IInv

LEMMA NextInv == IInv /\ [Next]_vars => IInv'
  <1> SUFFICES ASSUME IInv, [Next]_vars PROVE IInv'
    OBVIOUS
  <1>1. CASE UNCHANGED vars
    BY <1>1, OnlyPhase DEF vars, IInv, TypeOK
  <1>2. ASSUME NEW z \in Holders, NEW function \in {"preload", "count", "search"},
               Use(z, function)
        PROVE  IInv'
    BY <1>2, OnlyPhase DEF Use
  <1>3. CASE End \/ EndList \/ Ended
    BY <1>3, OnlyPhase DEF End, EndList, Ended, IInv, TypeOK
  <1> QED BY <1>1, <1>2, <1>3, SinaipInitInv, SinaipCloseInv, CopyInv, UnsetInv, DestroyNextInv
          DEF Next

THEOREM Invariance == Spec => []IInv
  BY InitInv, NextInv, PTL DEF Spec
-----------------------------------------------------------------------------
\* The results.

THEOREM TypeCorrect == Spec => []TypeOK
  <1>1. IInv => TypeOK
    BY DEF IInv
  <1> QED BY <1>1, Invariance, PTL

\* While the script runs, a variable's resource is whole, and it is there unless
\* sinaip_close was called for it (sinaip.c:205, 478).
THEOREM HeldUsable == Spec => []HeldIsUsable
  <1>1. IInv => HeldIsUsable
    <2> SUFFICES ASSUME IInv, phase \in {"running", "ending"}, NEW z \in Holders, holder[z] # 0
                 PROVE  /\ resources[holder[z]].built
                        /\ Fetched(z) \/ holder[z] \in closed
      BY DEF HeldIsUsable
    <2>1. /\ IdsOf(world) = Ids /\ world.resources = resources /\ 0 \notin Ids
          /\ Counted(world, holder, closed, 0)
      BY ThisWorld, TypedWorld DEF IInv
    <2>2. holder[z] \in Ids /\ resources[holder[z]].built
      BY <2>1 DEF Counted
    <2>3. Cardinality(Having(holder, holder[z])) > 0
      <3>1. z \in Having(holder, holder[z])
        BY DEF Having
      <3> QED BY <3>1, HavingCounts, FS_EmptySet
    <2>4. holder[z] \notin closed =>
             resources[holder[z]].refs = Cardinality(Having(holder, holder[z])) + 0
      BY <2>1, <2>2 DEF Counted
    <2> QED BY <2>2, <2>3, <2>4, HavingCounts DEF Fetched
  <1> QED BY <1>1, Invariance, PTL

\* The stream of a whole resource in the list is open and only its own, although
\* fopen gives addresses again (sinaip.c:119).
THEOREM StreamsOwn == Spec => []StreamIsOwn
  <1>1. IInv => StreamIsOwn
    <2> SUFFICES ASSUME IInv, phase # "crashed", NEW i \in Listed, resources[i].built
                 PROVE  /\ stream[resources[i].fp] = "open"
                        /\ \A j \in Listed :
                              resources[j].built /\ resources[j].fp = resources[i].fp => i = j
      BY DEF StreamIsOwn
    <2>1. /\ Life(world) /\ IdsOf(world) = Ids /\ Ids \subseteq Nat
          /\ world.resources = resources /\ world.stream = stream
      BY ThisWorld, TypedWorld DEF IInv
    <2>2. \A j \in Listed : j \in Ids /\ (resources[j].built => Live(world, j))
      BY <2>1 DEF Listed, Live
    <2>3. Live(world, i)
      BY <2>2
    <2>4. ASSUME NEW j \in Listed, resources[j].built, resources[j].fp = resources[i].fp
          PROVE  ~(i < j) /\ ~(j < i)
      BY <2>1, <2>2, <2>3, <2>4 DEF Life
    <2>5. stream[resources[i].fp] = "open"
      BY <2>1, <2>2, <2>3 DEF Life
    <2>6. i \in Nat /\ \A j \in Listed : j \in Nat
      BY <2>1, <2>2
    <2>7. ASSUME NEW j \in Listed, resources[j].built, resources[j].fp = resources[i].fp
          PROVE  i = j
      BY <2>4, <2>6, <2>7
    <2> QED BY <2>5, <2>7
  <1> QED BY <1>1, Invariance, PTL

\* Every resource is destroyed once and no stream is left open; only after a
\* failed sinaip_init may the destructor end the process (sinaip.c:113, 205).
THEOREM RequestEndsClean == Spec => []EndsClean
  <1>1. IInv => EndsClean
    <2> SUFFICES ASSUME IInv PROVE EndsClean
      OBVIOUS
    <2>1. /\ IdsOf(world) = Ids /\ world.freed = freed
          /\ world.resources = resources /\ world.stream = stream
          /\ \A i \in Ids : resources[i] \in Php
      BY ThisWorld, TypedWorld DEF IInv
    <2>2. \A i \in Ids : freed[i] <= 1
      BY <2>1 DEF IInv, Life
    <2>3. phase = "ended" => /\ \A i \in Ids : freed[i] = 1
                             /\ \A a \in Streams : stream[a] = "free"
      <3> SUFFICES ASSUME phase = "ended"
                   PROVE  /\ \A i \in Ids : freed[i] = 1
                          /\ \A a \in Streams : stream[a] = "free"
        OBVIOUS
      <3>1. Life(world) /\ stream \in [Streams -> {"free", "open"}]
        BY DEF IInv, TypeOK
      <3>2. \A i \in Ids : resources[i].refs = 0
        BY <2>1 DEF IInv, Listed, Php
      <3>3. \A i \in Ids : ~Live(world, i)
        BY <2>1, <3>2 DEF Live
      <3> QED BY <2>1, <3>1, <3>2, <3>3 DEF Life
    <2>4. phase = "crashed" => \E i \in Ids : ~resources[i].built /\ freed[i] = 1
      BY <2>1 DEF IInv, Botched
    <2> QED BY <2>2, <2>3, <2>4 DEF EndsClean
  <1> QED BY <1>1, Invariance, PTL
=============================================================================
