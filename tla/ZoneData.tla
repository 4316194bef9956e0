------------------------------ MODULE ZoneData ------------------------------
(***************************************************************************)
(* The zone number of GetZoneID (bbip_server.cpp).  _getCountryData and    *)
(* _getProvinceData return a pointer to a static struct, which all threads *)
(* of the server fill and copy without a lock.  Every store and every load *)
(* of a field is a step here; the struct of three ints is copied in two    *)
(* loads, the first two ints together.                                     *)
(*                                                                         *)
(* A call runs the straight-line code that Program gives for its record:   *)
(* stores, copies and the one test of a shared field.                      *)
(***************************************************************************)
EXTENDS Integers, Sequences

CONSTANTS Threads,
          Records,       \* the strings [country, province, isp] of the records
          CountryZone,   \* the tables of countries: name -> contient, area, country
          ProvinceZone,  \* of provinces: <<country, name>> -> province, province_area
          IspCode        \* and of the Chinese providers: name -> isp

ASSUME TablesAssumption ==
    /\ \A c \in DOMAIN CountryZone :
          CountryZone[c] \in [contient : 1..6, area : 0..7, country : 1..63]
    /\ \A p \in DOMAIN ProvinceZone :
          ProvinceZone[p] \in [province : 1..254, province_area : 1..12]
    /\ \A i \in DOMAIN IspCode : IspCode[i] \in 1..62

VARIABLES
    rc,    \* the two static structs
    code,  \* what each thread has still to do in its call
    rec,   \* the record of its call
    own,   \* its copies of the two structs
    met    \* history: the records of the calls that have overlapped its call

vars == <<rc, code, rec, own, met>>

FieldNames == {"contient", "area", "country", "province", "province_area", "isp"}
Zero == [f \in FieldNames |-> 0]

StoreOf(field, v) == <<"store", field, v>>
CopyOf(fields) == <<"copy", fields>>
IfUnset == <<"test">>

\* Mutant: the fields keep what they had.
ClearNot(f1, f2, f3) == <<>>

Clear(f1, f2, f3) == <<StoreOf(f1, 0), StoreOf(f2, 0), StoreOf(f3, 0)>>

\* _getCountryData and the copy of its result.
CountryProgram(r) ==
    Clear("contient", "area", "country") \o
    (IF r.country \in DOMAIN CountryZone
     THEN LET z == CountryZone[r.country]
          IN  <<StoreOf("contient", z.contient), StoreOf("area", z.area),
                StoreOf("country", z.country)>>
     ELSE <<>>) \o
    <<CopyOf({"contient", "area"}), CopyOf({"country"})>>

\* Mutant: the two values are swapped.
OtherProvinceSwapped == <<StoreOf("province", 15), StoreOf("province_area", 255)>>

OtherProvince == <<StoreOf("province", 255), StoreOf("province_area", 15)>>

FindProvince(r) ==
    IF <<r.country, r.province>> \in DOMAIN ProvinceZone
    THEN LET z == ProvinceZone[<<r.country, r.province>>]
         IN  <<StoreOf("province", z.province), StoreOf("province_area", z.province_area)>>
    ELSE <<>>

Isp(r) == IF r.isp \in DOMAIN IspCode THEN IspCode[r.isp] ELSE 63

\* _getProvinceData and the copy of its result.
ProvinceProgram(r) ==
    Clear("province", "province_area", "isp") \o
    (CASE r.country = "Canada" -> FindProvince(r) \o <<IfUnset>>
       [] r.country = "China" -> OtherProvince \o FindProvince(r) \o
                                 <<StoreOf("isp", Isp(r))>>
       [] OTHER -> <<>>) \o
    <<CopyOf({"province", "province_area"}), CopyOf({"isp"})>>

Program(r) == CountryProgram(r) \o ProvinceProgram(r)

InCall(t) == code[t] # <<>>

NoRecord == [country |-> "", province |-> "", isp |-> ""]

Init ==
    /\ rc = Zero
    /\ code = [t \in Threads |-> <<>>]
    /\ rec = [t \in Threads |-> NoRecord]
    /\ own = [t \in Threads |-> Zero]
    /\ met = [t \in Threads |-> {}]

Call(t, r) ==
    /\ ~InCall(t)
    /\ code' = [code EXCEPT ![t] = Program(r)]
    /\ rec' = [rec EXCEPT ![t] = r]
    /\ own' = [own EXCEPT ![t] = Zero]
    /\ met' = [u \in Threads |->
                 IF u = t THEN {rec[v] : v \in {v \in Threads \ {t} : InCall(v)}}
                 ELSE IF InCall(u) THEN met[u] \cup {r} ELSE met[u]]
    /\ UNCHANGED rc

Is(t, kind) == InCall(t) /\ Head(code[t])[1] = kind

Store(t) ==
    /\ Is(t, "store")
    /\ rc' = [rc EXCEPT ![Head(code[t])[2]] = Head(code[t])[3]]
    /\ code' = [code EXCEPT ![t] = Tail(@)]
    /\ UNCHANGED <<rec, own, met>>

\* if (rc.province_area == 0), for Canada.
Test(t) ==
    /\ Is(t, "test")
    /\ code' = [code EXCEPT ![t] =
                  (IF rc.province_area = 0 THEN OtherProvince \o <<StoreOf("isp", 0)>>
                   ELSE <<>>) \o Tail(@)]
    /\ UNCHANGED <<rc, rec, own, met>>

Copy(t) ==
    /\ Is(t, "copy")
    /\ own' = [own EXCEPT ![t] = [f \in FieldNames |->
                 IF f \in Head(code[t])[2] THEN rc[f] ELSE @[f]]]
    /\ code' = [code EXCEPT ![t] = Tail(@)]
    /\ UNCHANGED <<rc, rec, met>>

Next ==
    \E t \in Threads :
        \/ \E r \in Records : Call(t, r)
        \/ Store(t) \/ Test(t) \/ Copy(t)

Spec == Init /\ [][Next]_vars

\* Mutant: seven bits for the province.
PackNarrow(z) ==
    z.isp + z.province * 2^6 + z.province_area * 2^13 +
    z.country * 2^17 + z.area * 2^23 + z.contient * 2^26

\* The returned number.  The code joins the fields with |, which is + as long
\* as none reaches into the next one.
Pack(z) ==
    z.isp + z.province * 2^6 + z.province_area * 2^14 +
    z.country * 2^18 + z.area * 2^24 + z.contient * 2^27
-----------------------------------------------------------------------------
\* The zones whose fields have the bits that the number gives them.
Zone == [contient : 0..6, area : 0..7, country : 0..63,
         province : 0..255, province_area : 0..15, isp : 0..63]

\* The structs and the copies never exceed the number's bits.
TypeOK ==
    /\ rc \in Zone
    /\ \A t \in Threads : own[t] \in Zone
    /\ \A t \in Threads : rec[t] \in Records \cup {NoRecord} /\ met[t] \subseteq Records

Done(t) == ~InCall(t) /\ rec[t] # NoRecord

\* The zone of a record, whatever the calls before.
ZoneOf(r) ==
    LET known == r.country \in DOMAIN CountryZone
        subdivided == r.country \in {"China", "Canada"}
        listed == <<r.country, r.province>> \in DOMAIN ProvinceZone
    IN  [contient |-> IF known THEN CountryZone[r.country].contient ELSE 0,
         area |-> IF known THEN CountryZone[r.country].area ELSE 0,
         country |-> IF known THEN CountryZone[r.country].country ELSE 0,
         province |-> IF ~subdivided THEN 0
                      ELSE IF listed THEN ProvinceZone[<<r.country, r.province>>].province
                      ELSE 255,
         province_area |-> IF ~subdivided THEN 0
                           ELSE IF listed
                           THEN ProvinceZone[<<r.country, r.province>>].province_area
                           ELSE 15,
         isp |-> IF r.country = "China" THEN Isp(r) ELSE 0]

\* A call that no other overlaps returns the zone of its record, whatever the
\* static structs hold of the calls before it.
AloneRight == \A t \in Threads : Done(t) /\ met[t] = {} => own[t] = ZoneOf(rec[t])

\* What a field may hold while a call of record r goes on.
MayHold(r, f) ==
    {0, ZoneOf(r)[f]} \cup
    (IF r.country \in {"China", "Canada"} /\ f = "province" THEN {255} ELSE {}) \cup
    (IF r.country \in {"China", "Canada"} /\ f = "province_area" THEN {15} ELSE {})

\* A zone is never made of an earlier call's fields: each one is of the call
\* itself or of a call that has overlapped it.
NothingOfThePast ==
    \A t \in Threads : Done(t) =>
        \A f \in FieldNames : \E r \in {rec[t]} \cup met[t] : own[t][f] \in MayHold(r, f)

\* The fields can be taken out of the number again.
IdDecodes ==
    \A t \in Threads : Done(t) =>
        LET id == Pack(own[t])
        IN  own[t] = [isp |-> id % 2^6,
                      province |-> (id \div 2^6) % 2^8,
                      province_area |-> (id \div 2^14) % 2^4,
                      country |-> (id \div 2^18) % 2^6,
                      area |-> (id \div 2^24) % 2^3,
                      contient |-> id \div 2^27]
=============================================================================
