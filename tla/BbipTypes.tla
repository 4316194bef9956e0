------------------------------ MODULE BbipTypes ------------------------------
(***************************************************************************)
(* The structs of bbip.thrift as the generated code keeps, writes and      *)
(* reads them (bbip_types.cpp, the first half of bbip.cpp).                *)
(*                                                                         *)
(* A struct is described by its fields: a function from field identifiers  *)
(* to the field's wire type and whether write() always sends it or only    *)
(* when __isset has it.  An object is its members and its __isset.  On the *)
(* wire a struct is a function from the identifiers that were sent to      *)
(* values that carry their type; order, lengths and the stop byte are left *)
(* out.                                                                    *)
(***************************************************************************)
EXTENDS Naturals

\* The members of an object that nobody has set.
Default(type) == CASE type = "string" -> ""
                   [] type = "struct" -> [val |-> <<>>, isset |-> {}]
                   [] OTHER -> 0

Always(type) == [type |-> type, optional |-> FALSE, of |-> <<>>]
Optional(type) == [type |-> type, optional |-> TRUE, of |-> <<>>]
Struct(fields) == [type |-> "struct", optional |-> TRUE, of |-> fields]

\* An object as its constructor leaves it: the plain members have their zero,
\* nothing is in __isset, and a nested struct is itself newly constructed.
Flat(fields) == [val |-> [f \in DOMAIN fields |-> Default(fields[f].type)],
                 isset |-> {}]
New(fields) ==
    [val |-> [f \in DOMAIN fields |->
                IF fields[f].type = "struct" THEN Flat(fields[f].of)
                ELSE Default(fields[f].type)],
     isset |-> {}]

\* An assignment to a member that also sets its bit in __isset.
With(obj, f, value) ==
    IF f \in DOMAIN obj.val
    THEN [val |-> [obj.val EXCEPT ![f] = value], isset |-> obj.isset \cup {f}]
    ELSE obj

\* The fields write() sends.
Sent(fields, obj) ==
    {f \in DOMAIN fields : ~fields[f].optional \/ f \in obj.isset}

WriteFlat(fields, obj) ==
    [f \in Sent(fields, obj) |-> [type |-> fields[f].type, value |-> obj.val[f]]]

\* The fields of a message that read() takes: known, and of the expected type.
\* The others are skipped.
Taken(fields, wire) ==
    {f \in DOMAIN fields \cap DOMAIN wire : wire[f].type = fields[f].type}

\* Mutant: __isset starts anew, the members keep their values.
ReadAnewFlat(fields, wire, obj) ==
    [val |-> [f \in DOMAIN fields |->
                IF f \in Taken(fields, wire) THEN wire[f].value ELSE obj.val[f]],
     isset |-> Taken(fields, wire)]

\* read() fills an object the caller has: what the message does not carry
\* keeps its value, and stays in __isset if it was there.
ReadFlat(fields, wire, obj) ==
    [val |-> [f \in DOMAIN fields |->
                IF f \in Taken(fields, wire) THEN wire[f].value ELSE obj.val[f]],
     isset |-> obj.isset \cup Taken(fields, wire)]

-----------------------------------------------------------------------------
bbip_result ==
    <<Always("i64"), Always("i64"),          \* range_start, range_end
      Always("string"), Always("string"), Always("string"), Always("string"),
      Always("string"), Always("string"), Always("string"),  \* country .. desc
      Optional("double"), Optional("double"),                \* lat, lng
      Always("i16")>>                                        \* cidr

LatLng == {10, 11}

InvalidOperation == <<Always("i32"), Always("string")>>  \* code, msg

\* The result of a method: field 0 is success, field 1 the declared exception.
success == 0
ouch == 1

NoResult == [f \in {} |-> Always("void")]
OnlySuccess(field) == [f \in {success} |-> field]
SuccessOrOuch(field) ==
    [f \in {success, ouch} |-> IF f = success THEN field ELSE Struct(InvalidOperation)]

\* A result is written with one field: success when it is set, or else ouch.
WriteResult(fields, obj) ==
    LET chosen == IF success \in obj.isset THEN {success} ELSE obj.isset
    IN  [f \in chosen |->
           [type |-> fields[f].type,
            value |-> IF fields[f].type = "struct"
                      THEN WriteFlat(fields[f].of, obj.val[f]) ELSE obj.val[f]]]

ReadResult(fields, wire, obj) ==
    [val |-> [f \in DOMAIN fields |->
                IF f \notin Taken(fields, wire) THEN obj.val[f]
                ELSE IF fields[f].type = "struct"
                     THEN ReadFlat(fields[f].of, wire[f].value, obj.val[f])
                     ELSE wire[f].value],
     isset |-> obj.isset \cup Taken(fields, wire)]

ping_args          == <<>>
ping_result        == NoResult
count_args         == <<>>
count_result       == OnlySuccess(Optional("i32"))
query_args         == <<Always("string")>>  \* string_ip
query_result       == SuccessOrOuch(Struct(bbip_result))
query_string_args  == <<Always("string")>>
query_string_result == SuccessOrOuch(Optional("string"))
GetAreaFlag_args   == <<Always("string")>>
GetAreaFlag_result == SuccessOrOuch(Optional("i16"))
GetZoneID_args     == <<Always("string")>>
GetZoneID_result   == SuccessOrOuch(Optional("i64"))
query_long_args    == <<Always("i64")>>     \* int_ip
query_long_result  == SuccessOrOuch(Struct(bbip_result))
=============================================================================
