--------------------------- MODULE MCBbipServer -----------------------------
EXTENDS BbipServer, TLC

CONSTANT NFields  \* how many strings a record has

Symmetry == Permutations(Threads)

MCFields == IF NFields = 1 THEN <<"isp">> ELSE SubSeq(<<"country", "province", "isp">>, 1, NFields)

Beijing == SubSeq(<<"China", "Beijing", "ct">>, 1, NFields)
Tokyo   == SubSeq(<<"Japan", "", "ntt">>, 1, NFields)
Nowhere == SubSeq(<<"", "", "">>, 1, NFields)

MCPayloads == {Beijing, Tokyo, Nowhere}

File(start, end, data) ==
    [n |-> Len(start), start |-> start, end |-> end,
     ptr |-> [k \in 1..Len(start) |-> 3 * Len(start) + k], data |-> data]

\* A record in the middle, found without slot 0, and an address below all records,
\* for which a search loads that slot.
Three == File(<<2, 3, 5>>, <<2, 4, 5>>, <<Beijing, Tokyo, Nowhere>>)

\* The first range is address 0: a search that passes slot 1 loads both its
\* bounds again each time.
Zero == File(<<0, 2, 3>>, <<0, 2, 3>>, <<Beijing, Tokyo, Nowhere>>)

\* Record 1 lies above the record count, behind a search that looks at slot 0.
Two == File(<<3, 5>>, <<4, 5>>, <<Tokyo, Beijing>>)

ThreeOnly == {Three}
TwoOnly == {Two}
ThreeFiles == {Three, Zero, Two}

\* A record by its last address, which arrives with more bits than an address
\* has, and an address without data, for which Three and Two load slot 0 and
\* Zero slot 1.
FoundOrNot == {<<"query", MaxIP + 5>>, <<"GetAreaFlag", 1>>}

\* Two records by the last address of one and the first one of the other.
OtherRecord == {<<"query", 4>>, <<"GetAreaFlag", 2>>}

\* The same for record 1 of Two, by the search's decision and its early return.
SameRecord == {<<"GetZoneID", 4>>, <<"query_string", 3>>}
=============================================================================
