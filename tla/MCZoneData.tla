----------------------------- MODULE MCZoneData -----------------------------
(***************************************************************************)
(* A few entries of the tables of bbip_server.cpp, by their place there.   *)
(***************************************************************************)
EXTENDS ZoneData, TLC

Symmetry == Permutations(Threads)

Country(contient, area, country) ==
    [contient |-> contient, area |-> area, country |-> country]
Province(province, province_area) ==
    [province |-> province, province_area |-> province_area]

MCCountryZone == "China" :> Country(1, 1, 1) @@ "Japan" :> Country(1, 1, 2) @@
                 "Canada" :> Country(3, 0, 2)

MCProvinceZone == <<"China", "Taiwan">> :> Province(3, 12) @@
                  <<"Canada", "Alberta">> :> Province(1, 3)

MCIspCode == "ct" :> 1 @@ "HKBN" :> 11

Record(country, province, isp) ==
    [country |-> country, province |-> province, isp |-> isp]

Taiwan == Record("China", "Taiwan", "HKBN")
Canada == Record("Canada", "", "")

TwoRecords == {Taiwan, Canada}
=============================================================================
