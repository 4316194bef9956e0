\* two threads on the static structs
CONSTANTS
    Threads = {t1, t2}
    Records <- TwoRecords
    CountryZone <- MCCountryZone
    ProvinceZone <- MCProvinceZone
    IspCode <- MCIspCode
SPECIFICATION Spec
SYMMETRY Symmetry
CHECK_DEADLOCK FALSE
INVARIANTS TypeOK AloneRight IdDecodes NothingOfThePast
