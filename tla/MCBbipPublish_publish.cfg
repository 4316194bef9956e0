\* The exporter replaces a file of two records under a reader, or writes the first one.
SPECIFICATION Spec
CONSTANTS
    MaxIP = 5
    W = 3
    Payloads <- MCPayloads
    New <- MCNew
    Olds <- MCOlds
    HadFile = {TRUE, FALSE}
    Readers = {"bbip", "sinaip"}
    Addresses = {3, 4}
INVARIANTS
    TypeOK
    CacheHeals
    RightAfterwards
    RawOnlyOld
    WholeIsSafe
CHECK_DEADLOCK FALSE
