\* two threads that load slots of one search
CONSTANTS
    MaxIP = 5
    NFields = 2
    Payloads <- MCPayloads
    Fields <- MCFields
    Files <- ThreeFiles
    Threads = {t1, t2}
    Requests <- FoundOrNot
SPECIFICATION Spec
CHECK_DEADLOCK FALSE
INVARIANTS TypeOK IndexIntact LookupRight AloneRight
PROPERTY CallsReturn
