\* three records, two threads
CONSTANTS
    MaxIP = 5
    NFields = 2
    Payloads <- MCPayloads
    Fields <- MCFields
    Files <- ThreeOnly
    Threads = {t1, t2}
    Requests <- OtherRecord
SPECIFICATION Spec
SYMMETRY Symmetry
CHECK_DEADLOCK FALSE
INVARIANT StringsOfRecord
