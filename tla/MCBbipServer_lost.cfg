\* a small file whose search looks at slot 0
CONSTANTS
    MaxIP = 5
    NFields = 3
    Payloads <- MCPayloads
    Fields <- MCFields
    Files <- TwoOnly
    Threads = {t1, t2}
    Requests <- SameRecord
SPECIFICATION Spec
SYMMETRY Symmetry
CHECK_DEADLOCK FALSE
INVARIANT AloneFinds
