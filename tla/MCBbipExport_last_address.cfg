\* rows that may end at the last address
CONSTANTS
    MaxIP = 7
    B = 2
    Payloads <- MCPayloads
    NRows = {1, 2}
    LastEnd = 7
    Tables <- MCTables
SPECIFICATION Spec
CHECK_DEADLOCK FALSE
INVARIANT EndIsAnyAddress
