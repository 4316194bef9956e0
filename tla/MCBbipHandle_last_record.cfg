\* every file of 2 or 3 records over 6 addresses
CONSTANTS
    MaxIP = 5
    W = 3
    Payloads <- MCPayloads
    FileLens = {2, 3}
    Files <- AllFiles
SPECIFICATION Spec
CHECK_DEADLOCK FALSE
INVARIANT NoDataOnlyWhenAbsent
