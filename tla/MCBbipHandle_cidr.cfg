\* every file of 2 records over 8 addresses
CONSTANTS
    MaxIP = 7
    W = 3
    Payloads <- MCPayloads
    FileLens = {2}
    Files <- AllFiles
SPECIFICATION Spec
CHECK_DEADLOCK FALSE
INVARIANT CidrSizeOfRange
