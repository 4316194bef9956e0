\* every file of up to 3 records over 7 addresses
CONSTANTS
    MaxIP = 6
    W = 3
    Payloads <- MCPayloads
    FileLens = {0, 1, 2, 3}
    Files <- AllFiles
SPECIFICATION Spec
CHECK_DEADLOCK FALSE
INVARIANTS TypeOK IndexCache SearchWindow AnswerSound FindsCovered BlockFitsRange
PROPERTIES CacheOnlyGrows EveryQueryReturns ImplementsGeoLookup
