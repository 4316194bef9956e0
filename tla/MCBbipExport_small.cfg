\* every table of up to 3 ranges below address 9, three addresses to a byte
CONSTANTS
    MaxIP = 11
    B = 3
    Payloads <- MCPayloads
    NRows = {0, 1, 2, 3}
    LastEnd = 8
    Tables <- MCTables
SPECIFICATION Spec
CHECK_DEADLOCK FALSE
INVARIANTS TypeOK CursorInStep BitmapExact RangesDisjoint NeverEnlarged NarrowestRowWins NoDatabaseNoFile
PROPERTY ExportEnds
