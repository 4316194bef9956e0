\* two variables, three calls of sinaip_init, addresses that fopen uses again
SPECIFICATION Spec
CONSTANTS
    Holders = {ips, copy}
    Streams = {A1, A2, A3}
    MaxInits = 3
SYMMETRY Symmetry
CHECK_DEADLOCK FALSE
INVARIANTS TypeOK HeldIsUsable StreamIsOwn EndsClean
