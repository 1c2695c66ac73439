\* One connection, a client that sends faster than it is served, or hangs up.
SPECIFICATION FairSpec
CONSTANTS
    chat = chat block = block
    Kind <- MCKind
    Parts <- MCParts
    Limit = 2
    Chunk = 2
    MaxBytes = 9
INVARIANTS TypeOK InStep ReceiverEnds
PROPERTIES StreamSpec PartArrives BrokenEnds
\* A connection ends, and its threads with it.
CHECK_DEADLOCK FALSE
