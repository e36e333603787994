\* A frame that arrives in two chunks.
CONSTANTS
    MaxPieces = 2
    ByteSize = 8
    Boot = 4
    LenMax = 4
    BodySize = 9
    MaxRequestSize = 9
    Commands <- TwoCommands
    Params <- Limits
    Blocking <- Slow
    Streams <- Clients
SPECIFICATION Spec
INVARIANT HalfPackets
CHECK_DEADLOCK FALSE
