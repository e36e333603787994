\* Streams of up to three pieces, in chunks of every length.
CONSTANTS
    MaxPieces = 3
    ByteSize = 8
    Boot = 4
    LenMax = 4
    BodySize = 9
    MaxRequestSize = 9
    Commands <- TwoCommands
    Params <- Limits
    Blocking <- Slow
    Streams <- Clients
SPECIFICATION Spec
INVARIANTS
    TypeOK
    AtMostBootKept
    AsSent
    NothingSwallowed
    WholeFramesServed
CHECK_DEADLOCK FALSE
