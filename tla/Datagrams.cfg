\* Two workers on the one socket, two devices.
CONSTANTS
    Workers = {w1, w2}
    Devices <- TwoDevices
    Peer = peer
    Payloads <- OneOrTwoFrames
    MaxInput = 3
    ReadErrors = TRUE
SPECIFICATION FairSpec
INVARIANTS
    TypeOK
    AnswersAReader
    OpenUnlessFailed
PROPERTY Drained
CHECK_DEADLOCK FALSE
