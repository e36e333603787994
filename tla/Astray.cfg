\* Two workers whose receives overlap.
CONSTANTS
    Workers = {w1, w2}
    Devices <- TwoDevices
    Peer = peer
    Payloads <- OneOrTwoFrames
    MaxInput = 2
    ReadErrors = FALSE
SPECIFICATION Spec
INVARIANT AnswersTheSender
CHECK_DEADLOCK FALSE
