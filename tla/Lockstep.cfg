\* Two clients that wait for each answer before the next request.
CONSTANTS
    f1 = f1
    f2 = f2
    Fds <- TwoClients
    EventFd = efd
    Depth = 2
    RingDepth = 2
    Kinds = {"sync", "block"}
    MaxReq = 2
    MaxGen = 1
    Window = 1
    SlowKernel = FALSE
    SpuriousRead = TRUE
SPECIFICATION FairSpec
INVARIANTS
    WaiterInTurn
    RoomForAnswers
PROPERTY Answered
