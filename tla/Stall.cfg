\* One client that pipelines blocking requests and is sent every answer at once.
CONSTANTS
    f1 = f1
    f2 = f2
    Fds <- OneClient
    EventFd = efd
    Depth = 3
    RingDepth = 4
    Kinds = {"block"}
    MaxReq = 3
    MaxGen = 1
    Window = 3
    SlowKernel = FALSE
    SpuriousRead = FALSE
SPECIFICATION FairSpec
PROPERTY Answered
