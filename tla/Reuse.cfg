\* Two connections, one after the other, on one descriptor.
CONSTANTS
    f1 = f1
    f2 = f2
    Fds <- OneClient
    EventFd = efd
    Depth = 2
    RingDepth = 2
    Kinds = {"sync", "block"}
    MaxReq = 2
    MaxGen = 2
    Window = 1
    SlowKernel = FALSE
    SpuriousRead = FALSE
SPECIFICATION Spec
INVARIANT OwnResponsesOnly
