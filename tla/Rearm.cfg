\* One client that pipelines two requests over a slow kernel.
CONSTANTS
    f1 = f1
    f2 = f2
    Fds <- OneClient
    EventFd = efd
    Depth = 2
    RingDepth = 3
    Kinds = {"sync", "block"}
    MaxReq = 2
    MaxGen = 1
    Window = 2
    SlowKernel = TRUE
    SpuriousRead = FALSE
SPECIFICATION Spec
INVARIANT QueuedImpliesArmed
