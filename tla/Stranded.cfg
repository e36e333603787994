\* One client whose pipelined synchronous request overtakes a task.
CONSTANTS
    f1 = f1
    f2 = f2
    Fds <- OneClient
    EventFd = efd
    Depth = 2
    RingDepth = 2
    Kinds = {"sync", "block"}
    MaxReq = 2
    MaxGen = 1
    Window = 2
    SlowKernel = FALSE
    SpuriousRead = FALSE
SPECIFICATION Spec
INVARIANT NotStranded
