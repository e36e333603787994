\* One client that pipelines requests over a slow kernel.
CONSTANTS
    f1 = f1
    Fds <- OneClient
    EventFd = efd
    Depth = 3
    RingDepth = 3
    Kinds = {"sync", "block", "reject"}
    MaxReq = 3
    MaxGen = 2
    Window = 3
    SlowKernel = TRUE
    SpuriousRead = TRUE
SPECIFICATION RSpec
INVARIANTS
    TypeOK
    NoLostCompletion
    OneTaskPerRequest
    CounterOrder
    RingInOrder
    OwnAnswers
    WriteArmedHasWork
    EventsNotStale
    AnsweredOnce
    TargetsAlive
    TurnOwned
PROPERTIES
    TaskStable
    KeepsPromise
