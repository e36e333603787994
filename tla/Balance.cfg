\* Three workers with one record each, four descriptors: the gateway fills up.
CONSTANTS
    f1 = f1
    f2 = f2
    f3 = f3
    f4 = f4
    Fds <- FourFds
    Workers = 3
    Capacity = 1
    Huge = 99
    None = none
    Listener = listener
    MaxAccept = 2
SPECIFICATION FairSpec
INVARIANTS
    TypeOK
    RecordForEveryClient
    CountersExact
    NoClientBeforeReady
    RecordsLive
PROPERTIES
    Served
    KeepsQuota
