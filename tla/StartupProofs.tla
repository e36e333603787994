--------------------------- MODULE StartupProofs -----------------------------
(***************************************************************************)
(* Theorems about Startup: its types, the completeness of the workers, the *)
(* budget of descriptors and the meaning of the file, well formed or       *)
(* broken, for every configuration, every limit and every failure.         *)
(***************************************************************************)
EXTENDS Startup, FiniteSetTheorems, SequenceTheorems, WellFoundedInduction, TLAPS

-----------------------------------------------------------------------------
(* The configuration.                                                      *)

(* Whatever a file says, the number of workers is positive and a short.    *)
LEMMA WorkersRange == ASSUME NEW n PROVE WorkersOf(n) \in Shorts
<1>1. XLAB_WORKERS_DEFAULT \in Shorts
  BY DEF XLAB_WORKERS_DEFAULT, Shorts, ShortSpan
<1> QED BY <1>1 DEF WorkersOf

LEMMA PortRange == ASSUME NEW n PROVE PortOf(n) \in Ports
<1>1. XLAB_DEFAULT_SERVER_PORT \in Ports
  BY DEF XLAB_DEFAULT_SERVER_PORT, Ports
<1> QED BY <1>1 DEF PortOf

LEMMA ShortsPositive == \A n \in Shorts : n \in Nat /\ n > 0
BY DEF Shorts

LEMMA CapacityInt ==
    ASSUME NEW n \in Nat \ {0}, NEW l \in Nat
    PROVE  xlab_server_worker_capacity(n, l) \in Int
<1> DEFINE a == l - (3 + 1 + n + 1 + 2)
<1>1. a \in Int
  OBVIOUS
<1> HIDE DEF a
<1>2. Quotient(a, 2) \in Int
  BY <1>1 DEF Quotient
<1>3. ASSUME NEW b \in Int PROVE Quotient(b, n) \in Int
  BY DEF Quotient
<1> QED BY <1>2, <1>3 DEF xlab_server_worker_capacity, a

(* The clients of all workers take at most half of what is not set aside.  *)
LEMMA CapacityFits ==
    ASSUME NEW n \in Nat \ {0}, NEW l \in Nat,
           NEW c, c = xlab_server_worker_capacity(n, l), c > 0
    PROVE  7 + n + n * c <= l
<1> DEFINE a == l - (3 + 1 + n + 1 + 2)
           h == Quotient(a, 2)
<1>0. c \in Int
  BY CapacityInt
<1>1. a \in Int /\ a = l - 7 - n
  OBVIOUS
<1>2. c = Quotient(h, n)
  BY DEF xlab_server_worker_capacity
<1> HIDE DEF a
<1>3. h \in Int
  BY <1>1 DEF Quotient
<1>4. a >= 0 => 2 * h <= a /\ h >= 0
  BY <1>1 DEF Quotient
<1>5. a < 0 => h <= 0
  BY <1>1 DEF Quotient
<1> HIDE DEF h
<1>6. h > 0
  <2>1. ASSUME h <= 0 PROVE FALSE
    <3>1. h = 0 => Quotient(h, n) = 0
      BY DEF Quotient
    <3>2. h < 0 => -h \in Nat /\ Quotient(h, n) = -((-h) \div n)
      BY <1>3 DEF Quotient
    <3>3. ASSUME NEW b \in Nat PROVE b \div n \in Nat
      OBVIOUS
    <3>4. Quotient(h, n) <= 0
      BY <1>3, <2>1, <3>1, <3>2, <3>3
    <3> QED BY <1>0, <1>2, <3>4
  <2> QED BY <1>3, <2>1
<1>7. h \in Nat /\ c = h \div n
  BY <1>2, <1>3, <1>6 DEF Quotient
<1>8. n * c <= h /\ n * c \in Int
  BY <1>7
<1>9. a >= 0 /\ 2 * h <= a
  BY <1>1, <1>3, <1>4, <1>5, <1>6
<1> QED BY <1>1, <1>3, <1>6, <1>8, <1>9

(* What main goes on with, with a file and without.                        *)
Usable(s) ==
    /\ s.serverport \in Ports
    /\ s.workers \in Shorts
    /\ s.max_request_size \in Nat \ {0}
    /\ s.worker_capacity \in {0, xlab_server_worker_capacity(s.workers, limit)}

LEMMA MadeUsable ==
    ASSUME NEW n \in Shorts, NEW p \in Ports, NEW z \in Nat \ {0}
    PROVE  Usable(ConfigOf(p, n, xlab_server_worker_capacity(n, limit), z))
BY DEF Usable, ConfigOf

LEMMA ReadUsable == Usable(xlab_config_read_files(conf, limit))
<1>1. ASSUME NEW z PROVE SizeOf(z) \in Nat \ {0}
  BY DEF SizeOf, DefaultRequestSize
<1> QED BY <1>1, WorkersRange, PortRange, MadeUsable DEF xlab_config_read_files

LEMMA DefaultUsable == Usable(NotRead)
<1>1. XLAB_WORKERS_DEFAULT \in Shorts
  BY DEF XLAB_WORKERS_DEFAULT, Shorts, ShortSpan
<1>2. XLAB_DEFAULT_SERVER_PORT \in Ports
  BY DEF XLAB_DEFAULT_SERVER_PORT, Ports
<1>3. DefaultRequestSize \in Nat \ {0}
  BY DEF DefaultRequestSize
<1> QED BY <1>1, <1>2, <1>3 DEF Usable, NotRead, ConfigOf

-----------------------------------------------------------------------------
(* The inductive invariant.                                                *)

Early == main \in {"configure", "crashed"}

ConfigInv == IF Early THEN config.workers = 0 ELSE Usable(config)

(* The descriptors in use, by what main has come to.                       *)
FdInv ==
    /\ main \in {"configure", "crashed", "async"} => fds <= 3
    /\ main = "udp" => fds <= 4
    /\ main = "listen" => fds <= 5
    /\ main \in {"launch", "barrier", "serve"} => fds <= 6 + launched

(* Threads are created by main only, in their order, and only if the       *)
(* capacity is positive.                                                   *)
LaunchInv ==
    /\ main \notin {"launch", "barrier", "serve"} => launched = 0
    /\ \A t \in Threads : thread[t] # "none" =>
          t <= launched /\ config.worker_capacity > 0

Registered ==
    {t \in Threads : thread[t] \in {"udp", "efd", "init", "loop"}}

(* The mutex is held from the look at wid to the next number, so the nodes *)
(* below wid and the registered threads are the same, one to one.          *)
RegisterInv ==
    /\ \A t \in Threads : mutex = t <=> thread[t] \in {"node", "next"}
    /\ \A t \in Threads : thread[t] = "next" => sl[t] = wid
    /\ wid = Cardinality(Registered)
    /\ \A t \in Registered : sl[t] < wid /\ epoll_fd[sl[t]] = t
    /\ \A i \in Nodes : i < wid => epoll_fd[i] \in Registered /\ sl[epoll_fd[i]] = i

ReadyInv ==
    \A i \in Nodes : initialized[i] => i < wid /\ thread[epoll_fd[i]] = "loop"

UdpPart == IF udp_fd THEN {"udp"} ELSE {}

WatchInv ==
    \A t \in Threads :
        watch[t] = CASE thread[t] = "efd" -> UdpPart
                     [] thread[t] \in {"init", "loop"} -> {"efd"} \cup UdpPart
                     [] OTHER -> {}

StartInv ==
    /\ TypeOK /\ ConfigInv /\ FdInv /\ LaunchInv
    /\ RegisterInv /\ ReadyInv /\ WatchInv

-----------------------------------------------------------------------------
LEMMA WorkersNat ==
    ASSUME TypeOK
    PROVE  /\ config.workers \in Nat /\ wid \in Nat /\ limit \in Nat
           /\ wid <= config.workers
<1>0. config.workers \in Shorts \cup {0}
  BY DEF TypeOK
<1>1. config.workers \in Nat
  <2>1. CASE config.workers = 0
    BY <2>1
  <2>2. CASE config.workers \in Shorts
    BY <2>2, ShortsPositive
  <2> QED BY <1>0, <2>1, <2>2
<1>2. limit \in Limits /\ wid \in 0 .. config.workers
  BY DEF TypeOK
<1> QED BY <1>1, <1>2, StartupAssumption

LEMMA InitStart == Init => StartInv
<1> SUFFICES ASSUME Init PROVE StartInv
  OBVIOUS
<1>1. /\ config.workers = 0 /\ config.worker_capacity = 0
      /\ main = "configure" /\ limit \in Nat /\ limit >= 3 /\ fds = 3
  BY StartupAssumption DEF Init, ConfigOf
<1>2. Threads = {} /\ Nodes = {}
  BY <1>1 DEF Threads, Nodes
<1>3. Registered = {}
  BY <1>2 DEF Registered
<1>4. ASSUME NEW S PROVE <<>> \in [{} -> S]
  OBVIOUS
<1>5. TypeOK
  <2>1. /\ thread \in [Threads -> {"none", "lock", "node", "next", "udp", "efd",
                               "init", "loop"}]
        /\ sl \in [Threads -> Nodes]
        /\ epoll_fd \in [Nodes -> Threads \cup {0}]
        /\ initialized \in [Nodes -> BOOLEAN]
        /\ watch \in [Threads -> SUBSET {"udp", "efd"}]
    BY <1>2, <1>4 DEF Init
  <2>2. hw \in BOOLEAN /\ udp_fd \in BOOLEAN /\ listening \in BOOLEAN
    BY Zenon DEF Init
  <2>3. /\ limit \in Limits /\ fds \in 3 .. limit
        /\ launched \in 0 .. config.workers /\ wid \in 0 .. config.workers
        /\ mutex \in Threads \cup {0}
    BY <1>1 DEF Init
  <2> QED BY <1>1, <2>1, <2>2, <2>3 DEF Init, TypeOK
<1>6. RegisterInv
  <2>1. wid = Cardinality(Registered)
    BY <1>3, FS_EmptySet DEF Init
  <2> QED BY <1>2, <1>3, <2>1 DEF RegisterInv
<1>7. ConfigInv /\ FdInv
  BY <1>1 DEF ConfigInv, Early, FdInv
<1>8. LaunchInv /\ ReadyInv /\ WatchInv
  BY <1>1, <1>2 DEF Init, LaunchInv, ReadyInv, WatchInv
<1> QED BY <1>5, <1>6, <1>7, <1>8 DEF StartInv

LEMMA CountTo ==
    ASSUME NEW n \in Nat PROVE IsFiniteSet(1 .. n) /\ Cardinality(1 .. n) = n
<1>1. 1 \in Int /\ n \in Int
  OBVIOUS
<1>2. IsFiniteSet(1 .. n)
  BY <1>1, FS_Interval, Zenon
<1>3. Cardinality(1 .. n) = IF 1 > n THEN 0 ELSE n - 1 + 1
  BY <1>1, FS_Interval, Zenon
<1> QED BY <1>2, <1>3

(* A thread that has not registered finds a free node.                     *)
LEMMA NodeFree ==
    ASSUME StartInv, NEW t \in Threads, t \notin Registered
    PROVE  /\ wid < config.workers /\ wid \in Nodes
           /\ Cardinality(Registered \cup {t}) = wid + 1
<1>1. /\ config.workers \in Nat /\ wid \in Nat
      /\ wid = Cardinality(Registered) /\ Registered \subseteq Threads
  BY WorkersNat DEF StartInv, RegisterInv, Registered
<1>2. IsFiniteSet(Threads) /\ Cardinality(Threads) = config.workers
  BY <1>1, CountTo DEF Threads
<1>3. IsFiniteSet(Registered)
  BY <1>1, <1>2, FS_Subset
<1>4. Cardinality(Registered \cup {t}) = wid + 1
  BY <1>1, <1>3, FS_AddElement
<1>5. Registered \cup {t} \subseteq Threads
  BY <1>1
<1>6. Cardinality(Registered \cup {t}) <= Cardinality(Threads)
  BY <1>2, <1>5, FS_Subset
<1> QED BY <1>1, <1>2, <1>4, <1>6 DEF Nodes

-----------------------------------------------------------------------------
(* What the steps of a worker leave alone.                                 *)
LEMMA WorkerFrame ==
    ASSUME StartInv, NEW t \in Threads, NEW from, NEW to,
           from # "none", Go(t, from, to)
    PROVE  /\ Threads' = Threads /\ Nodes' = Nodes
           /\ config' = config /\ udp_fd' = udp_fd
           /\ ConfigInv' /\ FdInv' /\ LaunchInv'
           /\ thread[t] = from /\ thread'[t] = to
           /\ \A u \in Threads : u # t => thread'[u] = thread[u]
<1>1. /\ Threads' = Threads /\ Nodes' = Nodes
      /\ config' = config /\ udp_fd' = udp_fd
  BY DEF Go, env, mainVars, Threads, Nodes
<1>2. /\ thread[t] = from /\ thread'[t] = to
      /\ \A u \in Threads : u # t => thread'[u] = thread[u]
  BY DEF Go, StartInv, TypeOK
<1>3. ConfigInv' /\ FdInv'
  BY DEF Go, env, mainVars, StartInv, ConfigInv, FdInv, Early, Usable
<1>4. LaunchInv'
  BY <1>1, <1>2 DEF Go, env, mainVars, StartInv, LaunchInv
<1> QED BY <1>1, <1>2, <1>3, <1>4

(* Types, when only thread and parts of a worker's own change.             *)
LEMMA WorkerTypes ==
    ASSUME StartInv, NEW t \in Threads, NEW from, NEW to,
           to \in {"lock", "node", "next", "udp", "efd", "init", "loop"},
           Go(t, from, to),
           mutex' \in Threads \cup {0},
           wid' \in 0 .. config.workers,
           sl' \in [Threads -> Nodes],
           epoll_fd' \in [Nodes -> Threads \cup {0}],
           initialized' \in [Nodes -> BOOLEAN],
           watch' \in [Threads -> SUBSET {"udp", "efd"}]
    PROVE  TypeOK'
<1>1. Threads' = Threads /\ Nodes' = Nodes
  BY DEF Go, env, mainVars, Threads, Nodes
<1>2. thread' \in [Threads -> {"none", "lock", "node", "next", "udp", "efd",
                               "init", "loop"}]
  BY DEF Go, StartInv, TypeOK
<1>3. UNCHANGED <<main, limit, config, fds, hw, udp_fd, listening, launched,
                  failed>>
  BY DEF Go, env, mainVars
<1> QED BY <1>1, <1>2, <1>3 DEF StartInv, TypeOK

(* What holds of a node and its thread, in both directions.                *)
LEMMA OwnNode ==
    ASSUME StartInv, NEW t \in Registered
    PROVE  /\ sl[t] \in Nodes /\ sl[t] < wid /\ epoll_fd[sl[t]] = t
           /\ t \in Threads
BY DEF StartInv, TypeOK, RegisterInv, Registered

(* A step of a registered thread that does not touch its registration.     *)
LEMMA StillRegistered ==
    ASSUME StartInv, NEW t \in Threads, NEW from, NEW to, Go(t, from, to),
           {from, to} \subseteq {"udp", "efd", "init", "loop"},
           UNCHANGED <<mutex, wid, sl, epoll_fd>>
    PROVE  Registered' = Registered /\ RegisterInv'
<1>1. /\ Threads' = Threads /\ Nodes' = Nodes
      /\ thread[t] = from /\ thread'[t] = to
      /\ \A u \in Threads : u # t => thread'[u] = thread[u]
  BY WorkerFrame
<1>2. Registered' = Registered
  BY <1>1 DEF Registered
<1> QED BY <1>1, <1>2 DEF StartInv, RegisterInv

LEMMA LockStep ==
    ASSUME StartInv, NEW t \in Threads, RegisterLock(t)
    PROVE  StartInv'
<1>0. Go(t, "lock", "node")
  BY DEF RegisterLock
<1>1. /\ Threads' = Threads /\ Nodes' = Nodes
      /\ config' = config /\ udp_fd' = udp_fd
      /\ ConfigInv' /\ FdInv' /\ LaunchInv'
      /\ thread[t] = "lock" /\ thread'[t] = "node"
      /\ \A u \in Threads : u # t => thread'[u] = thread[u]
  BY <1>0, WorkerFrame
<1>2. mutex = 0 /\ mutex' = t
      /\ UNCHANGED <<wid, sl, epoll_fd, initialized, watch>>
  BY DEF RegisterLock
<1>3. TypeOK'
  BY <1>0, <1>2, WorkerTypes DEF StartInv, TypeOK
<1>4. Registered' = Registered
  BY <1>1 DEF Registered
<1>5. \A u \in Threads : mutex' = u <=> thread'[u] \in {"node", "next"}
  <2>1. 0 \notin Threads
    BY DEF Threads
  <2> QED BY <1>1, <1>2, <2>1 DEF StartInv, RegisterInv
<1>6. RegisterInv'
  BY <1>1, <1>2, <1>4, <1>5 DEF StartInv, RegisterInv
<1>7. ReadyInv'
  BY <1>1, <1>2 DEF StartInv, ReadyInv, RegisterInv, Registered
<1>8. WatchInv'
  BY <1>1, <1>2 DEF StartInv, WatchInv, UdpPart
<1> QED BY <1>1, <1>3, <1>6, <1>7, <1>8 DEF StartInv

LEMMA NodeStep ==
    ASSUME StartInv, NEW t \in Threads, RegisterNode(t)
    PROVE  StartInv'
<1>0. Go(t, "node", "next")
  BY DEF RegisterNode
<1>1. /\ Threads' = Threads /\ Nodes' = Nodes
      /\ config' = config /\ udp_fd' = udp_fd
      /\ ConfigInv' /\ FdInv' /\ LaunchInv'
      /\ thread[t] = "node" /\ thread'[t] = "next"
      /\ \A u \in Threads : u # t => thread'[u] = thread[u]
  BY <1>0, WorkerFrame
<1>2. sl' = [sl EXCEPT ![t] = wid]
      /\ UNCHANGED <<mutex, wid, epoll_fd, initialized, watch>>
  BY DEF RegisterNode
<1>3. t \notin Registered /\ wid \in Nodes
  BY <1>1, NodeFree DEF Registered
<1>4. /\ sl' \in [Threads -> Nodes] /\ sl'[t] = wid
      /\ \A u \in Threads : u # t => sl'[u] = sl[u]
  BY <1>2, <1>3 DEF StartInv, TypeOK
<1>5. TypeOK'
  BY <1>0, <1>2, <1>4, WorkerTypes DEF StartInv, TypeOK
<1>6. Registered' = Registered
  BY <1>1 DEF Registered
<1>7. RegisterInv'
  <2>1. \A u \in Threads : mutex' = u <=> thread'[u] \in {"node", "next"}
    BY <1>1, <1>2 DEF StartInv, RegisterInv
  <2>2. \A u \in Threads : thread'[u] = "next" => sl'[u] = wid'
    BY <1>1, <1>2, <1>4 DEF StartInv, RegisterInv
  <2>3. \A u \in Registered : u \in Threads /\ u # t
    BY <1>3 DEF Registered
  <2> QED
    BY <1>1, <1>2, <1>4, <1>6, <2>1, <2>2, <2>3 DEF StartInv, RegisterInv
<1>8. ReadyInv'
  BY <1>1, <1>2 DEF StartInv, ReadyInv, RegisterInv, Registered
<1>9. WatchInv'
  BY <1>1, <1>2 DEF StartInv, WatchInv, UdpPart
<1> QED BY <1>1, <1>5, <1>7, <1>8, <1>9 DEF StartInv

LEMMA NextStep ==
    ASSUME StartInv, NEW t \in Threads, RegisterNext(t)
    PROVE  StartInv'
<1>0. Go(t, "next", "udp")
  BY DEF RegisterNext
<1>1. /\ Threads' = Threads /\ Nodes' = Nodes
      /\ config' = config /\ udp_fd' = udp_fd
      /\ ConfigInv' /\ FdInv' /\ LaunchInv'
      /\ thread[t] = "next" /\ thread'[t] = "udp"
      /\ \A u \in Threads : u # t => thread'[u] = thread[u]
  BY <1>0, WorkerFrame
<1>2. /\ epoll_fd' = [epoll_fd EXCEPT ![sl[t]] = t]
      /\ sl' = [sl EXCEPT ![t] = wid]
      /\ wid' = wid + 1 /\ mutex' = 0
      /\ UNCHANGED <<initialized, watch>>
  BY DEF RegisterNext
<1>3. /\ t \notin Registered /\ wid \in Nodes /\ wid < config.workers
      /\ Cardinality(Registered \cup {t}) = wid + 1
  BY <1>1, NodeFree DEF Registered
<1>4. sl[t] = wid /\ mutex = t
  BY <1>1 DEF StartInv, RegisterInv
<1>5. /\ epoll_fd' \in [Nodes -> Threads \cup {0}] /\ epoll_fd'[wid] = t
      /\ \A i \in Nodes : i # wid => epoll_fd'[i] = epoll_fd[i]
  BY <1>2, <1>3, <1>4 DEF StartInv, TypeOK
<1>6. /\ sl' \in [Threads -> Nodes] /\ sl'[t] = wid
      /\ \A u \in Threads : u # t => sl'[u] = sl[u]
  BY <1>2, <1>3 DEF StartInv, TypeOK
<1>7. wid \in Nat /\ config.workers \in Nat
  BY WorkersNat DEF StartInv
<1>8. TypeOK'
  <2>1. wid' \in 0 .. config.workers
    BY <1>2, <1>3, <1>7
  <2> QED BY <1>0, <1>2, <1>5, <1>6, <2>1, WorkerTypes DEF StartInv, TypeOK
<1>9. Registered' = Registered \cup {t}
  BY <1>1 DEF Registered
<1>10. RegisterInv'
  <2>1. 0 \notin Threads
    BY DEF Threads
  <2>2. \A u \in Threads : thread'[u] \notin {"node", "next"}
    BY <1>1, <1>4 DEF StartInv, RegisterInv
  <2>3. wid' = Cardinality(Registered')
    BY <1>2, <1>3, <1>9
  <2>4. ASSUME NEW u \in Registered' PROVE sl'[u] < wid' /\ epoll_fd'[sl'[u]] = u
    <3>1. CASE u = t
      BY <1>2, <1>5, <1>6, <1>7, <3>1
    <3>2. CASE u # t
      <4>1. u \in Registered
        BY <1>9, <3>2
      <4>2. /\ sl[u] \in Nodes /\ sl[u] < wid /\ epoll_fd[sl[u]] = u
            /\ u \in Threads
        BY <4>1, OwnNode
      <4>3. sl'[u] = sl[u] /\ sl[u] \in Int
        BY <1>6, <3>2, <4>2 DEF Nodes
      <4> QED BY <1>2, <1>5, <1>7, <4>2, <4>3
    <3> QED BY <3>1, <3>2
  <2>5. ASSUME NEW i \in Nodes', i < wid'
        PROVE  epoll_fd'[i] \in Registered' /\ sl'[epoll_fd'[i]] = i
    <3>1. CASE i = wid
      BY <1>5, <1>6, <1>9, <3>1
    <3>2. CASE i # wid
      <4>1. i \in Nodes /\ i < wid
        BY <1>1, <1>2, <1>7, <2>5, <3>2 DEF Nodes
      <4>2. epoll_fd[i] \in Registered /\ sl[epoll_fd[i]] = i
        BY <4>1 DEF StartInv, RegisterInv
      <4>3. epoll_fd[i] \in Threads /\ epoll_fd[i] # t
        BY <1>3, <4>2 DEF Registered
      <4> QED BY <1>5, <1>6, <1>9, <3>2, <4>1, <4>2, <4>3
    <3> QED BY <3>1, <3>2
  <2> QED BY <1>1, <1>2, <2>1, <2>2, <2>3, <2>4, <2>5 DEF RegisterInv
<1>11. ReadyInv'
  <2>1. ASSUME NEW i \in Nodes, initialized[i]
        PROVE  i < wid' /\ thread'[epoll_fd'[i]] = "loop"
    <3>1. i < wid /\ thread[epoll_fd[i]] = "loop" /\ i # wid /\ i \in Int
      BY <1>7, <2>1 DEF StartInv, ReadyInv, Nodes
    <3>2. epoll_fd[i] \in Threads /\ epoll_fd[i] # t
      BY <1>1, <3>1 DEF StartInv, RegisterInv, Registered
    <3> QED BY <1>1, <1>2, <1>5, <1>7, <3>1, <3>2
  <2> QED BY <1>1, <1>2, <2>1 DEF ReadyInv
<1>12. WatchInv'
  BY <1>1, <1>2 DEF StartInv, WatchInv, UdpPart
<1> QED BY <1>1, <1>8, <1>10, <1>11, <1>12 DEF StartInv

(* The epoll instance of a registered thread polls one thing more.         *)
LEMMA WatchOwn ==
    ASSUME StartInv, NEW t \in Registered, NEW fd \in {"udp", "efd"}, Watch(t, fd)
    PROVE  /\ UNCHANGED <<mutex, wid, sl, epoll_fd, initialized>>
           /\ watch' \in [Threads -> SUBSET {"udp", "efd"}]
           /\ watch'[t] = watch[t] \cup {fd}
           /\ \A u \in Threads : u # t => watch'[u] = watch[u]
<1>1. epoll_fd[sl[t]] = t /\ t \in Threads
  BY OwnNode
<1>2. watch' = [watch EXCEPT ![t] = watch[t] \cup {fd}]
  BY <1>1 DEF Watch
<1> QED BY <1>1, <1>2 DEF Watch, StartInv, TypeOK

LEMMA UdpStep ==
    ASSUME StartInv, NEW t \in Threads, AddUdp(t)
    PROVE  StartInv'
<1>0. Go(t, "udp", "efd")
  BY DEF AddUdp
<1>1. /\ Threads' = Threads /\ Nodes' = Nodes
      /\ config' = config /\ udp_fd' = udp_fd
      /\ ConfigInv' /\ FdInv' /\ LaunchInv'
      /\ thread[t] = "udp" /\ thread'[t] = "efd"
      /\ \A u \in Threads : u # t => thread'[u] = thread[u]
  BY <1>0, WorkerFrame
<1>2. t \in Registered
  BY <1>1 DEF Registered
<1>3. watch[t] = {}
  BY <1>1 DEF StartInv, WatchInv
<1>4. /\ UNCHANGED <<mutex, wid, sl, epoll_fd, initialized>>
      /\ watch' \in [Threads -> SUBSET {"udp", "efd"}]
      /\ watch'[t] = UdpPart
      /\ \A u \in Threads : u # t => watch'[u] = watch[u]
  <2>1. CASE udp_fd
    BY <1>2, <1>3, <2>1, WatchOwn DEF AddUdp, UdpPart
  <2>2. CASE ~udp_fd
    BY <1>3, <2>2 DEF AddUdp, UdpPart, nodeVars, StartInv, TypeOK
  <2> QED BY <2>1, <2>2
<1>5. TypeOK'
  BY <1>0, <1>4, WorkerTypes DEF StartInv, TypeOK
<1>6. RegisterInv'
  BY <1>0, <1>4, StillRegistered
<1>7. ReadyInv'
  BY <1>1, <1>4 DEF StartInv, ReadyInv, RegisterInv, Registered
<1>8. WatchInv'
  BY <1>1, <1>4 DEF StartInv, WatchInv, UdpPart
<1> QED BY <1>1, <1>5, <1>6, <1>7, <1>8 DEF StartInv

LEMMA EventFdStep ==
    ASSUME StartInv, NEW t \in Threads, AddEventFd(t)
    PROVE  StartInv'
<1>0. Go(t, "efd", "init") /\ Watch(t, "efd")
  BY DEF AddEventFd
<1>1. /\ Threads' = Threads /\ Nodes' = Nodes
      /\ config' = config /\ udp_fd' = udp_fd
      /\ ConfigInv' /\ FdInv' /\ LaunchInv'
      /\ thread[t] = "efd" /\ thread'[t] = "init"
      /\ \A u \in Threads : u # t => thread'[u] = thread[u]
  BY <1>0, WorkerFrame
<1>2. t \in Registered
  BY <1>1 DEF Registered
<1>3. watch[t] = UdpPart
  BY <1>1 DEF StartInv, WatchInv
<1>4. /\ UNCHANGED <<mutex, wid, sl, epoll_fd, initialized>>
      /\ watch' \in [Threads -> SUBSET {"udp", "efd"}]
      /\ watch'[t] = {"efd"} \cup UdpPart
      /\ \A u \in Threads : u # t => watch'[u] = watch[u]
  BY <1>0, <1>2, <1>3, WatchOwn
<1>5. TypeOK'
  BY <1>0, <1>4, WorkerTypes DEF StartInv, TypeOK
<1>6. RegisterInv'
  BY <1>0, <1>4, StillRegistered
<1>7. ReadyInv'
  BY <1>1, <1>4 DEF StartInv, ReadyInv, RegisterInv, Registered
<1>8. WatchInv'
  BY <1>1, <1>4 DEF StartInv, WatchInv, UdpPart
<1> QED BY <1>1, <1>5, <1>6, <1>7, <1>8 DEF StartInv

LEMMA LoopStep ==
    ASSUME StartInv, NEW t \in Threads, LoopEntered(t)
    PROVE  StartInv'
<1>0. Go(t, "init", "loop")
  BY DEF LoopEntered
<1>1. /\ Threads' = Threads /\ Nodes' = Nodes
      /\ config' = config /\ udp_fd' = udp_fd
      /\ ConfigInv' /\ FdInv' /\ LaunchInv'
      /\ thread[t] = "init" /\ thread'[t] = "loop"
      /\ \A u \in Threads : u # t => thread'[u] = thread[u]
  BY <1>0, WorkerFrame
<1>2. t \in Registered
  BY <1>1 DEF Registered
<1>3. sl[t] \in Nodes /\ sl[t] < wid /\ epoll_fd[sl[t]] = t
  BY <1>2, OwnNode
<1>4. /\ initialized' \in [Nodes -> BOOLEAN]
      /\ \A i \in Nodes : i # sl[t] => initialized'[i] = initialized[i]
      /\ UNCHANGED <<mutex, wid, sl, epoll_fd, watch>>
  BY <1>3 DEF LoopEntered, StartInv, TypeOK
<1>5. TypeOK'
  BY <1>0, <1>4, WorkerTypes DEF StartInv, TypeOK
<1>6. RegisterInv'
  BY <1>0, <1>4, StillRegistered
<1>7. ReadyInv'
  <2>1. ASSUME NEW i \in Nodes, initialized'[i]
        PROVE  i < wid /\ thread'[epoll_fd[i]] = "loop"
    <3>1. CASE i = sl[t]
      BY <1>1, <1>3, <3>1
    <3>2. CASE i # sl[t]
      <4>1. i < wid /\ thread[epoll_fd[i]] = "loop"
        BY <1>4, <2>1, <3>2 DEF StartInv, ReadyInv
      <4>2. epoll_fd[i] \in Threads
        BY <4>1 DEF StartInv, RegisterInv, Registered
      <4> QED BY <1>1, <4>1, <4>2
    <3> QED BY <3>1, <3>2
  <2> QED BY <1>1, <1>4, <2>1 DEF ReadyInv
<1>8. WatchInv'
  BY <1>1, <1>4 DEF StartInv, WatchInv, UdpPart
<1> QED BY <1>1, <1>5, <1>6, <1>7, <1>8 DEF StartInv

-----------------------------------------------------------------------------
(* The steps of main.                                                      *)

(* Nothing of the workers changes, and the UDP socket only while there are *)
(* none.                                                                   *)
LEMMA MainAlone ==
    ASSUME StartInv, UNCHANGED <<config, thread, nodeVars>>,
           main \in {"launch", "barrier", "serve"} => udp_fd' = udp_fd
    PROVE  RegisterInv' /\ ReadyInv' /\ WatchInv'
<1>1. Threads' = Threads /\ Nodes' = Nodes
  BY DEF Threads, Nodes
<1>2. Registered' = Registered
  BY <1>1 DEF Registered
<1>3. RegisterInv' /\ ReadyInv'
  BY <1>1, <1>2 DEF nodeVars, StartInv, RegisterInv, ReadyInv
<1>4. WatchInv'
  <2>1. CASE udp_fd' = udp_fd
    BY <1>1, <2>1 DEF nodeVars, StartInv, WatchInv, UdpPart
  <2>2. CASE main \notin {"launch", "barrier", "serve"}
    <3>1. \A t \in Threads : t > 0
      BY DEF Threads
    <3>2. \A t \in Threads : thread[t] = "none"
      BY <2>2, <3>1 DEF StartInv, LaunchInv, Threads
    <3> QED BY <1>1, <3>2 DEF nodeVars, StartInv, WatchInv
  <2> QED BY <2>1, <2>2
<1> QED BY <1>3, <1>4

(* The nodes are allocated, and no thread exists.                          *)
LEMMA ConfiguredStep ==
    ASSUME StartInv, NEW s, Usable(s), Configured(s),
           failed' \subseteq {"file", "hardware", "udp", "listen", "setsockopt",
                             "worker"}
    PROVE  StartInv'
<1>1. /\ main = "configure" /\ main' = "async" /\ config' = s
      /\ UNCHANGED <<limit, fds, hw, udp_fd, listening, launched, mutex, wid>>
  BY DEF Configured, fileVars
<1>2. /\ config.workers = 0 /\ launched = 0 /\ wid = 0 /\ mutex = 0
      /\ fds <= 3
  <2>1. config.workers = 0
    BY <1>1 DEF StartInv, ConfigInv, Early
  <2>2. Threads = {}
    BY <2>1 DEF Threads
  <2> QED BY <1>1, <2>1, <2>2 DEF StartInv, TypeOK, FdInv
<1>3. s.workers \in Nat /\ s.workers > 0
  BY ShortsPositive DEF Usable
<1>4. Threads' = 1 .. s.workers /\ Nodes' = 0 .. s.workers - 1
  BY <1>1 DEF Threads, Nodes
<1>5. /\ thread' = [t \in Threads' |-> "none"]
      /\ sl' = [t \in Threads' |-> 0] /\ watch' = [t \in Threads' |-> {}]
      /\ epoll_fd' = [i \in Nodes' |-> 0]
      /\ initialized' = [i \in Nodes' |-> FALSE]
  BY DEF Configured
<1>6. 0 \in Nodes' /\ 0 \notin Threads'
  BY <1>3, <1>4
<1>7. Registered' = {}
  BY <1>5 DEF Registered
<1>8. TypeOK'
  <2>1. /\ thread' \in [Threads' -> {"none", "lock", "node", "next", "udp",
                                     "efd", "init", "loop"}]
        /\ sl' \in [Threads' -> Nodes']
        /\ epoll_fd' \in [Nodes' -> Threads' \cup {0}]
        /\ initialized' \in [Nodes' -> BOOLEAN]
        /\ watch' \in [Threads' -> SUBSET {"udp", "efd"}]
    BY <1>5, <1>6
  <2>2. /\ launched' \in 0 .. config'.workers /\ wid' \in 0 .. config'.workers
        /\ mutex' \in Threads' \cup {0}
    BY <1>1, <1>2, <1>3
  <2>3. s.worker_capacity \in Int
    BY <1>3, CapacityInt, WorkersNat DEF Usable, StartInv
  <2>4. /\ s.workers \in Shorts \cup {0} /\ s.serverport \in Ports
        /\ s.max_request_size \in Nat \ {0}
    BY DEF Usable
  <2>5. fds' \in 3 .. limit' /\ limit' \in Limits
    BY <1>1 DEF StartInv, TypeOK
  <2>6. hw' \in BOOLEAN /\ udp_fd' \in BOOLEAN /\ listening' \in BOOLEAN
    BY <1>1 DEF StartInv, TypeOK
  <2> QED BY <1>1, <1>3, <2>1, <2>2, <2>3, <2>4, <2>5, <2>6 DEF TypeOK
<1>9. ConfigInv' /\ FdInv' /\ LaunchInv'
  BY <1>1, <1>2, <1>5 DEF ConfigInv, Early, FdInv, LaunchInv, Usable
<1>10. RegisterInv'
  <2>1. wid' = Cardinality(Registered')
    BY <1>1, <1>2, <1>7, FS_EmptySet
  <2>2. \A i \in Nodes' : ~(i < wid')
    BY <1>1, <1>2, <1>3, <1>4
  <2> QED BY <1>1, <1>2, <1>5, <1>6, <1>7, <2>1, <2>2 DEF RegisterInv
<1>11. ReadyInv' /\ WatchInv'
  BY <1>5 DEF ReadyInv, WatchInv
<1> QED BY <1>8, <1>9, <1>10, <1>11 DEF StartInv

(* Types, when main takes a step that creates no thread.                   *)
LEMMA MainTypes ==
    ASSUME StartInv, UNCHANGED <<limit, config, thread, nodeVars>>,
           main' \in {"udp", "listen", "launch", "barrier", "serve", "exited"},
           main \notin {"configure", "crashed"},
           fds' = fds \/ (fds < limit /\ fds' = fds + 1),
           hw' \in BOOLEAN, udp_fd' \in BOOLEAN, listening' \in BOOLEAN,
           launched' \in 0 .. config.workers,
           failed' \subseteq {"file", "hardware", "udp", "listen", "setsockopt",
                             "worker"}
    PROVE  TypeOK' /\ ConfigInv'
<1>1. Threads' = Threads /\ Nodes' = Nodes
  BY DEF Threads, Nodes
<1>2. limit' \in Limits /\ fds' \in 3 .. limit'
  BY WorkersNat DEF StartInv, TypeOK
<1>3. TypeOK'
  BY <1>1, <1>2 DEF StartInv, TypeOK, nodeVars
<1>4. ConfigInv'
  BY DEF StartInv, ConfigInv, Early, Usable
<1> QED BY <1>3, <1>4

LEMMA AsyncStep ==
    ASSUME StartInv, xlab_async_init PROVE StartInv'
<1>1. /\ main = "async" /\ main' \in {"udp", "exited"}
      /\ UNCHANGED <<limit, config, udp_fd, listening, launched, thread, nodeVars>>
      /\ \/ fds' = fds /\ main' = "exited"
         \/ fds < limit /\ fds' = fds + 1 /\ main' = "udp"
      /\ hw' = hw \/ hw' = TRUE
      /\ failed' = failed \/ failed' = failed \cup {"hardware"}
  BY DEF xlab_async_init
<1>2. TypeOK' /\ ConfigInv'
  <2>1. hw' \in BOOLEAN /\ udp_fd' \in BOOLEAN /\ listening' \in BOOLEAN
    BY <1>1 DEF StartInv, TypeOK
  <2>2. /\ launched' \in 0 .. config.workers
        /\ failed' \subseteq {"file", "hardware", "udp", "listen", "setsockopt",
                              "worker"}
    BY <1>1 DEF StartInv, TypeOK
  <2> QED BY <1>1, <2>1, <2>2, MainTypes
<1>3. RegisterInv' /\ ReadyInv' /\ WatchInv'
  BY <1>1, MainAlone
<1>4. FdInv'
  BY <1>1 DEF StartInv, FdInv, TypeOK
<1>5. LaunchInv'
  BY <1>1 DEF StartInv, LaunchInv, Threads
<1> QED BY <1>2, <1>3, <1>4, <1>5 DEF StartInv

LEMMA UdpInitStep ==
    ASSUME StartInv, xlab_trans_udp_init PROVE StartInv'
<1>1. /\ main = "udp" /\ main' = "listen"
      /\ UNCHANGED <<limit, config, hw, listening, launched, thread, nodeVars>>
      /\ fds' = fds \/ (fds < limit /\ fds' = fds + 1)
      /\ udp_fd' = udp_fd \/ udp_fd' = TRUE
      /\ failed' = failed \/ failed' = failed \cup {"udp"}
  BY DEF xlab_trans_udp_init, env
<1>2. TypeOK' /\ ConfigInv'
  <2>1. hw' \in BOOLEAN /\ udp_fd' \in BOOLEAN /\ listening' \in BOOLEAN
    BY <1>1 DEF StartInv, TypeOK
  <2>2. /\ launched' \in 0 .. config.workers
        /\ failed' \subseteq {"file", "hardware", "udp", "listen", "setsockopt",
                              "worker"}
    BY <1>1 DEF StartInv, TypeOK
  <2> QED BY <1>1, <2>1, <2>2, MainTypes
<1>3. RegisterInv' /\ ReadyInv' /\ WatchInv'
  BY <1>1, MainAlone
<1>4. FdInv'
  BY <1>1 DEF StartInv, FdInv, TypeOK
<1>5. LaunchInv'
  BY <1>1 DEF StartInv, LaunchInv, Threads
<1> QED BY <1>2, <1>3, <1>4, <1>5 DEF StartInv

LEMMA ServerStep ==
    ASSUME StartInv, xlab_socket_server PROVE StartInv'
<1>1. /\ main = "listen" /\ main' \in {"launch", "exited"}
      /\ UNCHANGED <<limit, config, hw, udp_fd, launched, thread, nodeVars>>
      /\ fds' = fds \/ (fds < limit /\ fds' = fds + 1)
      /\ listening' = listening \/ listening' = TRUE
      /\ \/ failed' = failed \/ failed' = failed \cup {"listen"}
         \/ failed' = failed \cup {"setsockopt"}
  BY DEF xlab_socket_server, env
<1>2. TypeOK' /\ ConfigInv'
  <2>1. hw' \in BOOLEAN /\ udp_fd' \in BOOLEAN /\ listening' \in BOOLEAN
    BY <1>1 DEF StartInv, TypeOK
  <2>2. /\ launched' \in 0 .. config.workers
        /\ failed' \subseteq {"file", "hardware", "udp", "listen", "setsockopt",
                              "worker"}
    BY <1>1 DEF StartInv, TypeOK
  <2> QED BY <1>1, <2>1, <2>2, MainTypes
<1>3. RegisterInv' /\ ReadyInv' /\ WatchInv'
  BY <1>1, MainAlone
<1>4. launched = 0
  BY <1>1 DEF StartInv, LaunchInv
<1>5. FdInv'
  BY <1>1, <1>4 DEF StartInv, FdInv, TypeOK
<1>6. LaunchInv'
  BY <1>1, <1>4 DEF StartInv, LaunchInv, Threads
<1> QED BY <1>2, <1>3, <1>5, <1>6 DEF StartInv

(* A round of the loop that creates no thread.                             *)
LEMMA NoThreadStep ==
    ASSUME StartInv, NoEpoll \/ NoThread PROVE StartInv'
<1>1. /\ main = "launch" /\ main' = "launch" /\ launched < config.workers
      /\ launched' = launched + 1
      /\ UNCHANGED <<limit, config, hw, udp_fd, listening, thread, nodeVars>>
      /\ fds' = fds \/ (fds < limit /\ fds' = fds + 1)
      /\ failed' = failed \/ failed' = failed \cup {"worker"}
  BY DEF NoEpoll, NoThread, Epoll, xlab_sched_launch_thread, env
<1>2. config.workers \in Nat /\ launched \in Nat
  BY WorkersNat DEF StartInv, TypeOK
<1>3. TypeOK' /\ ConfigInv'
  <2>1. hw' \in BOOLEAN /\ udp_fd' \in BOOLEAN /\ listening' \in BOOLEAN
    BY <1>1 DEF StartInv, TypeOK
  <2>2. launched' \in 0 .. config.workers
    BY <1>1, <1>2
  <2>3. failed' \subseteq {"file", "hardware", "udp", "listen", "setsockopt",
                          "worker"}
    BY <1>1 DEF StartInv, TypeOK
  <2> QED BY <1>1, <2>1, <2>2, <2>3, MainTypes
<1>4. RegisterInv' /\ ReadyInv' /\ WatchInv'
  BY <1>1, MainAlone
<1>5. FdInv'
  BY <1>1, <1>2 DEF StartInv, FdInv, TypeOK
<1>6. LaunchInv'
  BY <1>1, <1>2 DEF StartInv, LaunchInv, Threads
<1> QED BY <1>3, <1>4, <1>5, <1>6 DEF StartInv

(* The new thread waits for the mutex; before, it did not exist.           *)
LEMMA ThreadStep ==
    ASSUME StartInv, Thread PROVE StartInv'
<1> DEFINE t == launched + 1
<1>1. /\ main = "launch" /\ launched < config.workers
      /\ launched' = t
      /\ UNCHANGED <<main, env, hw, udp_fd, listening, nodeVars, failed>>
      /\ fds < limit /\ fds' = fds + 1 /\ config.worker_capacity > 0
      /\ thread' = [thread EXCEPT ![t] = "lock"]
  BY DEF Thread, Epoll, xlab_sched_launch_thread
<1>2. config.workers \in Nat /\ launched \in Nat /\ limit \in Nat
  BY WorkersNat DEF StartInv, TypeOK
<1>3. t \in Threads
  BY <1>1, <1>2 DEF Threads
<1>4. thread[t] = "none"
  BY <1>2, <1>3 DEF StartInv, LaunchInv
<1>5. Threads' = Threads /\ Nodes' = Nodes
  BY <1>1 DEF Threads, Nodes, env
<1> HIDE DEF t
<1>6. /\ thread' \in [Threads -> {"none", "lock", "node", "next", "udp", "efd",
                                  "init", "loop"}]
      /\ thread'[t] = "lock"
      /\ \A u \in Threads : u # t => thread'[u] = thread[u]
  BY <1>1, <1>3 DEF StartInv, TypeOK
<1>7. TypeOK'
  <2>1. fds' \in 3 .. limit /\ launched' \in 0 .. config.workers
    BY <1>1, <1>2 DEF StartInv, TypeOK, t
  <2> QED BY <1>1, <1>5, <1>6, <2>1 DEF StartInv, TypeOK, env, nodeVars
<1>8. ConfigInv' /\ FdInv'
  BY <1>1, <1>2 DEF StartInv, TypeOK, ConfigInv, Early, Usable, FdInv, env, t
<1>9. LaunchInv'
  <2>1. ASSUME NEW u \in Threads, thread'[u] # "none" PROVE u <= t
    <3>1. CASE u = t
      BY <1>2, <3>1 DEF t
    <3>2. CASE u # t
      BY <1>2, <1>6, <2>1, <3>2 DEF StartInv, LaunchInv, Threads, t
    <3> QED BY <3>1, <3>2
  <2> QED BY <1>1, <1>5, <2>1 DEF LaunchInv, env
<1>10. Registered' = Registered
  BY <1>4, <1>5, <1>6 DEF Registered
<1>11. RegisterInv'
  <2>1. \A u \in Threads : mutex = u <=> thread'[u] \in {"node", "next"}
    BY <1>4, <1>6 DEF StartInv, RegisterInv
  <2> QED
    BY <1>1, <1>5, <1>6, <1>10, <2>1 DEF StartInv, RegisterInv, nodeVars
<1>12. ReadyInv'
  BY <1>1, <1>4, <1>5, <1>6
  DEF StartInv, ReadyInv, RegisterInv, Registered, nodeVars
<1>13. WatchInv'
  BY <1>1, <1>4, <1>5, <1>6 DEF StartInv, WatchInv, UdpPart, nodeVars
<1> QED BY <1>7, <1>8, <1>9, <1>11, <1>12, <1>13 DEF StartInv

(* To the barrier, and past it.                                            *)
LEMMA BarrierStep ==
    ASSUME StartInv, Launched \/ Barrier PROVE StartInv'
<1>1. /\ main \in {"launch", "barrier"} /\ main' \in {"barrier", "serve"}
      /\ UNCHANGED <<limit, config, fds, hw, udp_fd, listening, launched,
                     thread, nodeVars, failed>>
  BY DEF Launched, Barrier, env
<1>2. TypeOK' /\ ConfigInv'
  <2>1. /\ hw' \in BOOLEAN /\ udp_fd' \in BOOLEAN /\ listening' \in BOOLEAN
        /\ launched' \in 0 .. config.workers
        /\ failed' \subseteq {"file", "hardware", "udp", "listen", "setsockopt",
                              "worker"}
    BY <1>1 DEF StartInv, TypeOK
  <2> QED BY <1>1, <2>1, MainTypes
<1>3. RegisterInv' /\ ReadyInv' /\ WatchInv'
  BY <1>1, MainAlone
<1>4. FdInv' /\ LaunchInv'
  BY <1>1 DEF StartInv, FdInv, LaunchInv, Threads
<1> QED BY <1>2, <1>3, <1>4 DEF StartInv

(* No more than the file or the end of it.                                 *)
LEMMA IdleStep ==
    ASSUME StartInv, ReadFile \/ Crash \/ UNCHANGED vars PROVE StartInv'
<1>1. /\ main' = main \/ (main = "configure" /\ main' = "crashed")
      /\ UNCHANGED <<limit, config, fds, hw, udp_fd, listening, launched,
                     thread, nodeVars, failed>>
  BY DEF ReadFile, Crash, vars, mainVars, env
<1>2. Threads' = Threads /\ Nodes' = Nodes
  BY <1>1 DEF Threads, Nodes
<1>3. TypeOK'
  BY <1>1, <1>2 DEF StartInv, TypeOK, nodeVars
<1>4. RegisterInv' /\ ReadyInv' /\ WatchInv'
  BY <1>1, MainAlone
<1>5. ConfigInv' /\ FdInv' /\ LaunchInv'
  BY <1>1, <1>2 DEF StartInv, ConfigInv, Early, Usable, FdInv, LaunchInv
<1> QED BY <1>3, <1>4, <1>5 DEF StartInv

-----------------------------------------------------------------------------
LEMMA StepStart == StartInv /\ [Next]_vars => StartInv'
<1> SUFFICES ASSUME StartInv, [Next]_vars PROVE StartInv'
  OBVIOUS
<1>1. CASE Configure
  <2>1. Usable(xlab_config_read_files(conf, limit))
    BY ReadUsable
  <2>2. failed' \subseteq {"file", "hardware", "udp", "listen", "setsockopt",
                          "worker"}
    BY <1>1 DEF Configure, StartInv, TypeOK
  <2>3. Configured(xlab_config_read_files(conf, limit))
    BY <1>1 DEF Configure
  <2> QED BY <2>1, <2>2, <2>3, ConfiguredStep
<1>2. CASE ConfigureWithout
  <2>1. failed' \subseteq {"file", "hardware", "udp", "listen", "setsockopt",
                          "worker"}
    BY <1>2 DEF ConfigureWithout, StartInv, TypeOK
  <2>2. Configured(NotRead)
    BY <1>2 DEF ConfigureWithout
  <2> QED BY <2>1, <2>2, DefaultUsable, ConfiguredStep
<1>3. CASE ReadFile \/ Crash \/ UNCHANGED vars
  BY <1>3, IdleStep
<1>4. CASE xlab_async_init
  BY <1>4, AsyncStep
<1>5. CASE xlab_trans_udp_init
  BY <1>5, UdpInitStep
<1>6. CASE xlab_socket_server
  BY <1>6, ServerStep
<1>7. CASE NoEpoll \/ NoThread
  BY <1>7, NoThreadStep
<1>8. CASE Thread
  BY <1>8, ThreadStep
<1>9. CASE Launched \/ Barrier
  BY <1>9, BarrierStep
<1>10. CASE SomeWorker
  <2>1. PICK t \in Threads : Worker(t)
    BY <1>10 DEF SomeWorker
  <2> QED
    BY <2>1, LockStep, NodeStep, NextStep, UdpStep, EventFdStep, LoopStep
    DEF Worker
<1> QED
  BY <1>1, <1>2, <1>3, <1>4, <1>5, <1>6, <1>7, <1>8, <1>9, <1>10
  DEF Next, Main

LEMMA AlwaysStart == Spec => []StartInv
BY InitStart, StepStart, PTL DEF Spec

(***************************************************************************)
(* The types of the start-up, for every file, every limit and every        *)
(* failure: whatever is configured, the settings are usable, no worker is  *)
(* given a node that does not exist, and the limit of descriptors is kept. *)
(***************************************************************************)
THEOREM StartupTypes == Spec => []TypeOK
<1>1. StartInv => TypeOK
  BY DEF StartInv
<1> QED BY <1>1, AlwaysStart, PTL

-----------------------------------------------------------------------------
(* Past the barrier, which reads initialized once.                         *)
ServeInv == main = "serve" => Ready

LEMMA StepServe == StartInv /\ ServeInv /\ [Next]_vars => ServeInv'
<1> SUFFICES ASSUME StartInv, ServeInv, [Next]_vars PROVE ServeInv'
  OBVIOUS
<1>1. CASE Main \/ UNCHANGED vars
  <2>1. CASE Barrier
    BY <2>1 DEF Barrier, ServeInv, Ready, Nodes, env, nodeVars
  <2>2. CASE UNCHANGED vars
    BY <2>2 DEF ServeInv, Ready, Nodes, vars, env, mainVars, nodeVars
  <2>3. CASE Main /\ ~Barrier
    <3>1. main' # "serve"
      BY <2>3 DEF Main, ReadFile, Configure, ConfigureWithout, Configured,
                  Crash, xlab_async_init, xlab_trans_udp_init,
                  xlab_socket_server, NoEpoll, NoThread, Thread, Epoll,
                  xlab_sched_launch_thread, Launched, mainVars
    <3> QED BY <3>1 DEF ServeInv
  <2> QED BY <1>1, <2>1, <2>2, <2>3
<1>2. CASE SomeWorker
  <2>1. PICK t \in Threads : Worker(t)
    BY <1>2 DEF SomeWorker
  <2>2. main' = main /\ Nodes' = Nodes
    BY <2>1 DEF Worker, RegisterLock, RegisterNode, RegisterNext, AddUdp,
                AddEventFd, LoopEntered, Go, env, mainVars, Nodes
  <2>3. \/ initialized' = initialized
        \/ initialized' = [initialized EXCEPT ![sl[t]] = TRUE]
    BY <2>1 DEF Worker, RegisterLock, RegisterNode, RegisterNext, AddUdp,
                AddEventFd, LoopEntered, Watch, nodeVars
  <2>4. initialized \in [Nodes -> BOOLEAN]
    BY DEF StartInv, TypeOK
  <2>5. ASSUME NEW i \in Nodes, initialized[i] PROVE initialized'[i]
    BY <2>3, <2>4, <2>5
  <2> QED BY <2>2, <2>5 DEF ServeInv, Ready
<1> QED BY <1>1, <1>2 DEF Next

LEMMA AlwaysServe == Spec => [](StartInv /\ ServeInv)
<1>1. Init => ServeInv
  BY DEF Init, ServeInv
<1> QED BY <1>1, InitStart, StepStart, StepServe, PTL DEF Spec

(***************************************************************************)
(* Past the barrier all nodes of sched_list belong to different threads in *)
(* their event loops, which poll all that they should, whatever calls of   *)
(* main have failed without its looking at the result.                     *)
(***************************************************************************)
THEOREM NoneServesEarly == Spec => []WorkersComplete
<1>1. StartInv /\ ServeInv => WorkersComplete
  <2> SUFFICES ASSUME StartInv, ServeInv, main = "serve" PROVE WorkersComplete
    BY DEF WorkersComplete
  <2>1. ASSUME NEW i \in Nodes
        PROVE  /\ epoll_fd[i] \in Threads /\ sl[epoll_fd[i]] = i
               /\ thread[epoll_fd[i]] = "loop"
    BY DEF StartInv, ServeInv, Ready, ReadyInv, RegisterInv, Registered
  <2>2. ASSUME NEW i \in Nodes PROVE watch[epoll_fd[i]] = {"efd"} \cup UdpPart
    BY <2>1 DEF StartInv, WatchInv
  <2> QED BY <2>1, <2>2 DEF WorkersComplete, UdpPart
<1> QED BY <1>1, AlwaysServe, PTL

(***************************************************************************)
(* The descriptors suffice for all clients the workers are told to take,   *)
(* and for the one too many, whatever the limit and the number of workers. *)
(***************************************************************************)
THEOREM WithinTheLimit == Spec => []DescriptorBudget
<1>1. StartInv /\ ServeInv => DescriptorBudget
  <2> SUFFICES ASSUME StartInv, ServeInv, main = "serve"
               PROVE  DescriptorBudget
    BY DEF DescriptorBudget
  <2> DEFINE n == config.workers
             c == config.worker_capacity
  <2>1. n \in Nat /\ limit \in Nat
    BY WorkersNat DEF StartInv
  <2>2. n > 0 /\ c \in Int
    BY DEF StartInv, TypeOK
  <2>3. c > 0
    <3>1. 0 \in Nodes
      BY <2>1, <2>2 DEF Nodes
    <3>2. epoll_fd[0] \in Threads /\ thread[epoll_fd[0]] = "loop"
      BY <3>1 DEF StartInv, ServeInv, Ready, ReadyInv, RegisterInv, Registered
    <3> QED BY <3>2 DEF StartInv, LaunchInv
  <2>4. c = xlab_server_worker_capacity(n, limit)
    BY <2>2, <2>3 DEF StartInv, ConfigInv, Early, Usable
  <2>5. fds <= 6 + launched /\ launched <= n /\ launched \in Nat /\ fds \in Nat
    BY <2>1 DEF StartInv, FdInv, TypeOK
  <2> HIDE DEF n, c
  <2>6. 7 + n + n * c <= limit /\ n * c \in Int
    BY <2>1, <2>2, <2>3, <2>4, CapacityFits
  <2>7. fds + n * c + 1 <= limit
    BY <2>1, <2>5, <2>6
  <2> QED BY <2>7 DEF DescriptorBudget, n, c
<1> QED BY <1>1, AlwaysServe, PTL

-----------------------------------------------------------------------------
(* What is missing stays missing: without a file the capacity is the zero  *)
(* of malloc_z, and no thread is created in the place of one that failed.  *)
MissingInv ==
    /\ "file" \in failed => ~Early /\ config.worker_capacity = 0
    /\ "worker" \in failed =>
         \E t \in Threads : t <= launched /\ thread[t] = "none"

(* A worker in its loop is counted at the barrier.                         *)
EnteredInv == \A t \in Threads : thread[t] = "loop" => initialized[sl[t]]

LEMMA StepMissing == StartInv /\ MissingInv /\ [Next]_vars => MissingInv'
<1> SUFFICES ASSUME StartInv, MissingInv, [Next]_vars PROVE MissingInv'
  OBVIOUS
<1>0. config.workers \in Nat /\ launched \in Nat
  BY WorkersNat DEF StartInv, TypeOK
<1>1. CASE Configure
  <2>1. Early /\ failed' = failed /\ "file" \notin failed
    BY <1>1 DEF Configure, Configured, Early, MissingInv
  <2>2. Threads = {}
    BY <1>0, <2>1 DEF StartInv, ConfigInv, Threads
  <2> QED BY <2>1, <2>2 DEF MissingInv
<1>2. CASE ConfigureWithout
  <2>1. Early /\ failed' = failed \cup {"file"} /\ config' = NotRead
        /\ main' = "async"
    BY <1>2 DEF ConfigureWithout, Configured, Early
  <2>2. Threads = {}
    BY <1>0, <2>1 DEF StartInv, ConfigInv, Threads
  <2>3. NotRead.worker_capacity = 0
    BY DEF NotRead, ConfigOf
  <2> QED BY <2>1, <2>2, <2>3 DEF MissingInv, Early
<1>3. CASE NoThread
  <2>1. /\ failed' = failed \cup {"worker"} /\ launched' = launched + 1
        /\ launched < config.workers
        /\ UNCHANGED <<main, config, thread>>
    BY <1>3 DEF NoThread, Epoll, xlab_sched_launch_thread, env
  <2>2. launched + 1 \in Threads /\ thread[launched + 1] = "none"
    BY <1>0, <2>1 DEF StartInv, LaunchInv, Threads
  <2> QED BY <1>0, <2>1, <2>2 DEF MissingInv, Early, Threads
<1>4. CASE NoEpoll \/ Thread
  <2>1. /\ failed' = failed /\ launched' = launched + 1
        /\ launched < config.workers
        /\ UNCHANGED <<main, config>>
        /\ \/ thread' = thread
           \/ thread' = [thread EXCEPT ![launched + 1] = "lock"]
    BY <1>4 DEF NoEpoll, Thread, Epoll, xlab_sched_launch_thread, env
  <2>2. ASSUME NEW t \in Threads, t <= launched, thread[t] = "none"
        PROVE  t <= launched' /\ thread'[t] = "none"
    <3>1. t <= launched' /\ t # launched + 1
      BY <1>0, <2>1, <2>2 DEF Threads
    <3> QED BY <2>1, <2>2, <3>1 DEF StartInv, TypeOK
  <2> QED BY <2>1, <2>2 DEF MissingInv, Early, Threads
<1>5. CASE \/ ReadFile \/ Crash \/ xlab_async_init \/ xlab_trans_udp_init
           \/ xlab_socket_server \/ Launched \/ Barrier \/ UNCHANGED vars
  <2>1. /\ failed' \subseteq failed \cup {"hardware", "udp", "listen", "setsockopt"}
        /\ UNCHANGED <<config, thread, launched>>
    BY <1>5 DEF ReadFile, Crash, xlab_async_init, xlab_trans_udp_init,
                xlab_socket_server, Launched, Barrier, mainVars, env, vars
  <2>2. ~Early => ~Early'
    BY <1>5 DEF ReadFile, Crash, xlab_async_init, xlab_trans_udp_init,
                xlab_socket_server, Launched, Barrier, mainVars, vars, Early
  <2> QED BY <2>1, <2>2 DEF MissingInv, Threads
<1>6. CASE SomeWorker
  <2>1. PICK t \in Threads : Worker(t)
    BY <1>6 DEF SomeWorker
  <2>2. /\ UNCHANGED <<main, config, failed, launched>>
        /\ \A u \in Threads : thread[u] = "none" => thread'[u] = "none"
    BY <2>1 DEF Worker, RegisterLock, RegisterNode, RegisterNext, AddUdp,
                AddEventFd, LoopEntered, Go, env, mainVars, StartInv, TypeOK
  <2> QED BY <2>2 DEF MissingInv, Early, Threads
<1> QED BY <1>1, <1>2, <1>3, <1>4, <1>5, <1>6 DEF Next, Main

LEMMA StepEntered == StartInv /\ EnteredInv /\ [Next]_vars => EnteredInv'
<1> SUFFICES ASSUME StartInv, EnteredInv, [Next]_vars PROVE EnteredInv'
  OBVIOUS
<1>1. CASE Configure \/ ConfigureWithout
  <2>1. thread' = [t \in Threads' |-> "none"]
    BY <1>1 DEF Configure, ConfigureWithout, Configured
  <2> QED BY <2>1 DEF EnteredInv
<1>2. CASE /\ Main \/ UNCHANGED vars
           /\ ~Configure /\ ~ConfigureWithout
  <2>1. /\ UNCHANGED <<config, sl, initialized>>
        /\ \/ thread' = thread
           \/ thread' = [thread EXCEPT ![launched + 1] = "lock"]
    BY <1>2 DEF Main, ReadFile, Crash, xlab_async_init, xlab_trans_udp_init,
                xlab_socket_server, NoEpoll, NoThread, Thread, Epoll,
                xlab_sched_launch_thread, Launched, Barrier, mainVars,
                nodeVars, env, vars
  <2>2. ASSUME NEW t \in Threads, thread'[t] = "loop" PROVE thread[t] = "loop"
    BY <2>1, <2>2 DEF StartInv, TypeOK
  <2> QED BY <2>1, <2>2 DEF EnteredInv, Threads
<1>3. CASE SomeWorker
  <2>1. PICK t \in Threads : Worker(t)
    BY <1>3 DEF SomeWorker
  <2>2. Threads' = Threads
    BY <2>1 DEF Worker, RegisterLock, RegisterNode, RegisterNext, AddUdp,
                AddEventFd, LoopEntered, Go, env, Threads
  <2>3. CASE LoopEntered(t)
    <3>1. /\ sl' = sl /\ initialized' = [initialized EXCEPT ![sl[t]] = TRUE]
          /\ thread' = [thread EXCEPT ![t] = "loop"]
      BY <2>3 DEF LoopEntered, Go
    <3>2. sl \in [Threads -> Nodes] /\ initialized \in [Nodes -> BOOLEAN]
      BY DEF StartInv, TypeOK
    <3>3. \A u \in Threads : u # t => thread'[u] = thread[u]
      BY <3>1 DEF StartInv, TypeOK
    <3> QED BY <2>2, <3>1, <3>2, <3>3 DEF EnteredInv
  <2>4. CASE ~LoopEntered(t)
    <3>1. initialized' = initialized
      BY <2>1, <2>4 DEF Worker, RegisterLock, RegisterNode, RegisterNext,
                        AddUdp, AddEventFd, Watch, nodeVars
    <3>2. \A u \in Threads : thread'[u] = "loop" =>
             u # t /\ thread[u] = "loop"
      BY <2>1, <2>4 DEF Worker, RegisterLock, RegisterNode, RegisterNext,
                        AddUdp, AddEventFd, Go, StartInv, TypeOK
    <3>3. \A u \in Threads : u # t => sl'[u] = sl[u]
      BY <2>1, <2>4 DEF Worker, RegisterLock, RegisterNode, RegisterNext,
                        AddUdp, AddEventFd, Watch, nodeVars, StartInv, TypeOK
    <3> QED BY <2>2, <3>1, <3>2, <3>3 DEF EnteredInv
  <2> QED BY <2>3, <2>4
<1> QED BY <1>1, <1>2, <1>3 DEF Next

LEMMA AlwaysPrepared == Spec => [](StartInv /\ ServeInv /\ MissingInv /\ EnteredInv)
<1>1. Init => MissingInv
  BY DEF Init, MissingInv
<1>2. Init => EnteredInv
  <2> SUFFICES ASSUME Init PROVE Threads = {}
    BY DEF EnteredInv
  <2> QED BY DEF Init, ConfigOf, Threads
<1> QED BY <1>1, <1>2, AlwaysServe, StepMissing, StepEntered, PTL DEF Spec

(***************************************************************************)
(* A gateway that has found no configuration, has no record for a client   *)
(* or has not got one of its threads accepts nobody, although main looks   *)
(* at none of this: it waits at the barrier, whatever else has failed.     *)
(***************************************************************************)
THEOREM NoServiceUnprepared == Spec => []NoneServesUnprepared
<1>1. StartInv /\ ServeInv /\ MissingInv => NoneServesUnprepared
  <2> SUFFICES ASSUME StartInv, ServeInv, MissingInv, main = "serve"
               PROVE  /\ config.worker_capacity > 0
                      /\ failed \cap {"file", "worker"} = {}
    BY DEF NoneServesUnprepared
  <2>1. config.workers \in Nat /\ config.workers > 0
    BY WorkersNat DEF StartInv, TypeOK
  <2>2. ASSUME NEW i \in Nodes
        PROVE  i < wid /\ epoll_fd[i] \in Threads /\ thread[epoll_fd[i]] = "loop"
    BY DEF StartInv, ServeInv, Ready, ReadyInv, RegisterInv, Registered
  <2>3. config.worker_capacity > 0 /\ "file" \notin failed
    <3>1. 0 \in Nodes
      BY <2>1 DEF Nodes
    <3>2. config.worker_capacity > 0
      BY <2>2, <3>1 DEF StartInv, LaunchInv
    <3> QED BY <3>2 DEF MissingInv
  <2>4. "worker" \notin failed
    <3>1. config.workers - 1 \in Nodes
      BY <2>1 DEF Nodes
    <3>2. wid \in Nat /\ wid >= config.workers
      BY <2>1, <2>2, <3>1, WorkersNat DEF StartInv
    <3>3. ASSUME NEW t \in Threads, thread[t] = "none" PROVE FALSE
      <4>1. t \notin Registered
        BY <3>3 DEF Registered
      <4>2. wid < config.workers
        BY <4>1, NodeFree
      <4> QED BY <2>1, <3>2, <4>2
    <3> QED BY <3>3 DEF MissingInv
  <2> QED BY <2>3, <2>4
<1> QED BY <1>1, AlwaysPrepared, PTL

CanGo(t) ==
    \/ thread[t] \in {"node", "next", "udp", "efd", "init"}
    \/ thread[t] = "lock" /\ mutex = 0

HeldUpByWorkers ==
    main = "barrier" =>
        \/ Ready
        \/ \E t \in Threads : thread[t] = "none" \/ CanGo(t)

(***************************************************************************)
(* Start-up does not lock itself up: the barrier holds main up for a       *)
(* worker that is on its way or was never created, and for nothing else.   *)
(* No worker waits for one that does not run, and none enters its loop     *)
(* without being counted (the mutex of xlab_sched_register_thread,         *)
(* initialized in xlab_epoll_init).                                        *)
(***************************************************************************)
THEOREM StartupNotStuck == Spec => []HeldUpByWorkers
<1>1. StartInv /\ EnteredInv => HeldUpByWorkers
  <2> SUFFICES ASSUME StartInv, EnteredInv,
                      \A t \in Threads : thread[t] # "none" /\ ~CanGo(t)
               PROVE  Ready
    BY DEF HeldUpByWorkers
  <2>1. ASSUME NEW t \in Threads PROVE thread[t] = "loop"
    <3>1. thread[t] \in {"lock", "loop"}
      BY DEF CanGo, StartInv, TypeOK
    <3>2. CASE thread[t] = "lock"
      <4>1. mutex \in Threads
        BY <3>2 DEF CanGo, StartInv, TypeOK
      <4>2. thread[mutex] \in {"node", "next"}
        BY <4>1 DEF StartInv, RegisterInv
      <4> QED BY <4>1, <4>2 DEF CanGo
    <3> QED BY <3>1, <3>2
  <2>2. Registered = Threads
    BY <2>1 DEF Registered
  <2>3. config.workers \in Nat /\ wid = config.workers
    BY <2>2, WorkersNat, CountTo DEF StartInv, RegisterInv, Threads
  <2>4. ASSUME NEW i \in Nodes PROVE initialized[i]
    <3>1. i < wid
      BY <2>3 DEF Nodes
    <3>2. epoll_fd[i] \in Threads /\ sl[epoll_fd[i]] = i
      BY <2>2, <3>1 DEF StartInv, RegisterInv
    <3> QED BY <2>1, <3>2 DEF EnteredInv
  <2> QED BY <2>4 DEF Ready
<1> QED BY <1>1, AlwaysPrepared, PTL

-----------------------------------------------------------------------------
(* What a file means.                                                      *)

LEMMA Wraps ==
    ASSUME NEW m \in Nat \ {0}, NEW n \in 0 .. 2 * m - 1
    PROVE  /\ n < m => ((n + m) % (2 * m)) - m = n
           /\ n >= m => ((n + m) % (2 * m)) - m = n - 2 * m
OBVIOUS

(* A number of workers of 16 bits is taken for itself, or it is no short.  *)
LEMMA WorkersTaken ==
    ASSUME NEW n \in 0 .. 2 * ShortSpan - 1
    PROVE  WorkersOf(n) = IF n \in Shorts THEN n ELSE XLAB_WORKERS_DEFAULT
<1>1. ShortSpan \in Nat \ {0}
  BY DEF ShortSpan
<1>2. CASE n < ShortSpan
  <2>1. ToShort(n) = n
    BY <1>1, <1>2, Wraps DEF ToShort
  <2> QED BY <2>1 DEF WorkersOf
<1>3. CASE n >= ShortSpan
  <2>1. ToShort(n) = n - 2 * ShortSpan
    BY <1>1, <1>3, Wraps DEF ToShort
  <2> QED BY <1>1, <1>3, <2>1 DEF WorkersOf, Shorts
<1> QED BY SMTT(30), <1>1, <1>2, <1>3

-----------------------------------------------------------------------------
(* The first of a set that grows at its end.                               *)
HasFirst(S) == S # {} => \E i \in S : \A j \in S : i <= j

LEMMA FirstIn ==
    ASSUME NEW S \in SUBSET Nat, HasFirst(S), S # {}
    PROVE  First(S) \in S /\ \A j \in S : First(S) <= j
BY DEF HasFirst, First

LEMMA FirstIs ==
    ASSUME NEW S \in SUBSET Nat, NEW i \in S, \A j \in S : i <= j
    PROVE  HasFirst(S) /\ First(S) = i
<1>1. HasFirst(S)
  BY DEF HasFirst
<1>2. First(S) \in S /\ First(S) <= i
  BY <1>1, FirstIn
<1>3. i <= First(S) /\ i \in Nat /\ First(S) \in Nat
  BY <1>2
<1> QED BY <1>1, <1>2, <1>3

LEMMA FirstGrows ==
    ASSUME NEW S \in SUBSET Nat, HasFirst(S),
           NEW n \in Nat, \A i \in S : i < n
    PROVE  /\ HasFirst(S \cup {n})
           /\ S # {} => First(S \cup {n}) = First(S)
           /\ S = {} => First(S \cup {n}) = n
<1> DEFINE T == S \cup {n}
<1>1. CASE S = {}
  <2>1. n \in T /\ \A j \in T : n <= j
    BY <1>1
  <2> QED BY <1>1, <2>1, FirstIs
<1>2. CASE S # {}
  <2>1. First(S) \in S /\ \A j \in S : First(S) <= j
    BY <1>2, FirstIn
  <2>2. First(S) \in T /\ \A j \in T : First(S) <= j
    <3>1. First(S) \in Nat /\ First(S) < n
      BY <2>1
    <3> QED BY <2>1, <3>1
  <2> QED BY <1>2, <2>2, FirstIs
<1> QED BY <1>1, <1>2

-----------------------------------------------------------------------------
(* A file with one more line.                                              *)
LEMMA Appended ==
    ASSUME NEW f \in Seq(Line), NEW l \in Line
    PROVE  /\ Append(f, l) \in Seq(Line)
           /\ Len(f) \in Nat /\ Len(Append(f, l)) = Len(f) + 1
           /\ \A i \in 1 .. Len(f) : Append(f, l)[i] = f[i] /\ f[i] \in Line
           /\ Append(f, l)[Len(f) + 1] = l
BY AppendProperties, LenProperties, ElementOfSeq

LEMMA Kinds ==
    ASSUME NEW l \in Line
    PROVE  /\ l.kind \in {"blank", "section", "entry", "bare", "note"}
           /\ IsEntry(l) => l.ind \in Nat
           /\ l.kind = "entry" => l.key \in STRING \ {"NULL"} /\ l.val \in Int
           /\ l.kind = "section" => l.name \in STRING
BY DEF Line, Blank, IsEntry

LEMMA HeadersGrow ==
    ASSUME NEW f \in Seq(Line), NEW l \in Line
    PROVE  /\ Headers(f) \subseteq 1 .. Len(f)
           /\ Headers(Append(f, l)) = Headers(f) \cup
                IF l.kind = "section" THEN {Len(f) + 1} ELSE {}
           /\ Servers(f) \subseteq Headers(f)
           /\ Servers(Append(f, l)) = Servers(f) \cup
                IF l.kind = "section" /\ l.name = "SERVER"
                  THEN {Len(f) + 1} ELSE {}
<1> DEFINE n == Len(f) + 1
<1>1. /\ Len(f) \in Nat /\ Len(Append(f, l)) = n
      /\ \A i \in 1 .. Len(f) : Append(f, l)[i] = f[i]
      /\ Append(f, l)[n] = l
  BY Appended
<1>2. 1 .. n = (1 .. Len(f)) \cup {n}
  BY <1>1
<1>3. Headers(Append(f, l)) = Headers(f) \cup
                IF l.kind = "section" THEN {n} ELSE {}
  BY <1>1, <1>2 DEF Headers
<1>4. \A h \in Headers(f) : h \in 1 .. Len(f) /\ Append(f, l)[h] = f[h]
  BY <1>1 DEF Headers
<1>5. Servers(Append(f, l)) = Servers(f) \cup
                IF l.kind = "section" /\ l.name = "SERVER" THEN {n} ELSE {}
  BY <1>1, <1>3, <1>4 DEF Servers
<1> QED BY <1>3, <1>4, <1>5 DEF Servers

LEMMA RegularBefore ==
    ASSUME NEW f \in Seq(Line), NEW l \in Line, Regular(Append(f, l))
    PROVE  Regular(f)
<1> DEFINE n == Len(f) + 1
           g == Append(f, l)
<1>1. /\ Len(f) \in Nat /\ Len(g) = n
      /\ \A i \in 1 .. Len(f) : g[i] = f[i] /\ i \in 1 .. n
  BY Appended
<1>2. ASSUME NEW i \in 1 .. Len(f), IsEntry(f[i])
      PROVE  /\ f[i].ind > 0
             /\ \E h \in Headers(f) : h < i
             /\ \A j \in 1 .. Len(f) : IsEntry(f[j]) => f[j].ind = f[i].ind
  <2>1. PICK h \in Headers(g) : h < i
    BY <1>1, <1>2 DEF Regular
  <2>2. h \in Headers(f)
    BY <1>1, <2>1 DEF Headers
  <2> QED BY <1>1, <1>2, <2>1, <2>2 DEF Regular
<1>3. ASSUME NEW i \in 1 .. Len(f)
      PROVE  /\ f[i].kind # "bare"
             /\ f[i].kind = "entry" => f[i].val \in 0 .. 2 * ShortSpan - 1
  BY <1>1 DEF Regular
<1> QED BY <1>2, <1>3 DEF Regular

(* What the last line adds to what is given for the server. *)
LastIsServer(f) == \A h \in Headers(f) : h <= First(Servers(f))

LEMMA GivenGrows ==
    ASSUME NEW f \in Seq(Line), NEW l \in Line, NEW key,
           HasFirst(Servers(f)), Servers(f) # {}
    PROVE  /\ First(Servers(Append(f, l))) = First(Servers(f))
           /\ HasFirst(Servers(Append(f, l)))
           /\ Given(f, key) \subseteq 1 .. Len(f)
           /\ Given(Append(f, l), key) = Given(f, key) \cup
                IF l.kind = "entry" /\ l.key = key /\ LastIsServer(f)
                  THEN {Len(f) + 1} ELSE {}
<1> DEFINE n == Len(f) + 1
           g == Append(f, l)
           s == First(Servers(f))
<1>1. /\ Len(f) \in Nat /\ Len(g) = n
      /\ \A i \in 1 .. Len(f) : g[i] = f[i]
      /\ g[n] = l
  BY Appended
<1>2. /\ Headers(f) \subseteq 1 .. Len(f)
      /\ Headers(g) = Headers(f) \cup IF l.kind = "section" THEN {n} ELSE {}
      /\ Servers(f) \subseteq 1 .. Len(f)
      /\ Servers(g) \in {Servers(f), Servers(f) \cup {n}}
  BY HeadersGrow
<1>3. s \in 1 .. Len(f)
  BY <1>1, <1>2, FirstIn
<1>4. First(Servers(g)) = s /\ HasFirst(Servers(g))
  BY <1>1, <1>2, FirstGrows
<1> HIDE DEF s, g
<1>5. ASSUME NEW i \in 1 .. Len(f)
      PROVE  i \in Given(g, key) <=> i \in Given(f, key)
  <2>1. (\A h \in Headers(g) : h > s => i < h)
          <=> (\A h \in Headers(f) : h > s => i < h)
    BY <1>1, <1>2
  <2> QED BY <1>1, <1>3, <1>4, <2>1 DEF Given, s
<1>6. n \in Given(g, key) <=>
        l.kind = "entry" /\ l.key = key /\ LastIsServer(f)
  <2>1. n \in Given(g, key) <=>
          /\ l.kind = "entry" /\ l.key = key
          /\ \A h \in Headers(g) : h > s => n < h
    BY <1>1, <1>3, <1>4 DEF Given
  <2>2. l.kind = "entry" =>
          ((\A h \in Headers(g) : h > s => n < h) <=> LastIsServer(f))
    BY <1>1, <1>2, <1>3 DEF LastIsServer, s
  <2> QED BY <2>1, <2>2
<1>7. Given(f, key) \subseteq 1 .. Len(f) /\ Given(g, key) \subseteq 1 .. n
  BY <1>1, <1>3, <1>4 DEF Given, s
<1>8. 1 .. n = (1 .. Len(f)) \cup {n} /\ n \notin 1 .. Len(f)
  BY <1>1
<1> QED BY <1>4, <1>5, <1>6, <1>7, <1>8 DEF s, g

-----------------------------------------------------------------------------
(* What the parser knows after the lines of a regular file.                *)

EntryRec == [key : STRING \ {"NULL"}, val : Int]
SectionRec == [name : STRING, entries : Seq(EntryRec)]

Shape(c) == c \in [sections : Seq(SectionRec), indent : Nat, intact : {TRUE}]

Indented(f, c) ==
    /\ c.indent = 0 \/ \E i \in 1 .. Len(f) : IsEntry(f[i])
    /\ \A i \in 1 .. Len(f) : IsEntry(f[i]) => f[i].ind = c.indent

Headed(f, c) == c.sections = <<>> <=> Headers(f) = {}

(* The first section of the server is the first header of the server, and  *)
(* entries still go there as long as it is the last.                       *)
Placed(f, c) ==
    LET named == Named(c, "SERVER") IN
    /\ HasFirst(Servers(f)) /\ HasFirst(named)
    /\ named = {} <=> Servers(f) = {}
    /\ named # {} => (First(named) = Len(c.sections) <=> LastIsServer(f))

Keys == {"Listen", "Port", "Workers", "MaxRequestSize"}

(* What is found for a key is what the first line given for it says.       *)
SameFirst(entries, f, key) ==
    LET S == Stops(entries, key)
        G == Given(f, key)
    IN /\ HasFirst(S) /\ HasFirst(G)
       /\ S = {} <=> G = {}
       /\ S # {} => entries[First(S)].val = f[First(G)].val

Agrees(f, c) ==
    Servers(f) # {} =>
        \A key \in Keys :
            SameFirst(xlab_config_section_get(c, "SERVER"), f, key)

Parsed(f, c) ==
    /\ Shape(c) /\ Indented(f, c) /\ Headed(f, c)
    /\ Placed(f, c) /\ Agrees(f, c)

LEMMA NothingParsed == Parsed(<<>>, NoLines)
<1>1. Headers(<<>>) = {} /\ Servers(<<>>) = {}
  BY EmptySeq DEF Headers, Servers
<1>2. Named(NoLines, "SERVER") = {}
  BY EmptySeq DEF Named, NoLines
<1>3. Shape(NoLines)
  BY EmptySeq DEF Shape, NoLines
<1>4. Indented(<<>>, NoLines)
  BY EmptySeq DEF Indented, NoLines
<1> QED BY <1>1, <1>2, <1>3, <1>4 DEF Parsed, Headed, Placed, Agrees, HasFirst, NoLines

(* The sections' sequence and its entries. *)
LEMMA SectionTypes ==
    ASSUME NEW c, Shape(c)
    PROVE  /\ c.sections \in Seq(SectionRec) /\ Len(c.sections) \in Nat
           /\ c.indent \in Nat /\ c.intact = TRUE
           /\ Named(c, "SERVER") \in SUBSET (1 .. Len(c.sections))
           /\ Named(c, "SERVER") \in SUBSET Nat
           /\ \A i \in 1 .. Len(c.sections) :
                 /\ c.sections[i] \in SectionRec
                 /\ c.sections[i].name \in STRING
                 /\ c.sections[i].entries \in Seq(EntryRec)
<1>1. c.sections \in Seq(SectionRec) /\ c.indent \in Nat /\ c.intact = TRUE
  BY DEF Shape
<1>2. /\ Len(c.sections) \in Nat
      /\ \A i \in 1 .. Len(c.sections) : c.sections[i] \in SectionRec
  BY <1>1, LenProperties, ElementOfSeq
<1>3. Named(c, "SERVER") \in SUBSET (1 .. Len(c.sections))
  BY DEF Named
<1> QED BY <1>1, <1>2, <1>3 DEF SectionRec

LEMMA ServersNat ==
    ASSUME NEW f \in Seq(Line)
    PROVE  Servers(f) \in SUBSET Nat /\ Headers(f) \in SUBSET Nat
BY HeadersGrow, LenProperties DEF Servers, Headers

(* Lines that change no section: blank ones and comments. *)
LEMMA ParsedIdle ==
    ASSUME NEW f \in Seq(Line), NEW l \in Line, NEW c, Parsed(f, c),
           l.kind \notin {"section", "entry"},
           NEW d, d \in [sections : {c.sections}, indent : Nat, intact : {TRUE}],
           Indented(Append(f, l), d)
    PROVE  Parsed(Append(f, l), d)
<1> DEFINE g == Append(f, l)
<1>1. Headers(g) = Headers(f) /\ Servers(g) = Servers(f)
  BY HeadersGrow
<1>2. d.sections = c.sections /\ Shape(d)
  BY DEF Shape, Parsed
<1>3. /\ Named(d, "SERVER") = Named(c, "SERVER")
      /\ xlab_config_section_get(d, "SERVER") =
           xlab_config_section_get(c, "SERVER")
  BY <1>2 DEF Named, xlab_config_section_get
<1>4. Headed(g, d) /\ Placed(g, d)
  BY <1>1, <1>2, <1>3 DEF Parsed, Headed, Placed, LastIsServer
<1>5. Agrees(g, d)
  <2> SUFFICES ASSUME Servers(f) # {}, NEW key \in Keys
               PROVE  SameFirst(xlab_config_section_get(c, "SERVER"), g, key)
    BY <1>1, <1>3 DEF Agrees
  <2>1. SameFirst(xlab_config_section_get(c, "SERVER"), f, key)
    BY DEF Parsed, Agrees
  <2>2. Given(g, key) = Given(f, key) /\ Given(f, key) \subseteq 1 .. Len(f)
    BY ZenonT(60), GivenGrows DEF Parsed, Placed
  <2>3. Given(f, key) # {} => g[First(Given(f, key))] = f[First(Given(f, key))]
    <3>1. Given(f, key) \in SUBSET Nat
      BY <2>2, Appended
    <3>2. Given(f, key) # {} => First(Given(f, key)) \in 1 .. Len(f)
      BY <2>1, <2>2, <3>1, FirstIn DEF SameFirst
    <3> QED BY <3>2, Appended
  <2> QED BY <2>1, <2>2, <2>3 DEF SameFirst
<1> QED BY <1>2, <1>4, <1>5 DEF Parsed

(* The first line given for a key is the same line with one line more.     *)
LEMMA GivenBefore ==
    ASSUME NEW f \in Seq(Line), NEW l \in Line, NEW key,
           HasFirst(Servers(f)), Servers(f) # {},
           HasFirst(Given(f, key)), Given(f, key) # {}
    PROVE  /\ First(Given(f, key)) \in 1 .. Len(f)
           /\ Append(f, l)[First(Given(f, key))] = f[First(Given(f, key))]
<1>1. Given(f, key) \subseteq 1 .. Len(f)
  BY GivenGrows
<1>2. Given(f, key) \in SUBSET Nat
  BY <1>1, Appended
<1>3. First(Given(f, key)) \in 1 .. Len(f)
  BY <1>1, <1>2, FirstIn
<1> QED BY <1>3, Appended

(* A header. *)
LEMMA ParsedSection ==
    ASSUME NEW f \in Seq(Line), NEW l \in Line, NEW c, Parsed(f, c),
           l.kind = "section", Indented(Append(f, l), c)
    PROVE  Parsed(Append(f, l), xlab_config_section_add(c, l.name))
<1> DEFINE g == Append(f, l)
           d == xlab_config_section_add(c, l.name)
           r == [name |-> l.name, entries |-> <<>>]
           n == Len(f) + 1
           m == Len(c.sections) + 1
<1>1. /\ c.sections \in Seq(SectionRec) /\ Len(c.sections) \in Nat
      /\ c.indent \in Nat /\ c.intact = TRUE
      /\ Named(c, "SERVER") \in SUBSET (1 .. Len(c.sections))
      /\ Named(c, "SERVER") \in SUBSET Nat
  BY SectionTypes DEF Parsed
<1>2. r \in SectionRec
  BY Kinds, EmptySeq DEF SectionRec
<1>3. /\ d.sections = Append(c.sections, r)
      /\ d.indent = c.indent /\ d.intact = c.intact
      /\ Shape(d)
  BY <1>1, <1>2, AppendProperties
     DEF Shape, Parsed, xlab_config_section_add
<1> HIDE DEF d
<1>4. /\ d.sections # <<>> /\ Len(d.sections) = m
      /\ \A i \in 1 .. Len(c.sections) : d.sections[i] = c.sections[i]
      /\ d.sections[m] = r
  BY <1>1, <1>2, <1>3, AppendProperties
<1>5. /\ Headers(f) \subseteq 1 .. Len(f) /\ Servers(f) \subseteq Headers(f)
      /\ Headers(g) = Headers(f) \cup {n}
      /\ Servers(g) = Servers(f) \cup IF l.name = "SERVER" THEN {n} ELSE {}
      /\ Servers(f) \in SUBSET Nat /\ Len(f) \in Nat
  BY HeadersGrow, ServersNat, Appended
<1>6. Named(d, "SERVER") =
        Named(c, "SERVER") \cup IF l.name = "SERVER" THEN {m} ELSE {}
  <2>1. 1 .. m = (1 .. Len(c.sections)) \cup {m}
    BY <1>1
  <2> QED BY SMTT(30), <1>1, <1>4, <2>1 DEF Named
<1>7. Headed(g, d) /\ Indented(g, d)
  BY <1>3, <1>4, <1>5 DEF Headed, Indented
<1>8. CASE Servers(f) # {}
  <2>1. /\ HasFirst(Servers(f)) /\ HasFirst(Named(c, "SERVER"))
        /\ Named(c, "SERVER") # {}
    BY <1>8 DEF Parsed, Placed
  <2>2. /\ HasFirst(Servers(g)) /\ First(Servers(g)) = First(Servers(f))
        /\ Servers(g) # {}
    BY <1>8, <2>1, <1>5, GivenGrows
  <2>3. /\ HasFirst(Named(d, "SERVER")) /\ Named(d, "SERVER") # {}
        /\ First(Named(d, "SERVER")) = First(Named(c, "SERVER"))
    <3>1. m \in Nat /\ \A i \in Named(c, "SERVER") : i < m
      BY <1>1
    <3> QED BY <1>1, <1>6, <2>1, <3>1, FirstGrows
  <2>4. /\ First(Named(c, "SERVER")) \in 1 .. Len(c.sections)
        /\ First(Servers(f)) \in 1 .. Len(f)
    BY <1>1, <1>5, <1>8, <2>1, FirstIn
  <2>5. ~LastIsServer(g) /\ First(Named(d, "SERVER")) # Len(d.sections)
    <3>1. First(Named(d, "SERVER")) # Len(d.sections)
      BY <1>1, <1>4, <2>3, <2>4
    <3>2. n \in Headers(g) /\ ~(n <= First(Servers(g)))
      BY <1>5, <2>2, <2>4
    <3> QED BY <3>1, <3>2 DEF LastIsServer
  <2>6. Placed(g, d)
    BY <2>2, <2>3, <2>5 DEF Placed
  <2>7. xlab_config_section_get(d, "SERVER") =
          xlab_config_section_get(c, "SERVER")
    BY <1>4, <2>3, <2>4 DEF xlab_config_section_get
  <2>8. Agrees(g, d)
    <3> SUFFICES ASSUME NEW key \in Keys
                 PROVE  SameFirst(xlab_config_section_get(c, "SERVER"), g, key)
      BY <2>7 DEF Agrees
    <3>1. SameFirst(xlab_config_section_get(c, "SERVER"), f, key)
      BY <1>8 DEF Parsed, Agrees
    <3>2. Given(g, key) = Given(f, key)
      BY ZenonT(60), <1>8, <2>1, GivenGrows
    <3>3. Given(f, key) # {} =>
            g[First(Given(f, key))] = f[First(Given(f, key))]
      BY <1>8, <2>1, <3>1, GivenBefore DEF SameFirst
    <3> QED BY <3>1, <3>2, <3>3 DEF SameFirst
  <2> QED BY <1>3, <1>7, <2>6, <2>8 DEF Parsed, d
<1>9. CASE Servers(f) = {} /\ l.name = "SERVER"
  <2>1. Servers(g) = {n} /\ Named(d, "SERVER") = {m}
    BY <1>5, <1>6, <1>9 DEF Parsed, Placed
  <2>2. /\ HasFirst(Servers(g)) /\ First(Servers(g)) = n
        /\ HasFirst(Named(d, "SERVER")) /\ First(Named(d, "SERVER")) = m
    <3>1. /\ n \in Nat /\ m \in Nat
          /\ \A j \in {n} : n <= j
          /\ \A j \in {m} : m <= j
      BY <1>1, <1>5
    <3>2. {n} \in SUBSET Nat /\ {m} \in SUBSET Nat /\ n \in {n} /\ m \in {m}
      BY <3>1
    <3> HIDE DEF n, m
    <3> QED BY <2>1, <3>1, <3>2, FirstIs
  <2>3. LastIsServer(g)
    BY <1>5, <2>2 DEF LastIsServer
  <2>4. Placed(g, d)
    BY <1>4, <2>1, <2>2, <2>3 DEF Placed
  <2>5. xlab_config_section_get(d, "SERVER") = <<>>
    BY <1>4, <2>2 DEF xlab_config_section_get
  <2>6. ASSUME NEW key \in Keys
        PROVE  Stops(<<>>, key) = {} /\ Given(g, key) = {}
    <3>1. Len(g) = n /\ n + 1 .. n = {}
      BY <1>5, Appended
    <3>2. Given(g, key) = {}
      BY <2>2, <3>1 DEF Given
    <3> QED BY <3>2, EmptySeq DEF Stops
  <2>7. Agrees(g, d)
    BY <2>5, <2>6 DEF Agrees, SameFirst, HasFirst
  <2> QED BY <1>3, <1>7, <2>4, <2>7 DEF Parsed, d
<1>10. CASE Servers(f) = {} /\ l.name # "SERVER"
  <2>1. Servers(g) = {} /\ Named(d, "SERVER") = {}
    BY <1>5, <1>6, <1>10 DEF Parsed, Placed
  <2>2. Placed(g, d) /\ Agrees(g, d)
    BY <2>1 DEF Placed, Agrees, HasFirst
  <2> QED BY <1>3, <1>7, <2>2 DEF Parsed, d
<1> QED BY <1>8, <1>9, <1>10 DEF d

(* What is looked for behind one entry more. *)
LEMMA StopsGrow ==
    ASSUME NEW es \in Seq(EntryRec), NEW r \in EntryRec, NEW key
    PROVE  /\ Stops(es, key) \in SUBSET (1 .. Len(es))
           /\ Stops(Append(es, r), key) =
                Stops(es, key) \cup IF r.key = key THEN {Len(es) + 1} ELSE {}
<1> DEFINE n == Len(es) + 1
           ds == Append(es, r)
<1>1. /\ Len(es) \in Nat /\ Len(ds) = n
      /\ \A i \in 1 .. Len(es) : ds[i] = es[i]
      /\ ds[n] = r
  BY LenProperties, AppendProperties
<1>2. 1 .. n = (1 .. Len(es)) \cup {n} /\ r.key # "NULL"
  BY <1>1 DEF EntryRec
<1> QED BY <1>1, <1>2 DEF Stops

(* An entry. *)
LEMMA ParsedEntry ==
    ASSUME NEW f \in Seq(Line), NEW l \in Line, NEW c, Parsed(f, c),
           l.kind = "entry", Headers(f) # {},
           Shape([c EXCEPT !.indent = l.ind]),
           Indented(Append(f, l), [c EXCEPT !.indent = l.ind])
    PROVE  Parsed(Append(f, l),
                  xlab_config_entry_add([c EXCEPT !.indent = l.ind],
                                        l.key, l.val))
<1> DEFINE g == Append(f, l)
           k == [c EXCEPT !.indent = l.ind]
           d == xlab_config_entry_add(k, l.key, l.val)
           r == [key |-> l.key, val |-> l.val]
           m == Len(c.sections)
           es == c.sections[m].entries
           last == [c.sections[m] EXCEPT !.entries = Append(es, r)]
<1>1. /\ c.sections \in Seq(SectionRec) /\ m \in Nat
      /\ Named(c, "SERVER") \in SUBSET (1 .. m)
      /\ Named(c, "SERVER") \in SUBSET Nat
      /\ \A i \in 1 .. m :
            /\ c.sections[i] \in SectionRec
            /\ c.sections[i].entries \in Seq(EntryRec)
  BY SectionTypes DEF Parsed
<1>2. c.sections # <<>> /\ m \in 1 .. m
  <2>1. c.sections # <<>>
    BY DEF Parsed, Headed
  <2> QED BY <1>1, <2>1, EmptySeq
<1>3. r \in EntryRec
  BY Kinds DEF EntryRec
<1>4. es \in Seq(EntryRec) /\ Append(es, r) \in Seq(EntryRec)
  BY <1>1, <1>2, <1>3, AppendProperties
<1>5. /\ last \in SectionRec /\ last.name = c.sections[m].name
      /\ last.entries = Append(es, r)
  BY <1>1, <1>2, <1>4 DEF SectionRec
<1>6. k.sections = c.sections /\ Shape(k)
  BY DEF Shape, Parsed
<1>7. /\ d.sections = [c.sections EXCEPT ![m] = last]
      /\ d.indent = k.indent /\ d.intact = k.intact /\ Shape(d)
  <2>1. d = [k EXCEPT !.sections = [c.sections EXCEPT ![m] = last]]
    BY <1>2, <1>6 DEF xlab_config_entry_add
  <2>2. [c.sections EXCEPT ![m] = last] \in Seq(SectionRec)
    BY <1>1, <1>2, <1>5, ExceptSeq
  <2> HIDE DEF last, d
  <2> QED BY <1>6, <2>1, <2>2 DEF Shape
<1> HIDE DEF d, last
<1>8. /\ Len(d.sections) = m
      /\ \A i \in 1 .. m : d.sections[i] = IF i = m THEN last ELSE c.sections[i]
  BY <1>1, <1>2, <1>5, <1>7, ExceptSeq
<1>9. d.sections # <<>>
  BY <1>2, <1>8, EmptySeq
<1>10. Headers(g) = Headers(f) /\ Servers(g) = Servers(f)
  BY HeadersGrow
<1>11. Named(d, "SERVER") = Named(c, "SERVER")
  BY <1>1, <1>2, <1>5, <1>8 DEF Named
<1>12. Headed(g, d) /\ Indented(g, d)
  BY <1>7, <1>9, <1>10 DEF Headed, Indented
<1>13. Placed(g, d)
  BY <1>8, <1>10, <1>11 DEF Parsed, Placed, LastIsServer
<1>14. Agrees(g, d)
  <2> SUFFICES ASSUME Servers(f) # {}, NEW key \in Keys
               PROVE  SameFirst(xlab_config_section_get(d, "SERVER"), g, key)
    BY <1>10 DEF Agrees
  <2> DEFINE s == First(Named(c, "SERVER"))
             olds == xlab_config_section_get(c, "SERVER")
             G == Given(f, key)
             n == Len(f) + 1
  <2>1. /\ HasFirst(Servers(f)) /\ HasFirst(Named(c, "SERVER"))
        /\ Named(c, "SERVER") # {}
        /\ s = m <=> LastIsServer(f)
        /\ SameFirst(olds, f, key)
    BY DEF Parsed, Placed, Agrees
  <2>2. s \in 1 .. m
    BY <1>1, <2>1, FirstIn
  <2>3. olds = c.sections[s].entries /\ olds \in Seq(EntryRec)
    BY <1>1, <2>2 DEF xlab_config_section_get
  <2>4. /\ Given(g, key) = G \cup
              IF l.key = key /\ LastIsServer(f) THEN {n} ELSE {}
        /\ G \subseteq 1 .. Len(f)
    BY <2>1, GivenGrows
  <2>5. G # {} => /\ First(G) \in 1 .. Len(f)
                  /\ g[First(G)] = f[First(G)]
    BY <2>1, GivenBefore DEF SameFirst
  <2>6. xlab_config_section_get(d, "SERVER") =
          IF s = m THEN Append(es, r) ELSE olds
    BY <1>5, <1>8, <1>11, <2>2, <2>3 DEF xlab_config_section_get
  <2>7. CASE s = m /\ l.key = key
    <3> DEFINE S == Stops(es, key)
               T == Stops(Append(es, r), key)
               e == Len(es) + 1
    <3>1. olds = es
      BY <2>3, <2>7
    <3>2. S \in SUBSET (1 .. Len(es)) /\ T = S \cup {e}
      BY <1>3, <1>4, <2>7, StopsGrow
    <3>3. /\ HasFirst(S) /\ HasFirst(G) /\ (S = {} <=> G = {})
          /\ S # {} => es[First(S)].val = f[First(G)].val
      BY <2>1, <3>1 DEF SameFirst
    <3>4. Given(g, key) = G \cup {n}
      BY <2>1, <2>4, <2>7
    <3>5. /\ Len(es) \in Nat /\ Len(f) \in Nat
          /\ \A i \in 1 .. Len(es) : Append(es, r)[i] = es[i]
          /\ Append(es, r)[e] = r /\ g[n] = l
      BY SMTT(30), <1>3, <1>4, LenProperties, AppendProperties, Appended
    <3>6. /\ S \in SUBSET Nat /\ G \in SUBSET Nat /\ e \in Nat /\ n \in Nat
          /\ \A i \in S : i < e
          /\ \A i \in G : i < n
      BY <2>4, <3>2, <3>5
    <3> HIDE DEF S, T, G, e, n, es, g
    <3>7. /\ HasFirst(T) /\ (S # {} => First(T) = First(S))
          /\ (S = {} => First(T) = e)
      BY <3>2, <3>3, <3>6, FirstGrows
    <3>8. /\ HasFirst(Given(g, key))
          /\ (G # {} => First(Given(g, key)) = First(G))
          /\ (G = {} => First(Given(g, key)) = n)
      BY <3>3, <3>4, <3>6, FirstGrows
    <3>9. Append(es, r)[First(T)].val = g[First(Given(g, key))].val
      <4>1. CASE S = {}
        <5>1. First(T) = e /\ First(Given(g, key)) = n
          BY <3>3, <3>7, <3>8, <4>1
        <5>2. Append(es, r)[First(T)] = r /\ g[First(Given(g, key))] = l
          BY <3>5, <5>1
        <5>3. r.val = l.val
          OBVIOUS
        <5> HIDE DEF r
        <5> QED BY <5>2, <5>3
      <4>2. CASE S # {}
        <5>1. First(S) \in 1 .. Len(es)
          BY <3>2, <3>3, <3>6, <4>2, FirstIn
        <5> QED BY <2>5, <3>3, <3>5, <3>7, <3>8, <4>2, <5>1
      <4> QED BY <4>1, <4>2
    <3>10. T # {} /\ Given(g, key) # {}
      BY <3>2, <3>4
    <3>11. SameFirst(Append(es, r), g, key)
      BY <3>7, <3>8, <3>9, <3>10 DEF SameFirst, T
    <3> QED BY <2>6, <2>7, <3>11
  <2>8. CASE s # m \/ l.key # key
    <3> DEFINE new == xlab_config_section_get(d, "SERVER")
    <3>1. Given(g, key) = G
      BY <2>1, <2>4, <2>8
    <3>2. /\ Stops(new, key) = Stops(olds, key)
          /\ \A i \in Stops(olds, key) : new[i] = olds[i]
      <4>1. CASE s # m
        BY <2>6, <4>1
      <4>2. CASE s = m /\ l.key # key
        <5>1. olds = es /\ new = Append(es, r)
          BY <2>3, <2>6, <4>2
        <5>2. /\ Stops(new, key) = Stops(olds, key)
              /\ Stops(olds, key) \in SUBSET (1 .. Len(es))
          <6>1. /\ Stops(es, key) \in SUBSET (1 .. Len(es))
                /\ Stops(Append(es, r), key) =
                     Stops(es, key) \cup
                       IF r.key = key THEN {Len(es) + 1} ELSE {}
            BY ZenonT(60), <1>3, <1>4, StopsGrow
          <6>2. r.key # key
            BY <4>2
          <6> HIDE DEF es, r, new, olds
          <6> QED BY <5>1, <6>1, <6>2
        <5> QED BY <1>3, <1>4, <5>1, <5>2, AppendProperties
      <4> QED BY <2>8, <4>1, <4>2
    <3>3. Stops(olds, key) # {} => First(Stops(olds, key)) \in Stops(olds, key)
      <4>1. Stops(olds, key) \in SUBSET Nat
        BY <2>3, LenProperties DEF Stops
      <4> QED BY <2>1, <4>1, FirstIn DEF SameFirst
    <3> QED BY <2>1, <2>5, <3>1, <3>2, <3>3 DEF SameFirst
  <2> QED BY <2>7, <2>8
<1> QED BY <1>7, <1>12, <1>13, <1>14 DEF Parsed, d

(* The indentation of a regular file is that of its entries. *)
LEMMA IndentKnown ==
    ASSUME NEW f \in Seq(Line), NEW l \in Line, NEW c, Parsed(f, c),
           Regular(Append(f, l))
    PROVE  /\ IsEntry(l) => /\ l.ind \in Nat /\ Headers(f) # {}
                            /\ Indent(c, l) = l.ind
                            /\ Indented(Append(f, l), [c EXCEPT !.indent = l.ind])
           /\ ~IsEntry(l) => Indented(Append(f, l), c)
<1> DEFINE g == Append(f, l)
           n == Len(f) + 1
           k == [c EXCEPT !.indent = l.ind]
<1>1. /\ Len(f) \in Nat /\ Len(g) = n
      /\ \A i \in 1 .. Len(f) : g[i] = f[i] /\ i \in 1 .. n
      /\ g[n] = l /\ n \in 1 .. n
      /\ \A i \in 1 .. n : i \in 1 .. Len(f) \/ i = n
  BY Appended
<1>2. Indented(f, c) /\ c.indent \in Nat /\ Shape(c)
  BY DEF Parsed, Shape
<1>3. CASE IsEntry(l)
  <2>1. /\ l.ind > 0 /\ l.ind \in Nat
        /\ \E h \in Headers(g) : h < n
        /\ \A j \in 1 .. n : IsEntry(g[j]) => g[j].ind = l.ind
    BY <1>1, <1>3, Kinds DEF Regular
  <2>2. Headers(f) # {}
    BY <1>1, <2>1 DEF Headers
  <2>3. c.indent \in {0, l.ind}
    BY <1>1, <1>2, <2>1 DEF Indented
  <2>4. Indent(c, l) = l.ind
    BY <2>1, <2>3 DEF Indent
  <2>5. k.indent = l.ind
    BY <1>2 DEF Shape
  <2>6. Indented(g, k)
    BY <1>1, <1>3, <2>1, <2>5 DEF Indented
  <2> QED BY <1>3, <2>1, <2>2, <2>4, <2>6
<1>4. CASE ~IsEntry(l)
  <2>1. Indented(g, c)
    BY <1>1, <1>2, <1>4 DEF Indented
  <2> QED BY <1>4, <2>1
<1> QED BY <1>3, <1>4

(* One round of the parser's loop. *)
LEMMA ParsedLine ==
    ASSUME NEW f \in Seq(Line), NEW l \in Line, NEW c, Parsed(f, c),
           Regular(Append(f, l))
    PROVE  Parsed(Append(f, l), ReadLine(c, l))
<1> DEFINE g == Append(f, l)
           k == [c EXCEPT !.indent = l.ind]
<1>1. l.kind \in {"blank", "section", "entry", "note"}
  <2>1. /\ Len(f) + 1 \in 1 .. Len(g)
        /\ g[Len(f) + 1] = l
    BY Appended
  <2> QED BY <2>1, Kinds DEF Regular
<1>2. /\ IsEntry(l) => /\ l.ind \in Nat /\ Headers(f) # {}
                       /\ Indent(c, l) = l.ind
                       /\ Indented(g, k)
      /\ ~IsEntry(l) => Indented(g, c)
  BY IndentKnown
<1>3. /\ c \in [sections : {c.sections}, indent : Nat, intact : {TRUE}]
      /\ c.sections \in Seq(SectionRec)
  BY DEF Parsed, Shape
<1>4. CASE l.kind = "blank"
  <2>1. ReadLine(c, l) = c
    BY <1>4 DEF ReadLine
  <2>2. Indented(g, c)
    BY <1>2, <1>4 DEF IsEntry
  <2> QED BY <1>3, <1>4, <2>1, <2>2, ParsedIdle
<1>5. CASE l.kind = "section"
  <2>1. ReadLine(c, l) = xlab_config_section_add(c, l.name)
    BY <1>5 DEF ReadLine
  <2>2. Indented(g, c)
    BY <1>2, <1>5 DEF IsEntry
  <2> QED BY <1>5, <2>1, <2>2, ParsedSection
<1>6. CASE l.kind = "note"
  <2>1. /\ l.ind \in Nat /\ Indent(c, l) = l.ind /\ Indented(g, k)
    BY <1>2, <1>6 DEF IsEntry
  <2>2. ReadLine(c, l) = k
    BY <1>6, <2>1 DEF ReadLine
  <2>3. k \in [sections : {c.sections}, indent : Nat, intact : {TRUE}]
    BY <1>3, <2>1
  <2> HIDE DEF k
  <2> QED BY <1>6, <2>1, <2>2, <2>3, ParsedIdle
<1>7. CASE l.kind = "entry"
  <2>1. /\ l.ind \in Nat /\ Indent(c, l) = l.ind /\ Indented(g, k)
        /\ Headers(f) # {}
    BY <1>2, <1>7 DEF IsEntry
  <2>2. KeyRead(l, l.ind) = l.key
    BY <1>7 DEF KeyRead
  <2>3. ReadLine(c, l) = xlab_config_entry_add(k, KeyRead(l, l.ind), l.val)
    BY <1>7, <2>1 DEF ReadLine
  <2>4. Shape(k)
    BY <1>3, <2>1 DEF Shape
  <2> QED BY <1>7, <2>1, <2>2, <2>3, <2>4, ParsedEntry
<1> QED BY <1>1, <1>4, <1>5, <1>6, <1>7

-----------------------------------------------------------------------------
(* What is looked up for a key. *)
LEMMA ValueGiven ==
    ASSUME NEW f \in Seq(Line), NEW c, Parsed(f, c), WellFormed(f),
           NEW key \in Keys
    PROVE  LET server == xlab_config_section_get(c, "SERVER")
               val == xlab_config_section_getval(server, key)
           IN /\ ~SearchFails(server, key)
              /\ val \in 0 .. 2 * ShortSpan - 1
              /\ Given(f, key) = {} => val = 0
              /\ Given(f, key) # {} => val = f[First(Given(f, key))].val
<1> DEFINE server == xlab_config_section_get(c, "SERVER")
           val == xlab_config_section_getval(server, key)
           S == Stops(server, key)
           G == Given(f, key)
<1>1. /\ Servers(f) # {} /\ HasFirst(Servers(f))
      /\ HasFirst(Named(c, "SERVER")) /\ Named(c, "SERVER") # {}
      /\ SameFirst(server, f, key)
  BY DEF WellFormed, Parsed, Placed, Agrees
<1>2. server \in Seq(EntryRec)
  <2>1. /\ Named(c, "SERVER") \in SUBSET (1 .. Len(c.sections))
        /\ Named(c, "SERVER") \in SUBSET Nat
        /\ \A i \in 1 .. Len(c.sections) : c.sections[i].entries \in Seq(EntryRec)
    BY SectionTypes DEF Parsed
  <2>2. First(Named(c, "SERVER")) \in 1 .. Len(c.sections)
    BY <1>1, <2>1, FirstIn
  <2> QED BY <2>1, <2>2 DEF xlab_config_section_get
<1>3. S # {} => First(S) \in 1 .. Len(server) /\ First(S) \in S
  <2>1. S \in SUBSET (1 .. Len(server)) /\ S \in SUBSET Nat
    BY <1>2, LenProperties DEF Stops
  <2> QED BY <1>1, <2>1, FirstIn DEF SameFirst
<1>4. S # {} => server[First(S)].key # "NULL"
  <2>1. \A i \in 1 .. Len(server) : server[i] \in EntryRec
    BY <1>2, ElementOfSeq
  <2> QED BY <1>3, <2>1 DEF EntryRec
<1>5. ~SearchFails(server, key)
  BY <1>4 DEF SearchFails
<1>6. CASE G = {}
  <2>1. val = 0
    BY <1>1, <1>6 DEF SameFirst, xlab_config_section_getval
  <2>2. 0 \in 0 .. 2 * ShortSpan - 1
    <3>1. ShortSpan \in Nat \ {0}
      BY DEF ShortSpan
    <3> QED BY <3>1
  <2> QED BY <1>5, <1>6, <2>1, <2>2
<1>7. CASE G # {}
  <2>1. val = f[First(G)].val
    BY <1>1, <1>7 DEF SameFirst, xlab_config_section_getval
  <2>2. First(G) \in G /\ First(G) \in 1 .. Len(f)
    <3>1. First(G) \in 1 .. Len(f)
      <4>1. Blank \in Line
        BY DEF Line
      <4> QED BY <1>1, <1>7, <4>1, GivenBefore DEF SameFirst
    <3>2. G \in SUBSET Nat
      <4>1. Len(f) \in Nat /\ First(Servers(f)) \in Nat
        BY <1>1, ServersNat, FirstIn, LenProperties
      <4> QED BY <4>1 DEF Given
    <3> QED BY <1>1, <1>7, <3>1, <3>2, FirstIn DEF SameFirst
  <2>3. f[First(G)].kind = "entry"
    BY <2>2 DEF Given
  <2>4. f[First(G)].val \in 0 .. 2 * ShortSpan - 1
    BY <2>2, <2>3 DEF WellFormed, Regular
  <2> QED BY <1>5, <1>7, <2>1, <2>4
<1> QED BY <1>6, <1>7

LEMMA ReadFaithful ==
    ASSUME NEW f \in Seq(Line), NEW c, Parsed(f, c), WellFormed(f), NEW n
    PROVE  LET s == xlab_config_read_files(c, n)
           IN /\ ~Crashes(c)
              /\ s.serverport = Meant(f, "Port", Ports, XLAB_DEFAULT_SERVER_PORT)
              /\ s.workers = Meant(f, "Workers", Shorts, XLAB_WORKERS_DEFAULT)
              /\ s.max_request_size =
                   Meant(f, "MaxRequestSize", Nat \ {0}, 32) * 1024
<1> DEFINE server == xlab_config_section_get(c, "SERVER")
           val(key) == xlab_config_section_getval(server, key)
           s == xlab_config_read_files(c, n)
<1>1. ASSUME NEW key \in Keys
      PROVE  /\ ~SearchFails(server, key)
             /\ val(key) \in 0 .. 2 * ShortSpan - 1
             /\ Given(f, key) = {} => val(key) = 0
             /\ Given(f, key) # {} => val(key) = f[First(Given(f, key))].val
  BY ValueGiven
<1>2. ~Crashes(c)
  <2>1. Named(c, "SERVER") # {} /\ c.intact
    BY DEF WellFormed, Parsed, Placed, Shape
  <2> QED BY <1>1, <2>1 DEF Crashes, Keys
<1> HIDE DEF val, server
<1>3. /\ s.serverport = PortOf(val("Port"))
      /\ s.workers = WorkersOf(val("Workers"))
      /\ s.max_request_size = SizeOf(val("MaxRequestSize"))
  BY DEF xlab_config_read_files, ConfigOf, val, server
<1> HIDE DEF s
<1>4. 0 \notin Ports /\ 0 \notin Shorts
  BY DEF Ports, Shorts
<1>5. PortOf(val("Port")) = Meant(f, "Port", Ports, XLAB_DEFAULT_SERVER_PORT)
  BY <1>1, <1>4 DEF PortOf, Meant, Keys
<1>6. WorkersOf(val("Workers")) =
        Meant(f, "Workers", Shorts, XLAB_WORKERS_DEFAULT)
  <2>1. WorkersOf(val("Workers")) =
          IF val("Workers") \in Shorts THEN val("Workers")
                                       ELSE XLAB_WORKERS_DEFAULT
    BY <1>1, WorkersTaken DEF Keys
  <2> QED BY <1>1, <1>4, <2>1 DEF Meant, Keys
<1>7. SizeOf(val("MaxRequestSize")) =
        Meant(f, "MaxRequestSize", Nat \ {0}, 32) * 1024
  <2>1. DefaultRequestSize = 32 * 1024
    BY DEF DefaultRequestSize
  <2> QED BY <1>1, <2>1 DEF SizeOf, Meant, Keys
<1> QED BY <1>2, <1>3, <1>5, <1>6, <1>7 DEF s

-----------------------------------------------------------------------------
FileInv == file \in Seq(Line) /\ (Regular(file) => Parsed(file, conf))

LEMMA StepFile == FileInv /\ [Next]_vars => FileInv'
<1> SUFFICES ASSUME FileInv, [Next]_vars PROVE FileInv'
  OBVIOUS
<1>1. CASE ReadFile
  <2>1. PICK l \in Lines : file' = Append(file, l) /\ conf' = ReadLine(conf, l)
    BY <1>1 DEF ReadFile
  <2>2. l \in Line /\ file' \in Seq(Line)
    BY <2>1, StartupAssumption, Appended DEF FileInv
  <2>3. Regular(file') => Parsed(file', conf')
    BY <2>1, <2>2, RegularBefore, ParsedLine DEF FileInv
  <2> QED BY <2>2, <2>3 DEF FileInv
<1>2. CASE xlab_async_init
  <2>1. file' = <<>> /\ conf' = NoLines
    BY <1>2 DEF xlab_async_init
  <2> QED BY <2>1, NothingParsed, EmptySeq DEF FileInv
<1>3. CASE ~ReadFile /\ ~xlab_async_init
  <2>1. file' = file /\ conf' = conf
    BY <1>3 DEF Next, Main, SomeWorker, Worker, Configure, ConfigureWithout,
                Configured, Crash, xlab_trans_udp_init, xlab_socket_server,
                NoEpoll, NoThread, Thread, Epoll, xlab_sched_launch_thread,
                Launched, Barrier, RegisterLock, RegisterNode, RegisterNext,
                AddUdp, AddEventFd, LoopEntered, Go, vars, env, fileVars
  <2> QED BY <2>1 DEF FileInv
<1> QED BY <1>1, <1>2, <1>3

LEMMA StepFaithful == FileInv /\ ConfigFaithful /\ [Next]_vars => ConfigFaithful'
<1> SUFFICES ASSUME FileInv, ConfigFaithful, [Next]_vars,
                    main' \in {"async", "crashed"}, WellFormed(file')
             PROVE  ConfigFaithful'
  BY DEF ConfigFaithful
<1>1. CASE Configure
  <2>1. /\ main' = "async" /\ file' = file
        /\ config' = xlab_config_read_files(conf, limit)
    BY <1>1 DEF Configure, Configured, fileVars
  <2>2. Parsed(file, conf) /\ file \in Seq(Line) /\ WellFormed(file)
    BY <2>1 DEF FileInv, WellFormed
  <2> QED BY <2>1, <2>2, ReadFaithful DEF ConfigFaithful
<1>2. CASE Crash
  <2>1. file' = file /\ Crashes(conf)
    BY <1>2 DEF Crash, env, fileVars
  <2>2. Parsed(file, conf) /\ file \in Seq(Line) /\ WellFormed(file)
    BY <2>1 DEF FileInv, WellFormed
  <2> QED BY <2>1, <2>2, ReadFaithful
<1>3. CASE ConfigureWithout
  <2>1. file' = <<>>
    BY <1>3 DEF ConfigureWithout, Configured, fileVars
  <2>2. Servers(<<>>) = {}
    BY EmptySeq DEF Servers, Headers
  <2> QED BY <2>1, <2>2 DEF WellFormed
<1>4. CASE ~Configure /\ ~Crash /\ ~ConfigureWithout
  <2>1. main' = main /\ file' = file /\ config' = config
    BY <1>4 DEF Next, Main, SomeWorker, Worker, ReadFile, xlab_async_init,
                xlab_trans_udp_init, xlab_socket_server,
                NoEpoll, NoThread, Thread, Epoll, xlab_sched_launch_thread,
                Launched, Barrier, RegisterLock, RegisterNode, RegisterNext,
                AddUdp, AddEventFd, LoopEntered, Go, vars, env, fileVars,
                mainVars
  <2> QED BY <2>1 DEF ConfigFaithful
<1> QED BY <1>1, <1>2, <1>3, <1>4

(***************************************************************************)
(* The parser of xlab_config.c, which is fed line by line and forgives     *)
(* everything, gives every regular file with a section of the server its   *)
(* meaning, whatever its length, its order and its other sections.         *)
(***************************************************************************)
THEOREM FilesMeanWhatTheySay == Spec => []ConfigFaithful
<1>1. Init => FileInv /\ ConfigFaithful
  BY NothingParsed, EmptySeq DEF Init, FileInv, ConfigFaithful
<1> QED BY <1>1, StepFile, StepFaithful, PTL DEF Spec

-----------------------------------------------------------------------------
(* What the parser knows after the lines of any file, regular or not.      *)

(* Every set of natural numbers has a first element.                       *)
LEMMA AllHaveFirst == ASSUME NEW S \in SUBSET Nat PROVE HasFirst(S)
<1> DEFINE R == OpToRel(<, Nat)
<1>1. \A x, y \in Nat : y < x => <<y, x>> \in R
  BY DEF OpToRel
<1>2. IsWellFoundedOn(R, Nat)
  BY NatLessThanWellFounded
<1> HIDE DEF R
<1>3. ASSUME S # {} PROVE \E x \in S : \A y \in S : x <= y
  <2>1. PICK x \in S : \A y \in S : ~ (<<y, x>> \in R)
    BY <1>2, <1>3, WFMin
  <2>2. ASSUME NEW y \in S PROVE x <= y
    <3>1. ~(y < x)
      BY <1>1, <2>1, Zenon
    <3> QED BY <3>1
  <2> QED BY <2>2
<1> QED BY <1>3 DEF HasFirst

AnyKey == STRING \cup {"NULL", "unknown"}
AnyEntry == [key : AnyKey, val : Int]
AnySection == [name : STRING, entries : Seq(AnyEntry)]

HasBare(f) == \E i \in 1 .. Len(f) : f[i].kind = "bare"

(* A key that reads as NULL comes from a line without a value, and one the *)
(* program looks for from a line given for it.                             *)
NullsBare(f, c) ==
    \A s \in 1 .. Len(c.sections) :
        \A j \in 1 .. Len(c.sections[s].entries) :
            c.sections[s].entries[j].key = "NULL" => HasBare(f)

FromLines(f, entries) ==
    \A key \in Keys : \A j \in 1 .. Len(entries) :
        entries[j].key = key => entries[j].val \in Values(f, key)

Traced(f, c) ==
    /\ c \in [sections : Seq(AnySection), indent : Nat, intact : BOOLEAN]
    /\ Headed(f, c) /\ Placed(f, c)
    /\ c.intact => Orphans(f, {"entry", "bare"}) = {}
    /\ ~c.intact => HasBare(f) \/ Orphans(f, {"entry", "note"}) # {}
    /\ NullsBare(f, c)
    /\ Servers(f) # {} => FromLines(f, xlab_config_section_get(c, "SERVER"))

LEMMA NothingTraced == Traced(<<>>, NoLines)
<1>1. /\ Headed(<<>>, NoLines) /\ Placed(<<>>, NoLines)
      /\ Servers(<<>>) = {} /\ NoLines.sections = <<>> /\ NoLines.intact
  BY NothingParsed, EmptySeq DEF Parsed, Servers, Headers, NoLines
<1>2. NoLines \in [sections : Seq(AnySection), indent : Nat, intact : BOOLEAN]
  BY EmptySeq DEF NoLines
<1>3. Orphans(<<>>, {"entry", "bare"}) = {} /\ NullsBare(<<>>, NoLines)
  BY <1>1, EmptySeq DEF Orphans, NullsBare
<1> QED BY <1>1, <1>2, <1>3 DEF Traced

(* What one line more does to what is said of a file. *)
LEMMA OrphansGrow ==
    ASSUME NEW f \in Seq(Line), NEW l \in Line, NEW K, "section" \notin K
    PROVE  Orphans(Append(f, l), K) = Orphans(f, K) \cup
             IF l.kind \in K /\ Headers(f) = {} THEN {Len(f) + 1} ELSE {}
<1> DEFINE g == Append(f, l)
           n == Len(f) + 1
<1>1. /\ Len(f) \in Nat /\ Len(g) = n
      /\ \A i \in 1 .. Len(f) : g[i] = f[i]
      /\ g[n] = l
  BY Appended
<1>2. /\ Headers(f) \subseteq 1 .. Len(f)
      /\ Headers(g) = Headers(f) \cup IF l.kind = "section" THEN {n} ELSE {}
  BY HeadersGrow
<1> HIDE DEF g
<1>3. 1 .. n = (1 .. Len(f)) \cup {n}
  BY <1>1
<1>4. ASSUME NEW i \in 1 .. Len(f)
      PROVE  i \in Orphans(g, K) <=> i \in Orphans(f, K)
  <2>1. (\A h \in Headers(g) : i < h) <=> (\A h \in Headers(f) : i < h)
    BY <1>1, <1>2
  <2> QED BY <1>1, <2>1 DEF Orphans
<1>5. n \in Orphans(g, K) <=> l.kind \in K /\ Headers(f) = {}
  <2>1. l.kind \in K => Headers(g) = Headers(f)
    BY <1>2
  <2>2. (\A h \in Headers(f) : n < h) <=> Headers(f) = {}
    BY <1>1, <1>2
  <2> QED BY <1>1, <2>1, <2>2 DEF Orphans
<1>6. Orphans(f, K) \subseteq 1 .. Len(f) /\ Orphans(g, K) \subseteq 1 .. n
  BY <1>1 DEF Orphans
<1>7. n \notin Orphans(f, K)
  BY <1>1, <1>6
<1> QED BY <1>3, <1>4, <1>5, <1>6, <1>7 DEF g

LEMMA OrphansKept ==
    ASSUME NEW f \in Seq(Line), NEW l \in Line,
           l.kind = "section" \/ Headers(f) # {}
             \/ l.kind \notin {"entry", "bare", "note"}
    PROVE  /\ Orphans(Append(f, l), {"entry", "bare"}) = Orphans(f, {"entry", "bare"})
           /\ Orphans(Append(f, l), {"entry", "note"}) = Orphans(f, {"entry", "note"})
<1>1. ASSUME NEW K, K \subseteq {"entry", "bare", "note"}
      PROVE  Orphans(Append(f, l), K) = Orphans(f, K)
  <2>1. "section" \notin K /\ (l.kind \notin K \/ Headers(f) # {})
    BY <1>1
  <2>2. Orphans(Append(f, l), K) = Orphans(f, K) \cup {}
    BY <2>1, OrphansGrow, Zenon
  <2> QED BY <2>2
<1>2. /\ {"entry", "bare"} \subseteq {"entry", "bare", "note"}
      /\ {"entry", "note"} \subseteq {"entry", "bare", "note"}
  OBVIOUS
<1> QED BY <1>1, <1>2, Zenon

LEMMA BareGrows ==
    ASSUME NEW f \in Seq(Line), NEW l \in Line
    PROVE  HasBare(Append(f, l)) <=> HasBare(f) \/ l.kind = "bare"
<1> DEFINE g == Append(f, l)
<1>1. /\ Len(f) \in Nat /\ Len(g) = Len(f) + 1
      /\ \A i \in 1 .. Len(f) : g[i] = f[i]
      /\ g[Len(f) + 1] = l
  BY Appended
<1>2. 1 .. Len(g) = (1 .. Len(f)) \cup {Len(f) + 1}
  BY <1>1
<1> QED BY <1>1, <1>2 DEF HasBare

LEMMA ValuesGrow ==
    ASSUME NEW f \in Seq(Line), NEW l \in Line, Servers(f) # {}, NEW key
    PROVE  /\ Values(f, key) \subseteq Values(Append(f, l), key)
           /\ l.kind = "entry" /\ l.key = key /\ LastIsServer(f) =>
                l.val \in Values(Append(f, l), key)
<1> DEFINE g == Append(f, l)
<1>1. /\ Given(f, key) \subseteq 1 .. Len(f)
      /\ Given(g, key) = Given(f, key) \cup
           IF l.kind = "entry" /\ l.key = key /\ LastIsServer(f)
             THEN {Len(f) + 1} ELSE {}
  BY GivenGrows, AllHaveFirst, ServersNat
<1>2. /\ \A i \in 1 .. Len(f) : g[i] = f[i]
      /\ g[Len(f) + 1] = l
  BY Appended
<1> HIDE DEF g
<1> QED BY <1>1, <1>2 DEF Values, g

LEMMA LinesGrow ==
    ASSUME NEW f \in Seq(Line), NEW l \in Line, Servers(f) # {}, NEW entries,
           FromLines(f, entries)
    PROVE  FromLines(Append(f, l), entries)
BY ValuesGrow DEF FromLines

(* The sections of a file, whatever is in them. *)
LEMMA TracedTypes ==
    ASSUME NEW f, NEW c, Traced(f, c)
    PROVE  /\ c.sections \in Seq(AnySection) /\ Len(c.sections) \in Nat
           /\ c.indent \in Nat /\ c.intact \in BOOLEAN
           /\ Named(c, "SERVER") \in SUBSET (1 .. Len(c.sections))
           /\ Named(c, "SERVER") \in SUBSET Nat
           /\ \A i \in 1 .. Len(c.sections) :
                 /\ c.sections[i] \in AnySection
                 /\ c.sections[i].entries \in Seq(AnyEntry)
<1>1. c.sections \in Seq(AnySection) /\ c.indent \in Nat /\ c.intact \in BOOLEAN
  BY DEF Traced
<1>2. /\ Len(c.sections) \in Nat
      /\ \A i \in 1 .. Len(c.sections) : c.sections[i] \in AnySection
  BY <1>1, LenProperties, ElementOfSeq
<1>3. Named(c, "SERVER") \in SUBSET (1 .. Len(c.sections))
  BY DEF Named
<1> QED BY <1>1, <1>2, <1>3 DEF AnySection

(* Lines that change no section. *)
LEMMA TracedIdle ==
    ASSUME NEW f \in Seq(Line), NEW l \in Line, NEW c, Traced(f, c),
           l.kind \notin {"section", "entry", "bare"},
           NEW d, d \in [sections : {c.sections}, indent : Nat, intact : {c.intact}]
    PROVE  Traced(Append(f, l), d)
<1> DEFINE g == Append(f, l)
<1>1. Headers(g) = Headers(f) /\ Servers(g) = Servers(f)
  BY HeadersGrow
<1>2. d.sections = c.sections /\ d.indent \in Nat /\ d.intact = c.intact
  OBVIOUS
<1>3. /\ Named(d, "SERVER") = Named(c, "SERVER")
      /\ xlab_config_section_get(d, "SERVER") =
           xlab_config_section_get(c, "SERVER")
  BY <1>2 DEF Named, xlab_config_section_get
<1>4. Headed(g, d) /\ Placed(g, d)
  BY <1>1, <1>2, <1>3 DEF Traced, Headed, Placed, LastIsServer
<1>5. /\ Orphans(g, {"entry", "bare"}) = Orphans(f, {"entry", "bare"})
      /\ Orphans(f, {"entry", "note"}) \subseteq Orphans(g, {"entry", "note"})
      /\ HasBare(g) <=> HasBare(f)
  <2>1. l.kind \notin {"entry", "bare"} /\ l.kind # "bare"
    OBVIOUS
  <2>2. "section" \notin {"entry", "bare"} /\ "section" \notin {"entry", "note"}
    OBVIOUS
  <2>3. Orphans(g, {"entry", "bare"}) = Orphans(f, {"entry", "bare"}) \cup {}
    BY <2>1, <2>2, OrphansGrow, Zenon
  <2>4. Orphans(f, {"entry", "note"}) \subseteq Orphans(g, {"entry", "note"})
    BY SMTT(30), <2>2, OrphansGrow
  <2>5. HasBare(g) <=> HasBare(f)
    BY <2>1, BareGrows
  <2> QED BY <2>3, <2>4, <2>5
<1>6. NullsBare(g, d)
  BY <1>2, <1>5 DEF Traced, NullsBare
<1>7. d \in [sections : Seq(AnySection), indent : Nat, intact : BOOLEAN]
  BY TracedTypes
<1>8. Servers(f) # {} => FromLines(g, xlab_config_section_get(c, "SERVER"))
  BY LinesGrow DEF Traced
<1> HIDE DEF g
<1> QED BY <1>1, <1>2, <1>3, <1>4, <1>5, <1>6, <1>7, <1>8 DEF Traced, g

(* A header. *)
LEMMA TracedSection ==
    ASSUME NEW f \in Seq(Line), NEW l \in Line, NEW c, Traced(f, c),
           l.kind = "section"
    PROVE  Traced(Append(f, l), xlab_config_section_add(c, l.name))
<1> DEFINE g == Append(f, l)
           d == xlab_config_section_add(c, l.name)
           r == [name |-> l.name, entries |-> <<>>]
           n == Len(f) + 1
           m == Len(c.sections) + 1
<1>1. /\ c.sections \in Seq(AnySection) /\ Len(c.sections) \in Nat
      /\ c.indent \in Nat /\ c.intact \in BOOLEAN
      /\ Named(c, "SERVER") \in SUBSET (1 .. Len(c.sections))
      /\ Named(c, "SERVER") \in SUBSET Nat
  BY TracedTypes
<1>2. r \in AnySection
  BY Kinds, EmptySeq DEF AnySection
<1>3. /\ d.sections = Append(c.sections, r)
      /\ d.indent = c.indent /\ d.intact = c.intact
      /\ d \in [sections : Seq(AnySection), indent : Nat, intact : BOOLEAN]
  BY <1>1, <1>2, AppendProperties DEF Traced, xlab_config_section_add
<1> HIDE DEF d
<1>4. /\ d.sections # <<>> /\ Len(d.sections) = m
      /\ \A i \in 1 .. Len(c.sections) : d.sections[i] = c.sections[i]
      /\ d.sections[m] = r
  <2> HIDE DEF r
  <2> QED BY SMTT(30), <1>1, <1>2, <1>3, AppendProperties
<1>5. /\ Headers(f) \subseteq 1 .. Len(f) /\ Servers(f) \subseteq Headers(f)
      /\ Headers(g) = Headers(f) \cup {n}
      /\ Servers(g) = Servers(f) \cup IF l.name = "SERVER" THEN {n} ELSE {}
      /\ Servers(f) \in SUBSET Nat /\ Len(f) \in Nat
  BY HeadersGrow, ServersNat, Appended
<1>6. Named(d, "SERVER") =
        Named(c, "SERVER") \cup IF l.name = "SERVER" THEN {m} ELSE {}
  <2>1. 1 .. m = (1 .. Len(c.sections)) \cup {m}
    BY <1>1
  <2> QED BY SMTT(30), <1>1, <1>4, <2>1 DEF Named
<1>7. Headed(g, d)
  BY <1>4, <1>5 DEF Headed
<1>8. /\ Orphans(g, {"entry", "bare"}) = Orphans(f, {"entry", "bare"})
      /\ Orphans(g, {"entry", "note"}) = Orphans(f, {"entry", "note"})
      /\ HasBare(g) <=> HasBare(f)
  <2>1. l.kind \notin {"entry", "bare", "note"} /\ l.kind # "bare"
    OBVIOUS
  <2>2. HasBare(g) <=> HasBare(f)
    BY <2>1, BareGrows
  <2> QED BY <2>1, <2>2, OrphansKept
<1>9. NullsBare(g, d)
  <2> SUFFICES ASSUME NEW s \in 1 .. m, NEW j \in 1 .. Len(d.sections[s].entries),
                      d.sections[s].entries[j].key = "NULL"
               PROVE  HasBare(f)
    BY <1>4, <1>8 DEF NullsBare
  <2>1. s # m
    BY <1>4, EmptySeq
  <2>2. s \in 1 .. Len(c.sections)
    BY <1>1, <2>1
  <2> QED BY <1>4, <2>2 DEF Traced, NullsBare
<1>10. Placed(g, d) /\ (Servers(g) # {} =>
                           FromLines(g, xlab_config_section_get(d, "SERVER")))
  <2>1. CASE Servers(f) # {}
    <3>1. /\ HasFirst(Servers(f)) /\ HasFirst(Named(c, "SERVER"))
          /\ Named(c, "SERVER") # {}
      BY <2>1 DEF Traced, Placed
    <3>2. /\ HasFirst(Servers(g)) /\ First(Servers(g)) = First(Servers(f))
          /\ Servers(g) # {}
      BY <2>1, <3>1, <1>5, GivenGrows
    <3>3. /\ HasFirst(Named(d, "SERVER")) /\ Named(d, "SERVER") # {}
          /\ First(Named(d, "SERVER")) = First(Named(c, "SERVER"))
      <4>1. m \in Nat /\ \A i \in Named(c, "SERVER") : i < m
        BY <1>1
      <4>2. /\ HasFirst(Named(c, "SERVER") \cup {m})
            /\ First(Named(c, "SERVER") \cup {m}) = First(Named(c, "SERVER"))
        <5> HIDE DEF m
        <5> QED BY <1>1, <3>1, <4>1, FirstGrows
      <4> QED BY <1>6, <3>1, <4>2
    <3>4. /\ First(Named(c, "SERVER")) \in 1 .. Len(c.sections)
          /\ First(Servers(f)) \in 1 .. Len(f)
      BY <1>1, <1>5, <2>1, <3>1, FirstIn
    <3>5. ~LastIsServer(g) /\ First(Named(d, "SERVER")) # Len(d.sections)
      <4>1. First(Named(d, "SERVER")) # Len(d.sections)
        BY <1>1, <1>4, <3>3, <3>4
      <4>2. n \in Headers(g) /\ ~(n <= First(Servers(g)))
        BY <1>5, <3>2, <3>4
      <4> QED BY <4>1, <4>2 DEF LastIsServer
    <3>6. Placed(g, d)
      BY <3>2, <3>3, <3>5 DEF Placed
    <3>7. xlab_config_section_get(d, "SERVER") =
            xlab_config_section_get(c, "SERVER")
      BY <1>4, <3>3, <3>4 DEF xlab_config_section_get
    <3>8. FromLines(g, xlab_config_section_get(d, "SERVER"))
      BY <2>1, <3>7, LinesGrow DEF Traced
    <3> QED BY <3>6, <3>8
  <2>2. CASE Servers(f) = {} /\ l.name = "SERVER"
    <3>1. Servers(g) = {n} /\ Named(d, "SERVER") = {m}
      BY <1>5, <1>6, <2>2 DEF Traced, Placed
    <3>2. /\ HasFirst(Servers(g)) /\ First(Servers(g)) = n
          /\ HasFirst(Named(d, "SERVER")) /\ First(Named(d, "SERVER")) = m
      <4>1. /\ n \in Nat /\ m \in Nat
            /\ \A j \in {n} : n <= j
            /\ \A j \in {m} : m <= j
        BY <1>1, <1>5
      <4>2. {n} \in SUBSET Nat /\ {m} \in SUBSET Nat /\ n \in {n} /\ m \in {m}
        BY <4>1
      <4> HIDE DEF n, m
      <4> QED BY <3>1, <4>1, <4>2, FirstIs
    <3>3. LastIsServer(g)
      BY <1>5, <3>2 DEF LastIsServer
    <3>4. Placed(g, d)
      BY <1>4, <3>1, <3>2, <3>3 DEF Placed
    <3>5. xlab_config_section_get(d, "SERVER") = <<>>
      BY <1>4, <3>2 DEF xlab_config_section_get
    <3>6. FromLines(g, <<>>)
      BY EmptySeq DEF FromLines
    <3> QED BY <3>4, <3>5, <3>6
  <2>3. CASE Servers(f) = {} /\ l.name # "SERVER"
    <3>1. Servers(g) = {} /\ Named(d, "SERVER") = {}
      BY <1>5, <1>6, <2>3 DEF Traced, Placed
    <3> QED BY <3>1 DEF Placed, HasFirst
  <2> QED BY <2>1, <2>2, <2>3
<1> HIDE DEF g
<1> QED BY <1>3, <1>7, <1>8, <1>9, <1>10 DEF Traced, d, g

(* An entry, or what is taken for one. *)
EntryOf(l, n) ==
    [key |-> KeyRead(l, n), val |-> IF l.kind = "entry" THEN l.val ELSE 0]

LEMMA EntryRead ==
    ASSUME NEW l \in Line, NEW n
    PROVE  /\ EntryOf(l, n) \in AnyEntry
           /\ EntryOf(l, n).key = "NULL" => l.kind = "bare"
           /\ EntryOf(l, n).key \in Keys =>
                /\ l.kind = "entry" /\ l.key = EntryOf(l, n).key
                /\ EntryOf(l, n).val = l.val
<1>1. l.kind = "entry" => l.key \in STRING \ {"NULL"} /\ l.val \in Int
  BY Kinds
<1>2. /\ KeyRead(l, n) \in AnyKey
      /\ KeyRead(l, n) = "NULL" => l.kind = "bare"
      /\ KeyRead(l, n) \in Keys => l.kind = "entry" /\ l.key = KeyRead(l, n)
  <2>1. \/ KeyRead(l, n) = "NULL" /\ l.kind = "bare"
        \/ KeyRead(l, n) = l.key /\ l.kind = "entry"
        \/ KeyRead(l, n) = "unknown"
    BY DEF KeyRead
  <2>2. l.kind = "entry" => l.key \in AnyKey
    BY <1>1 DEF AnyKey
  <2>3. "NULL" \in AnyKey /\ "unknown" \in AnyKey
    BY DEF AnyKey
  <2>4. "unknown" # "NULL"
    OBVIOUS
  <2>5. "NULL" \notin Keys /\ "unknown" \notin Keys
    BY DEF Keys
  <2> QED BY <1>1, <2>1, <2>2, <2>3, <2>4, <2>5
<1>3. EntryOf(l, n).val = IF l.kind = "entry" THEN l.val ELSE 0
  BY DEF EntryOf
<1>4. EntryOf(l, n).key = KeyRead(l, n)
  BY DEF EntryOf
<1>5. EntryOf(l, n) \in AnyEntry
  BY <1>1, <1>2 DEF EntryOf, AnyEntry
<1> QED BY <1>1, <1>2, <1>3, <1>4, <1>5

LEMMA TracedEntry ==
    ASSUME NEW f \in Seq(Line), NEW l \in Line, l.kind # "section",
           NEW c, Traced(f, c), c.sections # <<>>,
           NEW k, k \in [sections : {c.sections}, indent : Nat, intact : {c.intact}],
           NEW n
    PROVE  Traced(Append(f, l),
                  xlab_config_entry_add(k, EntryOf(l, n).key, EntryOf(l, n).val))
<1> DEFINE g == Append(f, l)
           r == EntryOf(l, n)
           d == xlab_config_entry_add(k, r.key, r.val)
           m == Len(c.sections)
           es == c.sections[m].entries
           last == [c.sections[m] EXCEPT !.entries = Append(es, r)]
<1>1. /\ c.sections \in Seq(AnySection) /\ m \in Nat
      /\ Named(c, "SERVER") \in SUBSET (1 .. m)
      /\ Named(c, "SERVER") \in SUBSET Nat
      /\ \A i \in 1 .. m :
            /\ c.sections[i] \in AnySection
            /\ c.sections[i].entries \in Seq(AnyEntry)
  BY TracedTypes
<1>2. m \in 1 .. m
  BY <1>1, EmptySeq
<1>3. /\ r \in AnyEntry /\ r = [key |-> r.key, val |-> r.val]
      /\ r.key = "NULL" => l.kind = "bare"
      /\ r.key \in Keys => l.kind = "entry" /\ l.key = r.key /\ r.val = l.val
  BY EntryRead DEF EntryOf
<1> HIDE DEF r
<1>4. es \in Seq(AnyEntry) /\ Append(es, r) \in Seq(AnyEntry)
  BY <1>1, <1>2, <1>3, AppendProperties
<1>5. /\ last \in AnySection /\ last.name = c.sections[m].name
      /\ last.entries = Append(es, r)
  BY <1>1, <1>2, <1>4 DEF AnySection
<1>6. /\ k.sections = c.sections /\ k.indent \in Nat /\ k.intact = c.intact
      /\ c.intact \in BOOLEAN
  BY TracedTypes
<1>7. /\ d.sections = [c.sections EXCEPT ![m] = last]
      /\ d.intact = c.intact
      /\ d \in [sections : Seq(AnySection), indent : Nat, intact : BOOLEAN]
  <2>1. d = [k EXCEPT !.sections = [c.sections EXCEPT ![m] = last]]
    BY <1>3, <1>6 DEF xlab_config_entry_add
  <2>2. [c.sections EXCEPT ![m] = last] \in Seq(AnySection)
    BY <1>1, <1>2, <1>5, ExceptSeq
  <2> HIDE DEF last, d
  <2> QED BY <1>6, <2>1, <2>2
<1> HIDE DEF d, last
<1>8. /\ Len(d.sections) = m
      /\ \A i \in 1 .. m : d.sections[i] = IF i = m THEN last ELSE c.sections[i]
  BY <1>1, <1>2, <1>5, <1>7, ExceptSeq
<1>9. d.sections # <<>> /\ Headers(f) # {}
  <2>1. Headers(f) # {}
    BY DEF Traced, Headed
  <2> QED BY <1>2, <1>8, <2>1, EmptySeq
<1>10. Headers(g) = Headers(f) /\ Servers(g) = Servers(f)
  BY HeadersGrow
<1>11. Named(d, "SERVER") = Named(c, "SERVER")
  BY <1>1, <1>2, <1>5, <1>8 DEF Named
<1>12. Headed(g, d) /\ Placed(g, d)
  BY <1>8, <1>9, <1>10, <1>11 DEF Headed, Traced, Placed, LastIsServer
<1>13. /\ Orphans(g, {"entry", "bare"}) = Orphans(f, {"entry", "bare"})
       /\ Orphans(g, {"entry", "note"}) = Orphans(f, {"entry", "note"})
       /\ HasBare(g) <=> HasBare(f) \/ l.kind = "bare"
  BY <1>9, OrphansKept, BareGrows
<1>14. /\ Len(es) \in Nat /\ Len(Append(es, r)) = Len(es) + 1
       /\ \A j \in 1 .. Len(es) : Append(es, r)[j] = es[j]
       /\ Append(es, r)[Len(es) + 1] = r
       /\ \A j \in 1 .. Len(es) + 1 : j \in 1 .. Len(es) \/ j = Len(es) + 1
  <2>1. Len(es) \in Nat
    BY <1>4, LenProperties
  <2> HIDE DEF es
  <2> QED BY <1>3, <1>4, <2>1, AppendProperties
<1>15. NullsBare(g, d)
  <2> SUFFICES ASSUME NEW s \in 1 .. m, NEW j \in 1 .. Len(d.sections[s].entries),
                      d.sections[s].entries[j].key = "NULL"
               PROVE  HasBare(g)
    BY <1>8 DEF NullsBare
  <2>1. CASE s # m \/ j \in 1 .. Len(es)
    <3>1. /\ j \in 1 .. Len(c.sections[s].entries)
          /\ c.sections[s].entries[j].key = "NULL"
      <4>1. CASE s # m
        <5>1. d.sections[s] = c.sections[s]
          BY <1>8, <4>1
        <5> QED BY <5>1
      <4>2. CASE s = m /\ j \in 1 .. Len(es)
        <5>1. d.sections[s].entries = Append(es, r)
          BY <1>2, <1>5, <1>8, <4>2
        <5>2. d.sections[s].entries[j] = es[j]
          BY <1>14, <4>2, <5>1
        <5> QED BY <4>2, <5>2
      <4> QED BY <2>1, <4>1, <4>2
    <3> QED BY <1>13, <3>1 DEF Traced, NullsBare
  <2>2. CASE s = m /\ j \notin 1 .. Len(es)
    <3>1. d.sections[s].entries = Append(es, r)
      BY <1>2, <1>5, <1>8, <2>2
    <3>2. j = Len(es) + 1 /\ d.sections[s].entries[j] = r
      BY <1>14, <2>2, <3>1
    <3> QED BY <1>3, <1>13, <3>2
  <2> QED BY <2>1, <2>2
<1>16. ASSUME Servers(f) # {}
       PROVE  FromLines(g, xlab_config_section_get(d, "SERVER"))
  <2> DEFINE s == First(Named(c, "SERVER"))
             olds == xlab_config_section_get(c, "SERVER")
  <2>1. /\ HasFirst(Named(c, "SERVER")) /\ Named(c, "SERVER") # {}
        /\ s = m <=> LastIsServer(f)
        /\ FromLines(g, olds)
    <3>1. FromLines(f, olds)
      BY <1>16 DEF Traced
    <3>2. FromLines(g, olds)
      BY <1>16, <3>1, LinesGrow
    <3> QED BY <1>16, <3>2 DEF Traced, Placed
  <2>2. s \in 1 .. m
    BY <1>1, <2>1, FirstIn
  <2>3. olds = c.sections[s].entries
    BY DEF xlab_config_section_get
  <2>4. xlab_config_section_get(d, "SERVER") =
          IF s = m THEN Append(es, r) ELSE olds
    BY <1>5, <1>8, <1>11, <2>2, <2>3 DEF xlab_config_section_get
  <2>5. CASE s # m
    BY <2>1, <2>4, <2>5
  <2>6. CASE s = m
    <3> SUFFICES ASSUME NEW key \in Keys, NEW j \in 1 .. Len(es) + 1,
                        Append(es, r)[j].key = key
                 PROVE  Append(es, r)[j].val \in Values(g, key)
      BY <1>14, <2>4, <2>6 DEF FromLines
    <3>1. CASE j \in 1 .. Len(es)
      BY <1>14, <2>1, <2>3, <2>6, <3>1 DEF FromLines
    <3>2. CASE j \notin 1 .. Len(es)
      <4>1. Append(es, r)[j] = r
        BY <1>14, <3>2
      <4>2. l.kind = "entry" /\ l.key = key /\ r.val = l.val /\ LastIsServer(f)
        BY <1>3, <2>1, <2>6, <4>1
      <4>3. l.val \in Values(g, key)
        BY <1>16, <4>2, ValuesGrow
      <4> QED BY <4>1, <4>2, <4>3
    <3> QED BY <3>1, <3>2
  <2> QED BY <2>5, <2>6
<1> HIDE DEF g
<1> QED BY <1>6, <1>7, <1>10, <1>12, <1>13, <1>15, <1>16 DEF Traced, d, g, r

(* Without a section the list of sections is lost. *)
LEMMA TracedOrphan ==
    ASSUME NEW f \in Seq(Line), NEW l \in Line,
           l.kind \in {"entry", "bare", "note"},
           NEW c, Traced(f, c), c.sections = <<>>,
           NEW k, k \in [sections : {c.sections}, indent : Nat, intact : {c.intact}],
           NEW key, NEW val
    PROVE  Traced(Append(f, l), xlab_config_entry_add(k, key, val))
<1> DEFINE g == Append(f, l)
           d == xlab_config_entry_add(k, key, val)
<1>1. /\ d.sections = <<>> /\ d.intact = FALSE
      /\ d \in [sections : Seq(AnySection), indent : Nat, intact : BOOLEAN]
  BY EmptySeq DEF xlab_config_entry_add
<1> HIDE DEF d
<1>2. Headers(f) = {} /\ Servers(f) = {}
  BY HeadersGrow DEF Traced, Headed
<1>3. Headers(g) = {} /\ Servers(g) = {}
  BY <1>2, HeadersGrow
<1>4. Named(d, "SERVER") = {}
  BY <1>1, EmptySeq DEF Named
<1>5. Headed(g, d) /\ Placed(g, d) /\ NullsBare(g, d)
  BY <1>1, <1>3, <1>4, EmptySeq DEF Headed, Placed, HasFirst, NullsBare
<1>6. HasBare(g) \/ Orphans(g, {"entry", "note"}) # {}
  <2>1. l.kind = "bare" => HasBare(g)
    BY BareGrows
  <2>2. l.kind \in {"entry", "note"} => Orphans(g, {"entry", "note"}) # {}
    <3>1. "section" \notin {"entry", "note"}
      OBVIOUS
    <3> QED BY <1>2, <3>1, OrphansGrow
  <2> QED BY <2>1, <2>2
<1> HIDE DEF g
<1> QED BY <1>1, <1>3, <1>5, <1>6 DEF Traced, d, g

(* One round of the parser's loop, whatever the line is. *)
LEMMA TracedLine ==
    ASSUME NEW f \in Seq(Line), NEW l \in Line, NEW c, Traced(f, c)
    PROVE  Traced(Append(f, l), ReadLine(c, l))
<1>1. l.kind \in {"blank", "section", "entry", "bare", "note"}
  BY Kinds
<1>2. /\ c \in [sections : {c.sections}, indent : Nat, intact : {c.intact}]
      /\ c.indent \in Nat
  BY DEF Traced
<1>3. CASE l.kind = "blank"
  <2>1. ReadLine(c, l) = c
    BY <1>3 DEF ReadLine
  <2> QED BY <1>2, <1>3, <2>1, TracedIdle
<1>4. CASE l.kind = "section"
  <2>1. ReadLine(c, l) = xlab_config_section_add(c, l.name)
    BY <1>4 DEF ReadLine
  <2> QED BY <1>4, <2>1, TracedSection
<1>5. CASE l.kind \in {"entry", "bare", "note"}
  <2> DEFINE n == Indent(c, l)
             k == [c EXCEPT !.indent = n]
  <2>1. n \in Nat
    <3>1. l.ind \in Nat
      BY <1>5 DEF Line, Blank
    <3> QED BY <1>2, <3>1 DEF Indent
  <2>2. k \in [sections : {c.sections}, indent : Nat, intact : {c.intact}]
    BY <1>2, <2>1
  <2>3. CASE l.kind = "note" /\ l.ind = n
    <3>1. ReadLine(c, l) = k
      BY <2>3 DEF ReadLine
    <3> HIDE DEF k
    <3> QED BY <2>2, <2>3, <3>1, TracedIdle
  <2>4. CASE ~(l.kind = "note" /\ l.ind = n)
    <3>1. ReadLine(c, l) =
            xlab_config_entry_add(k, EntryOf(l, n).key, EntryOf(l, n).val)
      BY <1>5, <2>4 DEF ReadLine, EntryOf
    <3> HIDE DEF k, n
    <3> QED BY <1>5, <2>2, <3>1, TracedEntry, TracedOrphan
  <2> QED BY <2>3, <2>4
<1> QED BY <1>1, <1>3, <1>4, <1>5

-----------------------------------------------------------------------------
(* What is found for a key. *)
LEMMA ValueFound ==
    ASSUME NEW f \in Seq(Line), NEW c, Traced(f, c), Servers(f) # {},
           NEW key \in Keys
    PROVE  LET server == xlab_config_section_get(c, "SERVER")
               val == xlab_config_section_getval(server, key)
           IN /\ SearchFails(server, key) => HasBare(f)
              /\ ~SearchFails(server, key) => val = 0 \/ val \in Values(f, key)
<1> DEFINE s == First(Named(c, "SERVER"))
           server == xlab_config_section_get(c, "SERVER")
           val == xlab_config_section_getval(server, key)
           S == Stops(server, key)
<1>1. s \in 1 .. Len(c.sections) /\ server = c.sections[s].entries
  <2>1. HasFirst(Named(c, "SERVER")) /\ Named(c, "SERVER") # {}
    BY DEF Traced, Placed
  <2> QED BY <2>1, TracedTypes, FirstIn DEF xlab_config_section_get
<1>2. server \in Seq(AnyEntry)
  BY <1>1, TracedTypes
<1>3. NullsBare(f, c) /\ FromLines(f, server)
  BY DEF Traced
<1> HIDE DEF s, server
<1>4. S # {} => First(S) \in S
  <2>1. S \in SUBSET Nat
    BY <1>2, LenProperties DEF Stops
  <2> QED BY <2>1, AllHaveFirst, FirstIn
<1>5. S # {} => /\ First(S) \in 1 .. Len(server)
                /\ server[First(S)].key \in {key, "NULL"}
  BY <1>4 DEF Stops
<1>6. SearchFails(server, key) => HasBare(f)
  BY <1>1, <1>3, <1>5 DEF SearchFails, NullsBare
<1>7. ASSUME ~SearchFails(server, key), S # {} PROVE val \in Values(f, key)
  <2>1. server[First(S)].key = key
    BY <1>5, <1>7 DEF SearchFails
  <2>2. val = server[First(S)].val
    BY <1>7 DEF xlab_config_section_getval
  <2> QED BY <1>3, <1>5, <1>7, <2>1, <2>2 DEF FromLines
<1>8. S = {} => val = 0
  BY DEF xlab_config_section_getval
<1> QED BY <1>6, <1>7, <1>8 DEF server

LEMMA ReadTraced ==
    ASSUME NEW f \in Seq(Line), NEW c, Traced(f, c), NEW n
    PROVE  LET s == xlab_config_read_files(c, n)
           IN /\ Crashes(c) => \/ Servers(f) = {} \/ HasBare(f)
                               \/ Orphans(f, {"entry", "note"}) # {}
              /\ ~Crashes(c) =>
                   /\ Servers(f) # {} /\ Orphans(f, {"entry", "bare"}) = {}
                   /\ s.serverport \in
                        {XLAB_DEFAULT_SERVER_PORT} \cup Values(f, "Port")
                   /\ s.workers \in
                        {XLAB_WORKERS_DEFAULT}
                          \cup {ToShort(v) : v \in Values(f, "Workers")}
                   /\ s.max_request_size \in
                        {DefaultRequestSize}
                          \cup {v * 1024 : v \in Values(f, "MaxRequestSize")}
<1> DEFINE server == xlab_config_section_get(c, "SERVER")
           val(key) == xlab_config_section_getval(server, key)
           s == xlab_config_read_files(c, n)
<1>1. Named(c, "SERVER") = {} <=> Servers(f) = {}
  BY DEF Traced, Placed
<1>2. /\ c.intact => Orphans(f, {"entry", "bare"}) = {}
      /\ ~c.intact => HasBare(f) \/ Orphans(f, {"entry", "note"}) # {}
  BY DEF Traced
<1>3. ASSUME Servers(f) # {}, NEW key \in Keys
      PROVE  /\ SearchFails(server, key) => HasBare(f)
             /\ ~SearchFails(server, key) => val(key) = 0 \/ val(key) \in Values(f, key)
  BY <1>3, ValueFound
<1>4. Crashes(c) => \/ Servers(f) = {} \/ HasBare(f)
                    \/ Orphans(f, {"entry", "note"}) # {}
  BY <1>1, <1>2, <1>3 DEF Crashes, Keys
<1>5. ASSUME ~Crashes(c)
      PROVE  /\ Servers(f) # {} /\ Orphans(f, {"entry", "bare"}) = {}
             /\ \A key \in Keys : val(key) = 0 \/ val(key) \in Values(f, key)
  <2>1. /\ c.intact /\ Named(c, "SERVER") # {}
        /\ \A key \in Keys : ~SearchFails(server, key)
    BY <1>5 DEF Crashes, Keys
  <2> QED BY <1>1, <1>2, <1>3, <2>1
<1> HIDE DEF val, server
<1>6. /\ s.serverport = PortOf(val("Port"))
      /\ s.workers = WorkersOf(val("Workers"))
      /\ s.max_request_size = SizeOf(val("MaxRequestSize"))
  BY DEF xlab_config_read_files, ConfigOf, val, server
<1> HIDE DEF s
<1>7. 0 \notin Ports /\ ToShort(0) \notin Shorts
  <2>1. ToShort(0) = 0
    BY DEF ToShort, ShortSpan
  <2> QED BY <2>1 DEF Ports, Shorts
<1>8. ASSUME NEW key \in Keys, val(key) = 0 \/ val(key) \in Values(f, key)
      PROVE  /\ PortOf(val(key)) \in {XLAB_DEFAULT_SERVER_PORT} \cup Values(f, key)
             /\ WorkersOf(val(key)) \in
                  {XLAB_WORKERS_DEFAULT} \cup {ToShort(v) : v \in Values(f, key)}
             /\ SizeOf(val(key)) \in
                  {DefaultRequestSize} \cup {v * 1024 : v \in Values(f, key)}
  <2>1. PortOf(val(key)) \in {XLAB_DEFAULT_SERVER_PORT} \cup Values(f, key)
    BY <1>7, <1>8 DEF PortOf
  <2>2. WorkersOf(val(key)) \in
          {XLAB_WORKERS_DEFAULT} \cup {ToShort(v) : v \in Values(f, key)}
    BY <1>7, <1>8 DEF WorkersOf
  <2>3. SizeOf(val(key)) \in
          {DefaultRequestSize} \cup {v * 1024 : v \in Values(f, key)}
    BY <1>8 DEF SizeOf
  <2> QED BY <2>1, <2>2, <2>3
<1> QED BY <1>4, <1>5, <1>6, <1>8 DEF Keys, s

-----------------------------------------------------------------------------
TraceInv == file \in Seq(Line) /\ Traced(file, conf)

LEMMA StepTrace == TraceInv /\ [Next]_vars => TraceInv'
<1> SUFFICES ASSUME TraceInv, [Next]_vars PROVE TraceInv'
  OBVIOUS
<1>1. CASE ReadFile
  <2>1. PICK l \in Lines : file' = Append(file, l) /\ conf' = ReadLine(conf, l)
    BY <1>1 DEF ReadFile
  <2>2. l \in Line /\ file' \in Seq(Line)
    BY <2>1, StartupAssumption, Appended DEF TraceInv
  <2>3. Traced(file', conf')
    BY <2>1, <2>2, TracedLine DEF TraceInv
  <2> QED BY <2>2, <2>3 DEF TraceInv
<1>2. CASE xlab_async_init
  <2>1. file' = <<>> /\ conf' = NoLines
    BY <1>2 DEF xlab_async_init
  <2> QED BY <2>1, NothingTraced, EmptySeq DEF TraceInv
<1>3. CASE ~ReadFile /\ ~xlab_async_init
  <2>1. file' = file /\ conf' = conf
    BY <1>3 DEF Next, Main, SomeWorker, Worker, Configure, ConfigureWithout,
                Configured, Crash, xlab_trans_udp_init, xlab_socket_server,
                NoEpoll, NoThread, Thread, Epoll, xlab_sched_launch_thread,
                Launched, Barrier, RegisterLock, RegisterNode, RegisterNext,
                AddUdp, AddEventFd, LoopEntered, Go, vars, env, fileVars
  <2> QED BY <2>1 DEF TraceInv
<1> QED BY <1>1, <1>2, <1>3

LEMMA StepInvented ==
    TraceInv /\ NothingInvented /\ [Next]_vars => NothingInvented'
<1> SUFFICES ASSUME TraceInv, NothingInvented, [Next]_vars,
                    main' = "async", "file" \notin failed'
             PROVE  NothingInvented'
  BY DEF NothingInvented
<1>1. CASE Configure
  <2>1. /\ ~Crashes(conf) /\ file' = file
        /\ config' = xlab_config_read_files(conf, limit)
    BY <1>1 DEF Configure, Configured, fileVars
  <2> QED BY <2>1, ReadTraced DEF NothingInvented, TraceInv
<1>2. CASE ConfigureWithout
  BY <1>2 DEF ConfigureWithout
<1>3. CASE ~Configure /\ ~ConfigureWithout
  <2>1. main' = main /\ file' = file /\ config' = config /\ failed' = failed
    BY <1>3 DEF Next, Main, SomeWorker, Worker, ReadFile, Crash, xlab_async_init,
                xlab_trans_udp_init, xlab_socket_server,
                NoEpoll, NoThread, Thread, Epoll, xlab_sched_launch_thread,
                Launched, Barrier, RegisterLock, RegisterNode, RegisterNext,
                AddUdp, AddEventFd, LoopEntered, Go, vars, env, fileVars,
                mainVars
  <2> QED BY <2>1 DEF NothingInvented
<1> QED BY <1>1, <1>2, <1>3

LEMMA StepExplained ==
    TraceInv /\ CrashesExplained /\ [Next]_vars => CrashesExplained'
<1> SUFFICES ASSUME TraceInv, CrashesExplained, [Next]_vars,
                    main' \in {"async", "crashed"}
             PROVE  CrashesExplained'
  BY DEF CrashesExplained
<1>1. CASE Configure
  <2>1. main' = "async" /\ ~Crashes(conf) /\ file' = file
    BY <1>1 DEF Configure, Configured, fileVars
  <2> QED BY <2>1, ReadTraced DEF CrashesExplained, TraceInv
<1>2. CASE Crash
  <2>1. main' = "crashed" /\ Crashes(conf) /\ file' = file
    BY <1>2 DEF Crash, env, fileVars
  <2> QED BY <2>1, ReadTraced DEF CrashesExplained, TraceInv, HasBare
<1>3. CASE ConfigureWithout
  <2>1. main' = "async" /\ "file" \in failed'
    BY <1>3 DEF ConfigureWithout, Configured
  <2> QED BY <2>1 DEF CrashesExplained
<1>4. CASE ~Configure /\ ~Crash /\ ~ConfigureWithout
  <2>1. main' = main /\ file' = file /\ failed' = failed
    BY <1>4 DEF Next, Main, SomeWorker, Worker, ReadFile, xlab_async_init,
                xlab_trans_udp_init, xlab_socket_server,
                NoEpoll, NoThread, Thread, Epoll, xlab_sched_launch_thread,
                Launched, Barrier, RegisterLock, RegisterNode, RegisterNext,
                AddUdp, AddEventFd, LoopEntered, Go, vars, env, fileVars,
                mainVars
  <2> QED BY <2>1 DEF CrashesExplained
<1> QED BY <1>1, <1>2, <1>3, <1>4

(***************************************************************************)
(* However broken raifull.conf is, xlab_config.c makes up no setting: what *)
(* is not the default comes from a line of the server's own section.       *)
(***************************************************************************)
THEOREM BrokenFilesInventNothing == Spec => []NothingInvented
<1>1. Init => TraceInv /\ NothingInvented
  BY NothingTraced, EmptySeq DEF Init, TraceInv, NothingInvented
<1> QED BY <1>1, StepTrace, StepInvented, PTL DEF Spec

(***************************************************************************)
(* The files, of any length and order, that xlab_config.c crashes on are   *)
(* among those without a section of the server, with a key without a       *)
(* value, or with a line that stands before every header; and no file that *)
(* it accepts lacks the section or has a key before every header.          *)
(***************************************************************************)
THEOREM BrokenFilesCrash == Spec => []CrashesExplained
<1>1. Init => TraceInv /\ CrashesExplained
  BY NothingTraced, EmptySeq DEF Init, TraceInv, CrashesExplained
<1> QED BY <1>1, StepTrace, StepExplained, PTL DEF Spec
=============================================================================
