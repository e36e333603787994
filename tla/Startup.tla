------------------------------ MODULE Startup --------------------------------
(***************************************************************************)
(* The start of the gateway: main (xlab_epoll_demo.c) reads the            *)
(* configuration, creates the hardware thread, the sockets and the worker  *)
(* threads, waits until all workers are ready and goes on to accept.  The  *)
(* results of most of its calls are ignored.  A worker takes its node of   *)
(* sched_list and prepares its epoll instance.  What happens afterwards is *)
(* in Scheduler and Gateway.                                               *)
(***************************************************************************)
EXTENDS ConfigFile

CONSTANTS
    Lines,      \* what raifull.conf is written with
    MaxLines,   \* bound: lines in the file
    Limits      \* values of RLIMIT_NOFILE

ASSUME StartupAssumption ==
    /\ Lines \subseteq Line
    /\ MaxLines \in Nat
    /\ Limits \subseteq Nat
    /\ \A n \in Limits : n >= 3

VARIABLES
    main,         \* what main does next
    limit,        \* RLIMIT_NOFILE
    file,         \* the lines of raifull.conf read so far
    conf,         \* what the parser has made of them
    config,
    fds,          \* descriptors in use
    hw,           \* there is a hardware thread
    udp_fd,       \* the UDP socket is open
    listening,    \* server_fd is a listening socket
    launched,     \* calls of xlab_sched_launch_thread
    thread,       \* per worker thread: what it does next
    mutex,        \* mutex_sched_init: the thread that holds it, or 0
    wid,          \* of xlab_sched_register_thread: the next free node
    sl,           \* per thread: its node
    epoll_fd,     \* per node: the thread whose epoll instance it has, or 0
    initialized,  \* per node
    watch,        \* per thread: what its epoll instance polls
    failed        \* history: which calls have failed

fileVars == <<file, conf>>
env == <<limit, fileVars, config>>
mainVars == <<main, fds, hw, udp_fd, listening, launched, failed>>
nodeVars == <<mutex, wid, sl, epoll_fd, initialized, watch>>
vars == <<env, mainVars, thread, nodeVars>>

Threads == 1 .. config.workers
Nodes == 0 .. config.workers - 1

Ready == \A i \in Nodes : initialized[i]

(* xlab_mem_malloc_z, and the three standard descriptors.                  *)
Init ==
    /\ main = "configure"
    /\ limit \in Limits
    /\ file = <<>> /\ conf = NoLines
    /\ config = ConfigOf(0, 0, 0, 0)
    /\ fds = 3
    /\ hw = FALSE /\ udp_fd = FALSE /\ listening = FALSE
    /\ launched = 0
    /\ thread = <<>> /\ mutex = 0 /\ wid = 0 /\ sl = <<>>
    /\ epoll_fd = <<>> /\ initialized = <<>> /\ watch = <<>>
    /\ failed = {}

-----------------------------------------------------------------------------
(* main                                                                    *)

(* The loop of xlab_config_create.                                         *)
ReadFile ==
    /\ main = "configure"
    /\ Len(file) < MaxLines
    /\ \E line \in Lines :
         /\ file' = Append(file, line)
         /\ conf' = ReadLine(conf, line)
    /\ UNCHANGED <<limit, config, mainVars, thread, nodeVars>>

(* The rest of xlab_config_start_configure, and xlab_sched_init, which     *)
(* allocates a node per worker.                                            *)
Configured(settings) ==
    /\ main = "configure"
    /\ main' = "async"
    /\ config' = settings
    /\ thread' = [t \in Threads' |-> "none"]
    /\ sl' = [t \in Threads' |-> 0]
    /\ watch' = [t \in Threads' |-> {}]
    /\ epoll_fd' = [i \in Nodes' |-> 0]
    /\ initialized' = [i \in Nodes' |-> FALSE]
    /\ UNCHANGED <<limit, fileVars, fds, hw, udp_fd, listening, launched,
                   mutex, wid>>

Configure ==
    /\ ~Crashes(conf)
    /\ Configured(xlab_config_read_files(conf, limit))
    /\ UNCHANGED failed

(* No directory, or no file.                                               *)
ConfigureWithout ==
    /\ file = <<>>
    /\ Configured(NotRead)
    /\ failed' = failed \cup {"file"}

Crash ==
    /\ main = "configure"
    /\ Crashes(conf)
    /\ main' = "crashed"
    /\ UNCHANGED <<env, fds, hw, udp_fd, listening, launched, thread,
                   nodeVars, failed>>

(* The eventfd, then the hardware thread; main looks at the eventfd only.  *)
(* The file is not looked at again.                                        *)
xlab_async_init ==
    /\ main = "async"
    /\ file' = <<>> /\ conf' = NoLines
    /\ \/ /\ fds >= limit
          /\ main' = "exited"
          /\ UNCHANGED <<fds, hw, failed>>
       \/ /\ fds < limit
          /\ main' = "udp"
          /\ fds' = fds + 1
          /\ \/ hw' = TRUE /\ UNCHANGED failed
             \/ failed' = failed \cup {"hardware"} /\ UNCHANGED hw
    /\ UNCHANGED <<limit, config, udp_fd, listening, launched, thread,
                   nodeVars>>

(* A socket that can not be bound is closed; main goes on without.         *)
xlab_trans_udp_init ==
    /\ main = "udp"
    /\ main' = "listen"
    /\ \/ fds < limit /\ fds' = fds + 1 /\ udp_fd' = TRUE /\ UNCHANGED failed
       \/ failed' = failed \cup {"udp"} /\ UNCHANGED <<fds, udp_fd>>
    /\ UNCHANGED <<env, hw, listening, launched, thread, nodeVars>>

(* A socket that can not be bound is left open, and main goes on.          *)
xlab_socket_server ==
    /\ main = "listen"
    /\ \/ /\ fds < limit
          /\ fds' = fds + 1
          /\ \/ main' = "launch" /\ listening' = TRUE /\ UNCHANGED failed
             \/ main' = "launch" /\ failed' = failed \cup {"listen"}
                /\ UNCHANGED listening
             \/ main' = "exited" /\ failed' = failed \cup {"setsockopt"}
                /\ UNCHANGED listening
       \/ /\ main' = "launch"
          /\ failed' = failed \cup {"listen"}
          /\ UNCHANGED <<fds, listening>>
    /\ UNCHANGED <<env, hw, udp_fd, launched, thread, nodeVars>>

(* xlab_server_launch_workers: another round of the loop.                  *)
xlab_sched_launch_thread ==
    /\ main = "launch"
    /\ launched < config.workers
    /\ launched' = launched + 1
    /\ UNCHANGED <<env, main, hw, udp_fd, listening, nodeVars>>

NoEpoll ==
    /\ xlab_sched_launch_thread
    /\ config.worker_capacity <= 0 \/ fds >= limit
    /\ UNCHANGED <<fds, thread, failed>>

(* Mutant of Epoll: epoll_create1, which takes any capacity.               *)
EpollOfAnySize ==
    /\ xlab_sched_launch_thread
    /\ fds < limit
    /\ fds' = fds + 1

Epoll ==
    /\ xlab_sched_launch_thread
    /\ config.worker_capacity > 0 /\ fds < limit
    /\ fds' = fds + 1

NoThread == Epoll /\ failed' = failed \cup {"worker"} /\ UNCHANGED thread

Thread ==
    /\ Epoll
    /\ thread' = [thread EXCEPT ![launched + 1] = "lock"]
    /\ UNCHANGED failed

Launched ==
    /\ main = "launch"
    /\ launched = config.workers
    /\ main' = "barrier"
    /\ UNCHANGED <<env, fds, hw, udp_fd, listening, launched, thread,
                   nodeVars, failed>>

(* The barrier, which is polled under the mutex of initialized.            *)
Barrier ==
    /\ main = "barrier"
    /\ Ready
    /\ main' = "serve"
    /\ UNCHANGED <<env, fds, hw, udp_fd, listening, launched, thread,
                   nodeVars, failed>>

Main ==
    \/ ReadFile \/ Configure \/ ConfigureWithout \/ Crash
    \/ xlab_async_init \/ xlab_trans_udp_init \/ xlab_socket_server
    \/ NoEpoll \/ NoThread \/ Thread \/ Launched \/ Barrier

-----------------------------------------------------------------------------
(* A worker thread: xlab_sched_launch_worker_loop.                         *)

Go(t, from, to) ==
    /\ thread[t] = from
    /\ thread' = [thread EXCEPT ![t] = to]
    /\ UNCHANGED <<env, mainVars>>

(* xlab_sched_register_thread.                                             *)
RegisterLock(t) ==
    /\ Go(t, "lock", "node")
    /\ mutex = 0
    /\ mutex' = t
    /\ UNCHANGED <<wid, sl, epoll_fd, initialized, watch>>

RegisterNode(t) ==
    /\ Go(t, "node", "next")
    /\ sl' = [sl EXCEPT ![t] = wid]
    /\ UNCHANGED <<mutex, wid, epoll_fd, initialized, watch>>

(* Mutant of RegisterNext: the worker counts as ready from here on.        *)
RegisterReady(t) ==
    /\ Go(t, "next", "udp")
    /\ epoll_fd' = [epoll_fd EXCEPT ![sl[t]] = t]
    /\ initialized' = [initialized EXCEPT ![sl[t]] = TRUE]
    /\ sl' = [sl EXCEPT ![t] = wid]
    /\ wid' = wid + 1
    /\ mutex' = 0
    /\ UNCHANGED watch

(* Mutant of RegisterNext: the mutex is kept.                              *)
RegisterKeepsMutex(t) ==
    /\ Go(t, "next", "udp")
    /\ epoll_fd' = [epoll_fd EXCEPT ![sl[t]] = t]
    /\ sl' = [sl EXCEPT ![t] = wid]
    /\ wid' = wid + 1
    /\ UNCHANGED <<mutex, initialized, watch>>

(* The node gets the epoll instance and the number, the worker the node    *)
(* with that number.                                                       *)
RegisterNext(t) ==
    /\ Go(t, "next", "udp")
    /\ epoll_fd' = [epoll_fd EXCEPT ![sl[t]] = t]
    /\ sl' = [sl EXCEPT ![t] = wid]
    /\ wid' = wid + 1
    /\ mutex' = 0
    /\ UNCHANGED <<initialized, watch>>

Watch(t, fd) ==
    /\ watch' = [watch EXCEPT ![epoll_fd[sl[t]]] = @ \cup {fd}]
    /\ UNCHANGED <<mutex, wid, sl, epoll_fd, initialized>>

AddUdp(t) ==
    /\ Go(t, "udp", "efd")
    /\ IF udp_fd THEN Watch(t, "udp") ELSE UNCHANGED nodeVars

AddEventFd(t) ==
    /\ Go(t, "efd", "init")
    /\ Watch(t, "efd")

(* The beginning of xlab_epoll_init.                                       *)
LoopEntered(t) ==
    /\ Go(t, "init", "loop")
    /\ initialized' = [initialized EXCEPT ![sl[t]] = TRUE]
    /\ UNCHANGED <<mutex, wid, sl, epoll_fd, watch>>

Worker(t) ==
    \/ RegisterLock(t) \/ RegisterNode(t) \/ RegisterNext(t)
    \/ AddUdp(t) \/ AddEventFd(t) \/ LoopEntered(t)

SomeWorker == \E t \in Threads : Worker(t)

Next == Main \/ SomeWorker

(* The threads run.  A worker waits for nothing but the mutex, and main    *)
(* for nothing but the workers, so one condition for all workers will do.  *)
Spec == Init /\ [][Next]_vars /\ WF_vars(Main) /\ WF_vars(SomeWorker)
-----------------------------------------------------------------------------
TypeOK ==
    /\ main \in {"configure", "async", "udp", "listen", "launch", "barrier",
                 "serve", "crashed", "exited"}
    /\ limit \in Limits
    /\ config.workers \in Shorts \cup {0}
    /\ config.worker_capacity \in Int
    /\ main \notin {"configure", "crashed"} =>
         /\ config.serverport \in Ports
         /\ config.workers > 0
         /\ config.max_request_size \in Nat \ {0}
    /\ fds \in 3 .. limit
    /\ hw \in BOOLEAN /\ udp_fd \in BOOLEAN /\ listening \in BOOLEAN
    /\ launched \in 0 .. config.workers
    /\ thread \in [Threads -> {"none", "lock", "node", "next", "udp", "efd",
                               "init", "loop"}]
    /\ mutex \in Threads \cup {0}
    /\ wid \in 0 .. config.workers
    /\ sl \in [Threads -> Nodes]
    /\ epoll_fd \in [Nodes -> Threads \cup {0}]
    /\ initialized \in [Nodes -> BOOLEAN]
    /\ watch \in [Threads -> SUBSET {"udp", "efd"}]
    /\ failed \subseteq {"file", "hardware", "udp", "listen", "setsockopt", "worker"}

(***************************************************************************)
(* What is configured is what a well-formed file says: the gateway does    *)
(* not crash on it, and every setting has the first usable value given for *)
(* it in the server's section (xlab_config.c).                             *)
(***************************************************************************)
ConfigFaithful ==
    main \in {"async", "crashed"} /\ WellFormed(file) =>
        /\ main = "async"
        /\ config.serverport =
             Meant(file, "Port", Ports, XLAB_DEFAULT_SERVER_PORT)
        /\ config.workers =
             Meant(file, "Workers", Shorts, XLAB_WORKERS_DEFAULT)
        /\ config.max_request_size =
             Meant(file, "MaxRequestSize", Nat \ {0}, 32) * 1024

(***************************************************************************)
(* A broken file may lose a setting but never makes one up: what is        *)
(* configured is the default or a number that some line of the server's    *)
(* own section gives for that very key, however the lines are indented and *)
(* whatever stands before, between and behind them (xlab_config.c cuts the *)
(* key out behind the indentation of the first line and goes on after      *)
(* every error).                                                           *)
(***************************************************************************)
NothingInvented ==
    main = "async" /\ "file" \notin failed =>
        /\ config.serverport \in
             {XLAB_DEFAULT_SERVER_PORT} \cup Values(file, "Port")
        /\ config.workers \in
             {XLAB_WORKERS_DEFAULT} \cup {ToShort(n) : n \in Values(file, "Workers")}
        /\ config.max_request_size \in
             {DefaultRequestSize}
               \cup {n * 1024 : n \in Values(file, "MaxRequestSize")}

(***************************************************************************)
(* Which broken files crash the start.  One crashes only if it has no      *)
(* section of the server, a key without a value, or a line before the      *)
(* first header that is not a comment in the first column: a wrong         *)
(* indentation, an unknown key or an absurd number never crashes it.  And  *)
(* one that is accepted has the section and no key before the first header *)
(* (xlab_config_entry_add writes such a key over the list of sections).    *)
(***************************************************************************)
CrashesExplained ==
    /\ main = "crashed" =>
         \/ Servers(file) = {}
         \/ \E i \in 1 .. Len(file) : file[i].kind = "bare"
         \/ Orphans(file, {"entry", "note"}) # {}
    /\ main = "async" /\ "file" \notin failed =>
         Servers(file) # {} /\ Orphans(file, {"entry", "bare"}) = {}

(***************************************************************************)
(* No client before every worker is complete: when main accepts, every     *)
(* node belongs to a thread of its own, which is in its event loop and     *)
(* polls the eventfd of the task table and the UDP socket, if there is one *)
(* (xlab_epoll_demo.c, the barrier).  This holds whatever has failed.      *)
(***************************************************************************)
WorkersComplete ==
    main = "serve" =>
        /\ \A i \in Nodes :
             /\ epoll_fd[i] \in Threads
             /\ thread[epoll_fd[i]] = "loop"
             /\ watch[epoll_fd[i]] =
                  {"efd"} \cup IF udp_fd THEN {"udp"} ELSE {}
        /\ \A i, j \in Nodes : i # j => epoll_fd[i] # epoll_fd[j]

(***************************************************************************)
(* A gateway that is full still has a descriptor for the connection it     *)
(* refuses: what the start has used, the clients of all workers and one    *)
(* more are within the limit (xlab_server_worker_capacity).                *)
(***************************************************************************)
DescriptorBudget ==
    main = "serve" =>
        fds + config.workers * config.worker_capacity + 1 <= limit

(***************************************************************************)
(* Nobody serves with a worker that is missing or can not take a client:   *)
(* when main accepts, every thread was created and there are records, so   *)
(* the file was read, although main looks at none of these results.  A     *)
(* gateway that has failed so waits at the barrier (xlab_config_read_files *)
(* returns early, and epoll_create refuses the size that is left at zero). *)
(***************************************************************************)
NoneServesUnprepared ==
    main = "serve" =>
        config.worker_capacity > 0 /\ failed \cap {"file", "worker"} = {}

(***************************************************************************)
(* With a configuration file and descriptors for one client per worker the *)
(* gateway comes to accept connections, unless a worker thread or the      *)
(* listening socket could not be had.  It does so without the UDP socket   *)
(* and without the hardware thread, too.                                   *)
(***************************************************************************)
BootsWithRoom ==
    (main = "async" /\ "file" \notin failed /\ limit >= 7 + 3 * config.workers)
        ~> \/ main = "serve" /\ listening
           \/ failed \cap {"worker", "listen", "setsockopt"} # {}
=============================================================================
