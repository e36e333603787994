----------------------------- MODULE Scheduler -----------------------------
(***************************************************************************)
(* The distribution of connections over the epoll workers: the main thread *)
(* (start-up barrier of main, accept loop of xlab_server.c, _next_target   *)
(* and xlab_sched_add_client) and, in every worker thread, the connection  *)
(* records of xlab_scheduler.c.  No lock protects the two counters of a    *)
(* worker: accepted_connections is written by the main thread,             *)
(* closed_connections by the worker, and both are read by the main thread. *)
(*                                                                         *)
(* What is exchanged over a connection is left out: here a worker may      *)
(* close a registered connection at any time.                              *)
(***************************************************************************)
EXTENDS Integers, FiniteSets

CONSTANTS
    Fds,         \* descriptors accept can return
    Workers,     \* config->workers
    Capacity,    \* config->worker_capacity: connection records of a worker
    Huge,        \* an unsigned difference below zero: about 2^64
    None,        \* no owner: the descriptor is closed; no descriptor
    Listener,    \* a descriptor in the hands of the main thread
    MaxAccept    \* bound: connections given to a worker

ASSUME SchedulerAssumption ==
    /\ IsFiniteSet(Fds)
    /\ Workers \in Nat \ {0}
    /\ Capacity \in Nat \ {0}
    /\ Huge \in Nat /\ Huge > Capacity /\ Huge > MaxAccept
    /\ MaxAccept \in Nat
    /\ None \notin 0 .. Workers - 1
    /\ Listener \notin 0 .. Workers - 1
    /\ None # Listener
    /\ None \notin Fds

Wids == 0 .. Workers - 1

VARIABLES
    initialized,            \* per worker: its lists exist and its loop runs
    accepted_connections,   \* per worker
    closed_connections,     \* per worker
    available,              \* per worker: the length of av_queue
    busy,                   \* per worker: the sockets of the records in busy_queue
    closing,                \* per worker: the descriptor it has closed and whose
                            \* record it has not put back yet; at most one
    owner,                  \* per fd: None, Listener or the worker that polls it
    pc,                     \* where the main thread is
    remote_fd,              \* the connection the main thread places
    target, cur,            \* _next_target: the best worker so far, its load
    next                    \* _next_target: the worker read next

mainVars == <<pc, remote_fd, target, cur, next>>
countVars == <<accepted_connections, closed_connections>>
recordVars == <<available, busy, closing>>
vars == <<initialized, countVars, recordVars, owner, mainVars>>

TypeOK ==
    /\ initialized \in [Wids -> BOOLEAN]
    /\ accepted_connections \in [Wids -> Nat]
    /\ closed_connections \in [Wids -> Nat]
    /\ available \in [Wids -> Int]
    /\ busy \in [Wids -> SUBSET Fds]
    /\ closing \in [Wids -> SUBSET Fds]
    /\ owner \in [Fds -> {None, Listener} \cup Wids]
    /\ pc \in {"barrier", "accept", "first", "scan", "check", "add", "count"}
    /\ remote_fd \in Fds \cup {None}
    /\ target \in Wids
    /\ cur \in Nat
    /\ next \in 1 .. Workers

Init ==
    /\ initialized = [w \in Wids |-> FALSE]
    /\ accepted_connections = [w \in Wids |-> 0]
    /\ closed_connections = [w \in Wids |-> 0]
    /\ available = [w \in Wids |-> 0]
    /\ busy = [w \in Wids |-> {}]
    /\ closing = [w \in Wids |-> {}]
    /\ owner = [f \in Fds |-> None]
    /\ pc = "barrier"
    /\ remote_fd = None
    /\ target = 0
    /\ cur = 0
    /\ next = 1

-----------------------------------------------------------------------------
(* The main thread.                                                        *)

(* Mutant of Barrier: one worker that is ready is enough. *)
BarrierForOne ==
    /\ pc = "barrier"
    /\ \E w \in Wids : initialized[w]
    /\ pc' = "accept"
    /\ UNCHANGED <<initialized, countVars, recordVars, owner, remote_fd,
                   target, cur, next>>

(* main waits until every worker has set its flag. *)
Barrier ==
    /\ pc = "barrier"
    /\ \A w \in Wids : initialized[w]
    /\ pc' = "accept"
    /\ UNCHANGED <<initialized, countVars, recordVars, owner, remote_fd,
                   target, cur, next>>

Accept(f) ==
    /\ pc = "accept"
    /\ owner[f] = None
    /\ owner' = [owner EXCEPT ![f] = Listener]
    /\ remote_fd' = f
    /\ pc' = "first"
    /\ UNCHANGED <<initialized, countVars, recordVars, target, cur, next>>

(* accepted_connections - closed_connections, both unsigned. *)
Load(w) ==
    IF accepted_connections[w] < closed_connections[w]
      THEN Huge
      ELSE accepted_connections[w] - closed_connections[w]

(* Back to accept: the local variables are gone. *)
NextClient ==
    /\ pc' = "accept"
    /\ remote_fd' = None
    /\ target' = 0 /\ cur' = 0 /\ next' = 1

(* _next_target reads worker 0, and is done when it has no connection. *)
ReadFirst ==
    /\ pc = "first"
    /\ target' = 0
    /\ cur' = Load(0)
    /\ next' = 1
    /\ pc' = IF Load(0) = 0 THEN "add" ELSE "scan"
    /\ UNCHANGED <<initialized, countVars, recordVars, owner, remote_fd>>

(* Mutant of ReadNext: the scan runs past the last worker. *)
ReadPastEnd ==
    /\ pc = "scan"
    /\ next <= Workers
    /\ UNCHANGED <<target, cur>>
    /\ next' = next + 1
    /\ pc' = "scan"
    /\ UNCHANGED <<initialized, countVars, recordVars, owner, remote_fd>>

(* _next_target reads the other workers one after the other and keeps the  *)
(* least loaded; a worker without connections ends the search.             *)
ReadNext ==
    /\ pc = "scan"
    /\ next < Workers
    /\ IF Load(next) < cur
         THEN target' = next /\ cur' = Load(next)
         ELSE UNCHANGED <<target, cur>>
    /\ next' = next + 1
    /\ pc' = IF Load(next) < cur /\ Load(next) = 0 THEN "check" ELSE "scan"
    /\ UNCHANGED <<initialized, countVars, recordVars, owner, remote_fd>>

ScanDone ==
    /\ pc = "scan"
    /\ next = Workers
    /\ pc' = "check"
    /\ UNCHANGED <<initialized, countVars, recordVars, owner, remote_fd,
                   target, cur, next>>

(* Mutants of CheckCapacity: one connection too many is let in; a client   *)
(* that is refused keeps its socket.                                       *)
CheckOneTooMany ==
    /\ pc = "check"
    /\ IF cur > Capacity
         THEN NextClient /\ owner' = [owner EXCEPT ![remote_fd] = None]
         ELSE pc' = "add" /\ UNCHANGED <<owner, remote_fd, target, cur, next>>
    /\ UNCHANGED <<initialized, countVars, recordVars>>

RefuseAndForget ==
    /\ pc = "check"
    /\ IF cur >= Capacity
         THEN NextClient
         ELSE pc' = "add" /\ UNCHANGED <<remote_fd, target, cur, next>>
    /\ UNCHANGED <<initialized, countVars, recordVars, owner>>

(* The least loaded worker is full: the client is refused, its socket      *)
(* closed.                                                                 *)
CheckCapacity ==
    /\ pc = "check"
    /\ IF cur >= Capacity
         THEN NextClient /\ owner' = [owner EXCEPT ![remote_fd] = None]
         ELSE pc' = "add" /\ UNCHANGED <<owner, remote_fd, target, cur, next>>
    /\ UNCHANGED <<initialized, countVars, recordVars>>

(* From here on the worker sees the connection. *)
EpollAdd ==
    /\ pc = "add"
    /\ accepted_connections[target] < MaxAccept
    /\ owner' = [owner EXCEPT ![remote_fd] = target]
    /\ pc' = "count"
    /\ UNCHANGED <<initialized, countVars, recordVars, remote_fd, target, cur,
                   next>>

(* Mutant of EpollAddFails: the failed connection is counted. *)
CountFailure ==
    /\ pc = "add"
    /\ owner' = [owner EXCEPT ![remote_fd] = None]
    /\ accepted_connections' = [accepted_connections EXCEPT ![target] = @ + 1]
    /\ NextClient
    /\ UNCHANGED <<initialized, closed_connections, recordVars>>

(* epoll_ctl fails: the socket is closed and nothing is counted. *)
EpollAddFails ==
    /\ pc = "add"
    /\ owner' = [owner EXCEPT ![remote_fd] = None]
    /\ NextClient
    /\ UNCHANGED <<initialized, countVars, recordVars>>

Count ==
    /\ pc = "count"
    /\ accepted_connections' = [accepted_connections EXCEPT ![target] = @ + 1]
    /\ NextClient
    /\ UNCHANGED <<initialized, closed_connections, recordVars, owner>>

xlab_sched_add_client ==
    ReadFirst \/ ReadNext \/ ScanDone \/ CheckCapacity
    \/ EpollAdd \/ EpollAddFails \/ Count

Main == Barrier \/ (\E f \in Fds : Accept(f)) \/ xlab_sched_add_client

-----------------------------------------------------------------------------
(* A worker thread.  Its two lists of records are its own.                 *)

(* The lists are made and filled, then the flag the barrier waits for is   *)
(* set and the event loop begins.                                          *)
xlab_sched_register_thread(w) ==
    /\ ~initialized[w]
    /\ available' = [available EXCEPT ![w] = Capacity]
    /\ initialized' = [initialized EXCEPT ![w] = TRUE]
    /\ UNCHANGED <<countVars, busy, closing, owner, mainVars>>

(* The first event of a connection, in xlab_conn_write: the record at the  *)
(* head of av_queue is taken without asking whether there is one.          *)
xlab_sched_register_client(w, f) ==
    /\ initialized[w] /\ closing[w] = {}
    /\ owner[f] = w
    /\ f \notin busy[w]
    /\ available' = [available EXCEPT ![w] = @ - 1]
    /\ busy' = [busy EXCEPT ![w] = @ \cup {f}]
    /\ UNCHANGED <<initialized, countVars, closing, owner, mainVars>>

(* xlab_sched_remove_client closes the descriptor, which accept may return *)
(* at once,                                                                *)
CloseFd(w, f) ==
    /\ initialized[w] /\ closing[w] = {}
    /\ owner[f] = w
    /\ f \in busy[w]
    /\ owner' = [owner EXCEPT ![f] = None]
    /\ closing' = [closing EXCEPT ![w] = {f}]
    /\ UNCHANGED <<initialized, countVars, available, busy, mainVars>>

(* Mutant of ReleaseRecord: the record stays in busy_queue. *)
RecordStaysBusy(w, f) ==
    /\ closing[w] = {f}
    /\ closed_connections' = [closed_connections EXCEPT ![w] = @ + 1]
    /\ closing' = [closing EXCEPT ![w] = {}]
    /\ UNCHANGED <<initialized, accepted_connections, available, busy, owner,
                   mainVars>>

(* and then counts it and puts its record back. *)
ReleaseRecord(w, f) ==
    /\ closing[w] = {f}
    /\ closed_connections' = [closed_connections EXCEPT ![w] = @ + 1]
    /\ available' = [available EXCEPT ![w] = @ + 1]
    /\ busy' = [busy EXCEPT ![w] = @ \ {f}]
    /\ closing' = [closing EXCEPT ![w] = {}]
    /\ UNCHANGED <<initialized, accepted_connections, owner, mainVars>>

Worker(w) ==
    \/ xlab_sched_register_thread(w)
    \/ \E f \in Fds : \/ xlab_sched_register_client(w, f)
                      \/ CloseFd(w, f)
                      \/ ReleaseRecord(w, f)

Next == Main \/ \E w \in Wids : Worker(w)

Spec == Init /\ [][Next]_vars

(* The main thread and the workers keep running.  A worker handles what is *)
(* new and finishes what it closes; connections may stay open for ever.    *)
Serve(w) ==
    \/ xlab_sched_register_thread(w)
    \/ \E f \in Fds : \/ xlab_sched_register_client(w, f)
                      \/ ReleaseRecord(w, f)

FairSpec ==
    /\ Spec
    /\ WF_vars(Barrier)
    /\ WF_vars(xlab_sched_add_client)
    /\ \A w \in Wids : WF_vars(Serve(w))
-----------------------------------------------------------------------------
Clients(w) == {f \in Fds : owner[f] = w}

(***************************************************************************)
(* A worker that registers a connection always has a free record, although *)
(* xlab_sched_register_client never asks: the main thread counts, without  *)
(* a lock, connections the worker is closing at the same time.             *)
(***************************************************************************)
RecordForEveryClient ==
    \A w \in Wids : \A f \in Clients(w) :
        initialized[w] /\ closing[w] = {} /\ f \notin busy[w] =>
            available[w] > 0

(***************************************************************************)
(* The difference of the two counters, but for the connection the main     *)
(* thread has handed over and not counted yet, is the number of            *)
(* connections the worker has or is closing: no close, failed epoll_ctl or *)
(* refusal makes it drift, and _next_target never sees it below zero.      *)
(***************************************************************************)
Uncounted(w) == IF pc = "count" /\ target = w THEN 1 ELSE 0

CountersExact ==
    \A w \in Wids :
        accepted_connections[w] + Uncounted(w) - closed_connections[w]
            = Cardinality(Clients(w)) + Cardinality(closing[w])

(***************************************************************************)
(* No connection is handed to a worker whose lists do not exist yet: the   *)
(* lists are made after the scheduler's lock is released, and only the     *)
(* barrier of main orders them before the first client.                    *)
(***************************************************************************)
NoClientBeforeReady ==
    \A f \in Fds : \A w \in Wids : owner[f] = w => initialized[w]

(***************************************************************************)
(* A record shows a connection the worker polls, except for the one whose  *)
(* descriptor it has just closed: the descriptor may already be back with  *)
(* another worker, or with this one.                                       *)
(***************************************************************************)
RecordsLive ==
    \A w \in Wids : \A f \in busy[w] : owner[f] = w \/ f \in closing[w]

(***************************************************************************)
(* An accepted client is never left in the middle: it gets a worker that   *)
(* registers it, or its socket is closed.                                  *)
(***************************************************************************)
Served ==
    \A f \in Fds :
        owner[f] = Listener ~>
            owner[f] = None \/ \E w \in Wids : f \in busy[w] /\ closing[w] = {}

=============================================================================
