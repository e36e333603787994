----------------------------- MODULE AsyncTable -----------------------------
(***************************************************************************)
(* The asynchronous task table of xlab_async.c: a fixed array of slots,    *)
(* one mutex, one condition variable, one eventfd and the background       *)
(* hardware thread that executes the blocking handlers.                    *)
(*                                                                         *)
(* The epoll worker submits tasks into the table (xlab_async_submit) and   *)
(* empties it (xlab_async_flush_completed); those two belong to the        *)
(* worker's control flow and are composed with it in module Gateway.  This *)
(* module holds the shared state, the hardware thread and the operators    *)
(* the worker applies to the table.                                        *)
(***************************************************************************)
EXTENDS Integers

CONSTANTS
    Depth,     \* XLAB_ASYNC_QUEUE_DEPTH, 512 in the code
    Fds        \* the file descriptors client sockets can get

ASSUME DepthAssumption == Depth \in Nat \ {0}

Slots == 1 .. Depth

VARIABLES
    g_async_queue,   \* the table: one task or Free in every slot
    g_async_mutex,   \* who holds the mutex: "none", "hw" or "worker"
    g_event_fd,      \* the counter of the eventfd is not zero
    hw               \* where the hardware thread is

asyncVars == <<g_async_queue, g_async_mutex, g_event_fd, hw>>

(***************************************************************************)
(* valid = 0 is the slot Free; valid = 1 with completed = 0 or 1 is a task *)
(* that is "ready" or "done".  cs stands for target_cs: the identity of    *)
(* the session the pointer was taken from.  Two fields are history only:   *)
(* org is the connection whose client sent the request, and fresh says     *)
(* that no flush has looked at the task since it completed.  Command,      *)
(* parameters and result are left out: no property depends on them.        *)
(***************************************************************************)
Free == [st |-> "free"]

Task == [st : {"ready", "done"}, fd : Fds, seq : Nat, cs : Nat, org : Nat,
         fresh : BOOLEAN]

Occupied(i) == g_async_queue[i].st # "free"

AsyncTypeOK ==
    /\ g_async_queue \in [Slots -> Task \cup {Free}]
    /\ g_async_mutex \in {"none", "hw", "worker"}
    /\ g_event_fd \in BOOLEAN
    /\ hw \in {"lock", "wait", "run", "notify"}

(* xlab_async_init: the table is zeroed, the eventfd counter is zero and   *)
(* the hardware thread starts at its lock.                                 *)
AsyncInit ==
    /\ g_async_queue = [i \in Slots |-> Free]
    /\ g_async_mutex = "none"
    /\ g_event_fd = FALSE
    /\ hw = "lock"

-----------------------------------------------------------------------------
(* The hardware thread, xlab_async_worker_loop.                            *)

HasTask == \E i \in Slots : g_async_queue[i].st = "ready"

(* Take the mutex and look for a task.  With one, the thread keeps the     *)
(* mutex and executes it; without one, pthread_cond_wait releases it.      *)
HwLock ==
    /\ hw = "lock"
    /\ g_async_mutex = "none"
    /\ IF HasTask
         THEN hw' = "run" /\ g_async_mutex' = "hw"
         ELSE hw' = "wait" /\ UNCHANGED g_async_mutex
    /\ UNCHANGED <<g_async_queue, g_event_fd>>

(* Mutant of HwRun: the tasks are completed but nobody is told. *)
HwRunUntold ==
    /\ hw = "run"
    /\ g_async_queue' =
         [i \in Slots |->
            IF g_async_queue[i].st = "ready"
              THEN [g_async_queue[i] EXCEPT !.st = "done", !.fresh = TRUE]
              ELSE g_async_queue[i]]
    /\ g_async_mutex' = "none"
    /\ hw' = "lock"
    /\ UNCHANGED g_event_fd

(* Execute every ready task and unlock.  The handlers run one after the    *)
(* other, but the mutex is held throughout: nobody sees the table between  *)
(* two of them.                                                            *)
HwRun ==
    /\ hw = "run"
    /\ g_async_queue' =
         [i \in Slots |->
            IF g_async_queue[i].st = "ready"
              THEN [g_async_queue[i] EXCEPT !.st = "done", !.fresh = TRUE]
              ELSE g_async_queue[i]]
    /\ g_async_mutex' = "none"
    /\ hw' = "notify"
    /\ UNCHANGED g_event_fd

(* Add one to the eventfd, after the unlock. *)
HwNotify ==
    /\ hw = "notify"
    /\ g_event_fd' = TRUE
    /\ hw' = "lock"
    /\ UNCHANGED <<g_async_queue, g_async_mutex>>

(* pthread_cond_wait may also return without a signal. *)
HwWake ==
    /\ hw = "wait"
    /\ hw' = "lock"
    /\ UNCHANGED <<g_async_queue, g_async_mutex, g_event_fd>>

HwStep == HwLock \/ HwRun \/ HwNotify

-----------------------------------------------------------------------------
(* What the epoll worker does to the table.                                *)

TableFull == \A i \in Slots : Occupied(i)

(* Mutant of xlab_async_submit: a completed task counts as a free slot. *)
SubmitOverDone(socket, session, connection, number) ==
    /\ \E i \in Slots :
         /\ g_async_queue[i].st # "ready"
         /\ \A j \in 1 .. i - 1 : g_async_queue[j].st = "ready"
         /\ g_async_queue' = [g_async_queue EXCEPT ![i] =
              [st |-> "ready", fd |-> socket, seq |-> number,
               cs |-> session, org |-> connection, fresh |-> FALSE]]
    /\ hw' = IF hw = "wait" THEN "lock" ELSE hw
    /\ UNCHANGED <<g_async_mutex, g_event_fd>>

(* Mutant of xlab_async_submit: target_cs is not set. *)
SubmitNoTarget(socket, session, connection, number) ==
    /\ \E i \in Slots :
         /\ ~Occupied(i)
         /\ \A j \in 1 .. i - 1 : Occupied(j)
         /\ g_async_queue' = [g_async_queue EXCEPT ![i] =
              [st |-> "ready", fd |-> socket, seq |-> number,
               cs |-> 0, org |-> connection, fresh |-> FALSE]]
    /\ hw' = IF hw = "wait" THEN "lock" ELSE hw
    /\ UNCHANGED <<g_async_mutex, g_event_fd>>

(* xlab_async_submit once it has the mutex and a slot is free: the task    *)
(* goes into the first free slot and the condition is signalled.           *)
xlab_async_submit(socket, session, connection, number) ==
    /\ \E i \in Slots :
         /\ ~Occupied(i)
         /\ \A j \in 1 .. i - 1 : Occupied(j)
         /\ g_async_queue' = [g_async_queue EXCEPT ![i] =
              [st |-> "ready", fd |-> socket, seq |-> number,
               cs |-> session, org |-> connection, fresh |-> FALSE]]
    /\ hw' = IF hw = "wait" THEN "lock" ELSE hw
    /\ UNCHANGED <<g_async_mutex, g_event_fd>>

(* The flush leaves the task of slot i in the table or frees the slot.     *)
LeaveTask(i) ==
    g_async_queue' = [g_async_queue EXCEPT ![i] =
        IF @.st = "free" THEN @ ELSE [@ EXCEPT !.fresh = FALSE]]

FreeTask(i) == g_async_queue' = [g_async_queue EXCEPT ![i] = Free]
=============================================================================
