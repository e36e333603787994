# TLA+ verification of the IoT gateway base

This directory holds TLA+ models of the gateway's C sources (`src/src`,
`src/include`), the TLC configurations that check them on small instances, and
TLAPS proofs of the properties that matter most, for every value of the
constants. The code is the reference: definitions carry the names of the
functions they are translated from, and `PROJECT.json` maps each of them to its
lines.

## The system

The gateway accepts TCP connections from devices, finds command frames in what
they send, executes the commands and answers. Its threads:

- **main** starts everything, waits until every worker is ready, then accepts
  connections and gives each one to the least loaded worker;
- **worker** (1 in the shipped `raifull.conf`) runs an epoll loop over its
  connections, the eventfd of the task table and the UDP/UART descriptors;
- **hardware thread** executes the commands marked as blocking.

| Component | State | Operations | Correct when |
|---|---|---|---|
| Task table (`xlab_async.c`) | 512 slots (`valid`, `completed`, fd, seq, `target_cs`), mutex, condition, eventfd | `xlab_async_submit`, `xlab_async_worker_loop`, `xlab_async_flush_completed` | no completion without a wakeup; a task keeps slot and identity until it is freed; it is answered once, in order, to the client that asked |
| Connection handlers (`xlab_connection.c`) | per session: receive buffer, `next_req_seq` | `xlab_conn_read`, `_write`, `_error`, `_close` | every request gets one sequence number and one answer |
| Sessions and response queue (`xlab_request.c`) | list per worker; ring of 64 slots; `resp_seq_expected` | `xlab_session_create/get/remove`, `xlab_handler_write` | queue in request order; the socket is armed for output exactly while something is queued |
| Epoll loop (`xlab_epoll.c`) | the batch of events being dispatched, the mode of each socket | `xlab_epoll_init`, `_add`, `_change_mode` | no event is dispatched to a descriptor that was closed in between |
| Scheduler (`xlab_scheduler.c`) | per worker: two counters, lists of free and used records, `initialized` | `xlab_sched_add_client`, `_register_client`, `_remove_client`, `_register_thread` | a record for every connection let in; counters that never drift |
| Server loop, start-up (`xlab_server.c`, `xlab_epoll_demo.c`) | — | `main`, `xlab_server_loop` | no client before every worker is ready; an accepted client is served or refused |
| Protocol parser (`xlab_proto_parser.c`) | state, buffer position | `xlab_proto_parse_byte` | accepts exactly the frames |
| Router, commands (`xlab_router.c`, `cmd_*.c`) | command table | `xlab_router_register/lookup/process/build_response` | the right handler, or an error frame |
| Transport (`xlab_trans*.c`) | descriptor map, driver table, `last_src` | dispatch, UDP and UART drivers | a datagram's answer goes to its sender |
| Configuration (`xlab_config.c`) | `server_config` | `xlab_config_start_configure` | usable values on every failure path |
| Sockets, strings, lists, memory | none of their own | wrappers | — |

Interaction: main hands a connection to a worker by adding it to the worker's
epoll instance and counting it; the worker's first `EPOLLOUT` on it takes a
connection record, the first input creates a session. A frame of a blocking
command goes into the task table; the hardware thread completes it and adds to
the eventfd; the worker's flush moves the result into the session's response
queue when it is that request's turn, and arms `EPOLLOUT`; the write handler
empties the queue. A frame of any other command is answered on the spot, past
the queue.

What is hard here: the eventfd protocol between two threads; a turn
(`resp_seq_expected`) moved from two places; tasks that outlive their
connection while descriptors and memory are reused; a batch of events whose
handlers close descriptors; counters read without a lock; sends that are short.
`PROJECT.json` lists these under `hazards`, each at its line.

## Modules

| Module | Models | Uses |
|---|---|---|
| `AsyncTable` | task table, mutex, eventfd, hardware thread | |
| `Gateway` | one worker: epoll loop, handlers, sessions, flush; accept and kernel around it | extends `AsyncTable` |
| `Refusals` | `Gateway` with a history of the frames that were refused | extends `Gateway` |
| `ReplyOrder` | what a client may rely on: an abstract specification, with a theorem about it | |
| `Replies` | the refinement mapping from `Gateway` to `ReplyOrder` | extends `Gateway`, instantiates `ReplyOrder` |
| `GatewayProofs`, `OrderProofs`, `ReplyProofs` | theorems about `Gateway` and `Refusals`; `ReplyProofs`: that `Gateway` implements `ReplyOrder` | |
| `Scheduler` | main thread and the records and counters of the workers | |
| `Admission` | what the scheduler promises: an abstract specification | |
| `Placement` | the refinement mapping from `Scheduler` to `Admission` | extends `Scheduler`, instantiates `Admission` |
| `SchedulerProofs` | theorems about `Scheduler`, and that it implements `Admission` | |
| `FrameScan` | the byte scan of `xlab_conn_read` and the router's decision | |
| `FrameProofs` | theorems about `FrameScan` | |
| `Transport` | the UDP driver and the UDP branch of `xlab_conn_read`, in all workers | |
| `TransportProofs` | theorems about `Transport` | |
| `ConfigFile` | `raifull.conf`, its parser and what becomes of its values | |
| `Startup` | `main` up to the accept loop, and the worker threads up to their event loops | extends `ConfigFile` |
| `StartupProofs` | theorems about `Startup` | |
| `MCGateway`, `MCRefusals`, `MCScheduler`, `MCFrameScan`, `MCTransport`, `MCStartup` | descriptors, commands, streams, devices and lines for TLC | |

### `AsyncTable` and `Gateway`

A slot of `g_async_queue` is `Free` or a task that is `ready` (`valid`, not
`completed`) or `done`. `hw` is the hardware thread's place: at its lock, in
`pthread_cond_wait`, running handlers (with the mutex, as in the code) or about
to write the eventfd. All ready tasks are completed in one step, because the
mutex is held from the first handler to the last.

The worker is a program counter `pc`: in the loop, in a chunk's frames
(`parse`), waiting for the mutex in the flush, or scanning slot `idx`.
`revents` is what is left of the last `epoll_wait`. Each handler is one action,
except where the code blocks or another thread can act in between: parsing goes
frame by frame (a submit waits for the mutex) and the flush drains, locks and
examines one slot at a time.

- *Sessions* are identified by the generation of the descriptor's connection
  that created them. `target_cs` is that identity. A session that is removed is
  freed memory: when `target_cs` no longer is the session in the list, the test
  `cs->socket != t->socket_fd` reads freed memory and may come out either way.
  `FlushDangling` has every effect of using the dead session; that a write into
  freed memory damages something else on the heap is not modelled.
- *Frames* are their kind: `sync`, `block`, `reject` (damaged, cut or unknown:
  answered by an error frame, which takes a sequence number and does not move the
  turn). `block` frames
  carry a legal number of parameters; the asynchronous path does not check it.
- *Kernel*: `epoll_wait` reports any combination of events that the mode
  allows; `SlowKernel` lets a send be short or fail with `EAGAIN`;
  `SpuriousRead` lets a read do so.
- *Answers sent directly* leave the model. Only what is queued is ordered by
  the properties, not that a direct send overtakes a queued answer.
- History: `clean`, `gen`, the fields `org` and `fresh`. They guard nothing but
  the bound on connections.

Left out: the byte level (`FrameScan`), command parameters and results, the UDP
branch (`Transport`), `max_events` smaller than the number of events.

### `Refusals`

`refused` holds, for every descriptor, the numbers of refused frames that the
turn has not passed yet. It is a history variable: it guards nothing, and every
behaviour of `Gateway` is one of `Refusals` with it left out, so the run
`pipeline` checks the properties of `Gateway` on `RSpec`. A refused frame leaves
no other trace, although a blocking request behind it waits until an inline
answer happens to move the turn. That is what the code does, and no property
denies it. `TurnOwned` says that nothing else of the kind can happen: a number
from the turn on belongs to a task that is still in the table, or to a refused
frame. A number lost anywhere between the three places that take one, the two
that move the turn and the slots of the table would be a result that waits for
ever.

### `ReplyOrder` and `Replies`

`ReplyOrder` knows nothing of tasks, slots, wakeups or epoll. A client asks;
each request is refused, answered at once, or worked on; work is finished only
when its turn has not passed, and its answer goes behind the others; answers
leave from the front; a client that leaves takes everything along.

`Replies` maps a descriptor of `Gateway` to a client. `asked` and `turn` are
the session's two counters, `queued` the numbers in its ring, `working` the
numbers of its tasks in the table, in whatever state. The connections that
found something of an earlier one on their descriptor (`clean` is false, the
run `reuse`) map to a client that never asks: for them the promise is not kept.
A flush that frees a slot without answering, a completion, a wakeup are
stuttering steps or the end of a client. `KeepsPromise` is the abstract
specification itself; it is a safety property and promises no answer, which
`Answered` does for clients that wait.

### `Scheduler`

The main thread reads one worker's counters per step, since nothing stops the
workers in between; it then adds the descriptor to the worker's epoll, and
counts it in a later step. A worker's lists are its own, so taking or returning
a record is one step; `close` is a step before the record is returned, because
the descriptor can be accepted again at once. The unsigned difference below
zero is `Huge`. Counters are read and written whole (an aligned 64-bit access;
32-bit targets may tear it, which is not modelled).

### `Admission` and `Placement`

`Admission` is the quota without counters, lists or threads: a worker never has
more connections than records; a client is refused only when every worker has
been full at some time since the client knocked; a worker that was found for it
keeps room for it, and it is lost only if `epoll_ctl` fails. `_next_target` says
that when the least loaded worker is full "the whole server is full"
(`xlab_scheduler.c:51`). At one moment this need not be so, since a worker that
was read early may have closed a connection meanwhile; what the code keeps is
that each worker was full when it was read. `Placement` maps a worker's load to
the records it uses (`Used`, those of connections being closed included), the
search to the places of `_next_target`, and the workers found full to those read
so far, as long as the least load read is no less than the capacity
(`SeenFull`). That last part is the point of the refinement: one number, the
least load, has to stand for a fact about every worker read.

### `FrameScan`

One TCP session below the level of frames: the client's whole `stream`, how
much of it was `read`, the buffer `body` with the local `pos` of the loop. A
step is one round of the loop (one byte skipped, one boot code refused, one
frame handed on). `Gateway` treats the same code with one step per frame; the
two are not connected by a refinement, since `Gateway` knows nothing of where
frames begin.

- A read takes any number of bytes that fits, so every way of cutting the
  stream occurs. The buffer never fills: `Finish` keeps at most one byte
  (`AtMostBootKept`), so the second cause of `ReadEnd`, a read of no bytes into
  a full buffer, is in its guard and never true.
- `Finish` copies with the length cut to a byte, as `memmove` is called.
- `WriteDone` is the one effect of the write handler on the buffer,
  `body_length = 0`. It needs an answer that may have been queued; it may
  happen more often than the code would.
- `RouterAccepts` is `xlab_router_process` up to the handler: registered, with
  a registered number of parameters. A blocking command may also go to the
  hardware thread, without that check; whether the task table takes it is
  `Gateway`'s matter and a choice here.
- History: `out` (what was refused or handed on, and where it stands in the
  stream) and `base` (where the buffer begins in the stream).

The byte of TLC's instance has three bits, which leaves the checksum and the
cut length of `memmove` their wrap-around.

### `Transport`

Every worker polls the one UDP socket and calls the one driver with its one
`last_src`. The state is that of the descriptor *number* (`fd`, `polled`,
`queue`), since the number is all that `g_trans_fds` and the descriptor map
keep: a receive that fails makes the event loop close it, nothing tells the
driver, and a TCP connection may be accepted with it and be served by the UDP
branch. `pc` is a worker's place in its handler.

- `recvfrom` fills `last_src` without a lock. Taking the datagram
  (`RecvDatagram`) and writing each field (`RecvAddress`) are steps of their
  own, so two receives can leave the host of one sender with the port of the
  other. The send reads the address in one step; reading it field by field
  would find the same fields.
- A datagram is a sequence of frames: `intact` (answered), `damaged` (refused)
  or `unknown` (no command, no answer).
- History: `since` (who was received from together with or after the datagram
  in hand), `sent` (the last answer of each worker), `failed`.

Left out: the end of a TCP stream, the connection's record and its first
`EPOLLOUT` (`Gateway`, `Scheduler`), `src_len`, a full descriptor map (main adds
one entry), and the serial driver, which main does not start. The failure of
the driver's start-up is in `Startup`.

### `ConfigFile` and `Startup`

A line of the file is what its first characters make the parser take it for:
blank, a header, an entry with its leading blanks, key and number, a key without
a value, an indented comment. `ReadLine` is one round of the loop of
`xlab_config_create`. The errors it reports are only logged, so everything it
does with a broken file is in the model: the first line that is no header sets
the indentation; a key that is indented differently reads as an empty or cut
one (`unknown`) or as NULL; an entry before any header is written over the list
of sections (`intact`). Looking a setting up crashes on that list, on a missing
section and on a NULL key before the one that is looked for (`Crashes`). What a
file means to its author (`Given`, `Values`, `Meant`, `Orphans`) is defined on
the lines alone, without the parser. `ConfigFaithful` is about well-formed
files; of the others `NothingInvented` says that they can lose a setting and
not make one up, and `CrashesExplained` which of them crash the start. Numbers
go through the conversions of the code: a `short` for the workers, the ranges
and defaults, C's division for the capacity. Left out: lines longer than 254
characters, headers without a closing bracket, numbers that do not fit in an
`int`, and texts (`Listen` is a key like any other, and its value is not kept).

In `Startup`, `main` is the place of the main thread; a call that may fail is
one action with its outcomes, and what the code does with a failure is usually
nothing. `fds` counts descriptors against the limit. `NotRead` is the
configuration when there is no file: the capacity stays 0, `epoll_create(0)`
fails and the barrier waits for ever. `thread` is the place of each worker
thread: it takes its node under `mutex_sched_init` in two steps (the read of
`wid` and its increment), adds the UDP socket and the eventfd to its epoll
instance, and enters its loop, where it counts as initialized. History:
`failed`. The file is forgotten once the configuration has been read. Left out:
failing `malloc`, `epoll_ctl` and `getrlimit`, the command table (filled before
`main`), more addresses than one from `getaddrinfo`, the options of sockets,
and the event loop itself.

## Runs

| Run | Instance | Shows |
|---|---|---|
| `pipeline` | one descriptor, two connections, three frames each of all kinds, table 3, ring 3 (two usable), slow kernel, spurious reads | the safety properties of `Gateway` for clients that pipeline, what a result may wait for (`TurnOwned`), and that it implements `ReplyOrder` |
| `lockstep` | two clients, two requests each, one at a time, `sync` and `block`, spurious reads | `Answered`: liveness of the whole path; what such clients are spared (`WaiterInTurn`, `RoomForAnswers`) |
| `balance` | three workers of capacity 1, four descriptors, two connections per worker | safety of the scheduler, that it implements `Admission` (`KeepsQuota`), and `Served` |
| `frames` | streams of up to three of nine pieces: whole, damaged, unknown and cut frames, boot codes, noise; all chunk lengths; buffer of nine bytes | safety of the scan |
| `halfpackets` | as `frames`, two pieces | a promise of the README that the scan does not keep |
| `datagrams` | two workers, two devices, three datagrams or chunks of one or two frames, receives that fail | safety of the UDP driver and `Drained` |
| `startup` | all files of up to four of thirteen lines, limits of 3 to 40 descriptors, one or three workers, any call may fail | the configuration is what a well-formed file says; what a broken one can do (`NothingInvented`, `CrashesExplained`); nobody is served early or unprepared; the descriptors suffice; `BootsWithRoom` |
| `astray` | as `datagrams`, two datagrams, no failures | the comment at `last_src` |
| `stranded`, `stall`, `reuse`, `rearm` | the smallest instance with the behaviour | a comment of the code that the code does not keep |

Why the bounds are enough. *Depth* 3 with a window of 3 has tasks in front of
and behind the one the flush looks at, and a full table. *RingDepth* 3 fills
and empties. *MaxReq* 3 has a request before and one after any other. *MaxGen*
2 reuses the descriptor with tasks, and a leaked session, left behind.
*Workers* 3 gives `_next_target` a worker before and one after the best one;
*Capacity* 1 with four descriptors makes the gateway full and overfull.
Two *workers*, *devices* and datagrams in `datagrams` make any two receives
overlap; the third input reaches a connection on the closed socket's number.
Three *pieces* put something broken before and behind an intact frame, and a
boot code inside the parameters and the checksum of one; the buffer of nine
bytes is shorter than most streams. Four *lines* are a header, the wrong or
right section, and two entries of which the first decides (the same key twice,
two indentations, a NULL before or behind the key); the *limits* lie on both
sides of every failing call, of the capacity 0, and of one client per worker;
three workers make any two registrations overlap. The safety properties also
hold without any bound, by the proofs.

### What the runs found

- `stranded`: a blocking command, then a synchronous one. The answer to the
  second sets the turn past the first (`xlab_connection.c:191`); the first is
  never answered and its slot never freed while the connection lives.
- `stall`: three blocking commands. The flush frees slot 1, a later request
  takes it, and its predecessor completes in a higher slot. The scan skips slot
  1 (not in turn), then delivers its predecessor, and nothing comes back to
  slot 1 (`xlab_async.c:157`). Without another request it stays there.
- `reuse`: a client leaves while its command runs. The next connection with the
  descriptor starts at turn 0 and is sent the result (`xlab_async.c:147`).
- `rearm`: after a partial `writev` the write handler keeps `EPOLLOUT`, returns
  0, and its caller switches to `EPOLLIN` (`xlab_connection.c:290`).
- `halfpackets`: a frame whose first chunk ends inside it is refused at once and
  its tail is skipped (`xlab_connection.c:141`), while the README promises half
  packets. Only a cut directly behind the boot code is survived.
- `astray`: two workers receive a datagram each, from different devices. The
  second `recvfrom` overwrites `last_src` before the first answer is sent
  (`xlab_trans_udp.c:38`): the answer goes to the wrong device. With one worker,
  as shipped, this does not happen.

Met while modelling, without a run of its own: the asynchronous path runs a
handler with a number of parameters it was not registered for
(`xlab_connection.c:167`); without a configuration file the gateway hangs at the
barrier, although `xlab_config.c:395` speaks of running with defaults; 65538
workers in the file are taken for two.

Hence the preconditions of the properties that hold. `clean[f]` says that
nothing of an earlier connection was left on the descriptor when it was
accepted (what `reuse` is about). `Answered` holds in `lockstep` for clients
that wait for each answer and send no frame that is refused.

Four of the findings have a theorem beside them that says what it takes to meet
them, for every value of the other constants:

| Finding | Needs | Without it | Theorem |
|---|---|---|---|
| `stranded` | two requests open at a time | `NotStranded` | `WaitersNotStranded` |
| `reuse` | a descriptor that is used twice | `OwnResponsesOnly` | `FirstConnectionsOwnAnswers` |
| `rearm` | a send that is short | `QueuedImpliesArmed` | `FastKernelStaysArmed` |
| `astray` | two workers on the UDP socket | `AnswersTheSender` | `OneWorkerAnswersTheSender` |

Their hypotheses are about the clients and the environment (`Window = 1`,
`MaxGen = 1`, `~SlowKernel`, at most one worker), never about the code.

### Fairness

`EpollWait` is fair only when `epoll_wait` has to return (the eventfd counts, a
connection is new, a socket armed for output can take some); the handlers and
the hardware thread run on their own threads and finish, so they are weakly
fair. Input, errors, spurious wakeups and accepts are not fair. In `Scheduler`
the main thread and the workers are weakly fair, except that a client need not
ever connect or leave. In `Transport` each worker is weakly fair (the threads
run, and the handlers do not block: the socket is non-blocking); datagrams,
connections and errors are not. In `Startup` the main thread is weakly fair and
so are the workers together: they run on their own threads and wait for nothing
but the mutex, whose holder can always take its next step.
`BootsWithRoom` excuses a worker thread or a listening socket that could not be
had: the code does not look at either failure and cannot come further.

## Proofs

All by induction over the steps, with these invariants:

- `GatewayProofs`: `TypeOK`; `LockInv` (the mutex is the hardware thread's
  exactly in `run`, the worker's exactly in `flush`); `EventInv`
  (`EventsNotStale` needs to know that a free descriptor waits for nothing);
  `RequestInv` (`OneTaskPerRequest` needs every task of the present session to
  have a number already taken, and no task of a session that does not exist
  yet). `NoLostCompletion` is inductive together with `LockInv`.
- `OrderProofs`: `OrderInv` strengthens the order of the queue with the facts
  that a live session belongs to the present connection, that its queue and
  counters are empty when it is created, that a task of the present session on a
  clean descriptor carries that connection's requests, and that a socket armed
  for output has something queued. `TargetsStayAlive` follows from it. Nothing
  left over can be found by the first connection on a descriptor
  (`FirstConnectionClean`), which turns the precondition `clean` into one on the
  history of the descriptor.
  `WindowInv` counts: the tasks, the queued answers and the frames in hand of a
  clean connection are no more than the client's window, whoever moves one from
  one place to the next; so a ring with more slots than the window has room
  (`NoBusyWithinWindow`). `TurnInv` is for a window of one: a task in the table
  is then the last request made, the turn has not passed it, and without
  refused frames the turn is exactly there (`WaitersInTurn`,
  `WaitersNotStranded`). `ArmedInv` says that without short sends what is queued
  is armed, and that a new connection has no session (`FastKernelStaysArmed`).
  `OwnedInv`, which is `TurnOwned` itself, is inductive for `RSpec` together with
  `OrderInv` (`NobodysTurn`): a task of a live session on a clean descriptor is
  freed only by the step that moves the turn past its number.
- `SchedulerProofs`: `RecordInv` (lists and owners agree), `LoadInv` (what the
  main thread has read is an upper bound of the load of the worker it has
  chosen, because only the main thread adds connections) and
  `CountersExact`, which together give `RecordForEveryClient`. The refinement
  needs `SearchInv` besides: the check comes after the last worker unless one
  was found with no connection. Each step of the main thread and of a worker is
  then a step of `Admission` or a stutter. The step that counts is the reading
  of a load: it is exact at that moment (`LoadTold`), because the main thread
  reads only when all it has let in is counted; and a worker chosen with room
  still has it when `epoll_ctl` comes, because nobody else adds connections.
- `FrameProofs`: `ScanInv` says that the buffer is the part of the stream from
  `base` to what has been read, that every reply ends before the scan's
  position, and, with both, `AtMostBootKept` and `AsSent`. On top of it
  `NothingSwallowed` is inductive by itself; `WholeFramesServed` follows from
  `OnCutInv`: the scan of a buffer made of whole frames always stands where one
  of them begins. The checksum is never expanded: the proofs hold for any.
- `TransportProofs`: `SinceInv` says, of every worker with a datagram in hand,
  that each field of `last_src` which it has already filled comes from a
  datagram of its `since`, and that whoever is about to fill a field belongs to
  `since` too. `AnswersAReader` follows when the answer is sent; its second
  half (an answer to a TCP connection) needs `OpenInv`. With one worker,
  `AloneInv` says that `since` holds the sender of the datagram in hand and no
  other, hence `OneWorkerAnswersTheSender`.
- `ReplyOrder`: `AnsweredOnce` is inductive in the abstract specification
  together with the place of the numbers (what is worked on has been asked, what
  is queued is behind the turn and not worked on).
- `ReplyProofs`: the invariants of `GatewayProofs` and `OrderProofs` at both ends
  of a step suffice for the refinement. One lemma per action gives the step of
  the promise it is: the submit starts work (`OneTaskPerRequest`: the number is
  new), a queued result finishes it, the end of a session is `Leave`; the
  dangling `target_cs` changes nothing of a live client, because a session in
  the list is never freed memory. `RepliesOnce` then follows from
  `OnceInvariant` under the refinement mapping.
- `StartupProofs`: the state of the registration (whose node is whose, how far
  each thread is) is related to the mutex: a thread's node is below `wid` from
  its increment on, and no two threads have the same. `WithinTheLimit`
  bounds the descriptors by place of `main`: six at most before the workers, one
  more per worker. `FilesMeanWhatTheySay` is an induction over the lines of the
  file, which `ReadFile` makes steps: `Parsed` relates the parser's sections to
  the lines read so far (the first section of the server is the first header of
  the server; entries go there as long as that header is the last; for every key
  the first entry the search finds is the first line given). That a set of
  positions has a first member is part of the invariant (`HasFirst`), because
  the sets only grow at their end. For broken files `Traced` does the same with
  less: the sections stand where the headers are, what is found for a key comes
  from a line given for it, a NULL key from a line without a value, and the list
  of sections is lost only to a line before every header. It needs no regular
  line, and takes the first members from the well-foundedness of the numbers
  (`AllHaveFirst`). It gives `BrokenFilesInventNothing` and `BrokenFilesCrash`.
  `MissingInv` says that what was lost stays
  lost (without a file the capacity is 0; no thread is created in the place of
  one that failed), `EnteredInv` that a worker in its loop is counted at the
  barrier; with the state of the registration they give `NoServiceUnprepared`
  and `StartupNotStuck`, the part of `BootsWithRoom` that is safety.

Assumptions: `DepthAssumption`, `GatewayAssumption`, `SchedulerAssumption`,
`ScanAssumption`, `TransportAssumption`, `StartupAssumption`
(positive sizes, a ring of at least two slots, the eventfd is not a client
socket, the stand-in for a wrapped difference is larger than any real one, a
byte has more than two values, the peer of a TCP connection is no UDP source,
the limit of descriptors covers the three standard ones, lines are of the kinds
the parser tells apart).

`Answered`, `Served`, `Drained` and `BootsWithRoom` are liveness properties and
only model-checked. `HalfPackets` has no theorem: what the scan does keep of it
is `WholeFramesServed`. Every other property of a run is stated by a theorem,
those of the findings under the hypotheses above. `HeldUpByWorkers` is proved
only; `BootsWithRoom`, its liveness counterpart, is what the run checks. The run
`lockstep` does not check `QueuedImpliesArmed` on its own, since `Answered` fails
in it as soon as a queue is not armed.

## Plan

1. Several workers on one eventfd: the flush of a worker that does not own the
   session arms `EPOLLOUT` in its own epoll instance.
2. What goes out on the wire: direct sends that overtake queued answers and
   answers cut short, as a history.
3. An abstract specification of the datagram exchange (each datagram answered
   at most once, to a device that was received from meanwhile), and the proof
   that `Transport` implements it.

## Not modelled

`xlab_proto_parse_byte` and `xlab_handler_read`: nothing calls the second, and
only it calls the first. `xlab_config_free`, `xlab_epoll_del`,
`xlab_socket_connect` and the getters nobody uses, for the same reason. The UART
driver, whose start `main` has commented out. Allocation, logging, the layout
of messages and answers; the hardware behind the commands. The wrappers of
system calls appear as the actions of the components that call them.
