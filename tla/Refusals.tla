------------------------------ MODULE Refusals -------------------------------
(***************************************************************************)
(* Gateway with a history variable: the sequence numbers xlab_conn_read    *)
(* has given to frames it then refused (damaged, cut or unknown), which it *)
(* answers without moving the turn.  A number the turn has passed is       *)
(* forgotten, and so are those of a session that is gone.                  *)
(***************************************************************************)
EXTENDS Gateway

VARIABLE refused

RVars == <<vars, refused>>

(* The frame in hand takes the next number and is refused. *)
TakenInVain(f) ==
    IF pc = "parse" /\ cur = f /\ Head(todo) = "reject"
      THEN {next_req_seq[f]} ELSE {}

Ahead(f) == resp_seq_expected[f] .. next_req_seq[f] - 1

RInit == Init /\ refused = [f \in Fds |-> {}]

RNext ==
    /\ Next
    /\ refused' =
         [f \in Fds |-> (refused[f] \cup TakenInVain(f)) \cap Ahead(f)']

RSpec == RInit /\ [][RNext]_RVars

(* A task of the session of f in the table has number n. *)
HasTurn(f, n) ==
    \E i \in TasksOf(f) :
        g_async_queue[i].cs = sess[f] /\ g_async_queue[i].seq = n

(***************************************************************************)
(* Nobody waits for a turn that nobody has.  On a connection that found    *)
(* its descriptor clean, every number from the turn on belongs to a task   *)
(* of its session that is still in the table or to a refused frame: a      *)
(* result waits for other results, or for a frame that was refused, and    *)
(* for nothing else (xlab_conn_read takes next_req_seq at three places and *)
(* moves resp_seq_expected behind one of them; the flush moves it, too).   *)
(***************************************************************************)
TurnOwned ==
    \A f \in Fds : clean[f] /\ HasSession(f) =>
        \A n \in Ahead(f) : n \in refused[f] \/ HasTurn(f, n)
=============================================================================
