----------------------------- MODULE FrameScan ------------------------------
(***************************************************************************)
(* The byte level of xlab_conn_read: how the frames of a TCP client are    *)
(* found in the chunks its stream arrives in, which of them are refused,   *)
(* and what the router (xlab_router.c) makes of the others.  Gateway has   *)
(* the same handler with one step per frame; here a step is one round of   *)
(* the scanning loop, and what happens to an answer is left out.           *)
(*                                                                         *)
(* Positions count from 0, as in the code: byte p of body is body[p + 1].  *)
(***************************************************************************)
EXTENDS Integers, Sequences

CONSTANTS
    ByteSize,          \* values of a byte, 256 in the code
    Boot,              \* XLAB_BOOT_CODE_HEAD
    LenMax,            \* XLAB_PROTO_PAYLOAD_MAX
    BodySize,          \* XLAB_REQUEST_CHUNK
    MaxRequestSize,    \* config->max_request_size
    Commands,          \* the command codes that are registered
    Params,            \* per command: its registered numbers of parameters
    Blocking,          \* the commands with XLAB_CMD_FLAG_BLOCKING
    Streams            \* what clients send

Byte == 0 .. ByteSize - 1

ASSUME ScanAssumption ==
    /\ ByteSize \in Nat /\ ByteSize > 2
    /\ Boot \in Byte
    /\ LenMax \in Nat
    /\ BodySize \in Nat /\ BodySize > 1
    /\ MaxRequestSize \in Nat
    /\ Commands \subseteq Byte
    /\ Params \in [Commands -> SUBSET Nat]
    /\ Blocking \subseteq Commands
    /\ Streams \subseteq Seq(Byte)

VARIABLES
    stream,   \* what the client of the session sends, all of it
    read,     \* how many of its bytes have been read
    body,     \* the session's buffer, up to body_length
    pos,      \* the local variable of the scanning loop
    pc,       \* "read" in the event loop, "scan" in xlab_conn_read, "closed"
    out,      \* history: what was refused or handed on, in this order
    base      \* history: where in the stream body begins

vars == <<stream, read, body, pos, pc, out, base>>

-----------------------------------------------------------------------------
(* A frame is <<Boot, length, command, parameters..., checksum>>; length   *)
(* counts the bytes after it.                                              *)

(* xlab_proto_calc_checksum: the two's complement of the sum of all bytes  *)
(* but the last.                                                           *)
Checksum(f) ==
    LET sum[i \in 0 .. Len(f) - 1] == IF i = 0 THEN 0 ELSE sum[i - 1] + f[i]
    IN (0 - sum[Len(f) - 1]) % ByteSize

LegalLength(b, p) == b[p + 2] \in 2 .. LenMax
FrameLen(b, p) == 2 + b[p + 2]
Complete(b, p) == p + FrameLen(b, p) <= Len(b)
FrameAt(b, p) == SubSeq(b, p + 1, p + FrameLen(b, p))
Intact(f) == f[Len(f)] = Checksum(f)

Command(f) == f[3]
ParamCount(f) == Len(f) - 4

(* xlab_router_lookup finds the command in the table. *)
Registered(f) == Command(f) \in Commands

(* xlab_router_process returns 0: the command is registered and takes that *)
(* many parameters.                                                        *)
RouterAccepts(f) ==
    Registered(f) /\ ParamCount(f) \in Params[Command(f)]

-----------------------------------------------------------------------------
(* What has been done with a part of the stream.                           *)
Reply == [at : Nat, bytes : Seq(Byte),
          as : {"refused", "error", "inline", "hardware"}]

TypeOK ==
    /\ stream \in Seq(Byte)
    /\ read \in 0 .. Len(stream)
    /\ body \in Seq(Byte)
    /\ pos \in 0 .. Len(body)
    /\ pc \in {"read", "scan", "closed"}
    /\ out \in Seq(Reply)
    /\ base \in 0 .. Len(stream)

(* A session is created with an empty buffer. *)
Init ==
    /\ stream \in Streams
    /\ read = 0
    /\ body = <<>>
    /\ pos = 0
    /\ pc = "read"
    /\ out = <<>>
    /\ base = 0

(* A chunk of any length that fits is appended to what was kept. *)
Read ==
    /\ pc = "read"
    /\ \E n \in 1 .. BodySize - Len(body) :
         /\ read + n <= Len(stream)
         /\ body' = body \o SubSeq(stream, read + 1, read + n)
         /\ read' = read + n
    /\ pos' = 0
    /\ pc' = "scan"
    /\ UNCHANGED <<stream, out, base>>

(* read returns 0: the client is gone, or the buffer has no room. *)
ReadEnd ==
    /\ pc = "read"
    /\ read = Len(stream) \/ Len(body) = BodySize
    /\ pc' = "closed"
    /\ UNCHANGED <<stream, read, body, pos, out, base>>

-----------------------------------------------------------------------------
(* The scanning loop.                                                      *)

Advance(n) == pos' = pos + n /\ UNCHANGED <<stream, read, body, pc, base>>

AtBoot == pos < Len(body) /\ body[pos + 1] = Boot

(* The loop ends behind the last byte or at a frame without a length.      *)
AtEnd == pos = Len(body) \/ (AtBoot /\ pos + 1 = Len(body))

AtFrame ==
    /\ pc = "scan"
    /\ ~AtEnd
    /\ AtBoot
    /\ LegalLength(body, pos)

(* Mutant of SkipByte: the byte behind goes as well. *)
SkipTwo ==
    /\ pc = "scan"
    /\ ~AtEnd
    /\ AtBoot => ~LegalLength(body, pos)
    /\ Advance(2)
    /\ UNCHANGED out

(* Not the first byte of a frame, or not a length.                         *)
SkipByte ==
    /\ pc = "scan"
    /\ ~AtEnd
    /\ AtBoot => ~LegalLength(body, pos)
    /\ Advance(1)
    /\ UNCHANGED out

(* An F4 frame is sent and the scan goes on behind the boot code.          *)
Refuse ==
    /\ out' = Append(out, [at |-> base + pos, bytes |-> <<Boot>>,
                           as |-> "refused"])
    /\ Advance(1)

(* Mutant of Incomplete: the frame is kept until the rest arrives. *)
KeepIncomplete ==
    /\ AtFrame
    /\ ~Complete(body, pos)
    /\ body' = SubSeq(body, pos + 1, Len(body))
    /\ base' = base + pos
    /\ pos' = 0
    /\ pc' = "read"
    /\ UNCHANGED <<stream, read, out>>

Incomplete ==
    /\ AtFrame
    /\ ~Complete(body, pos)
    /\ Refuse

(* Mutant of Damaged: the scan goes on behind the damaged frame. *)
SkipDamaged ==
    /\ AtFrame
    /\ Complete(body, pos)
    /\ ~Intact(FrameAt(body, pos))
    /\ out' = Append(out, [at |-> base + pos, bytes |-> <<Boot>>,
                           as |-> "refused"])
    /\ Advance(FrameLen(body, pos))

Damaged ==
    /\ AtFrame
    /\ Complete(body, pos)
    /\ ~Intact(FrameAt(body, pos))
    /\ Refuse

(* A blocking command goes to the hardware thread if the task table takes  *)
(* it; otherwise the router executes it or answers an error.               *)
Disposed(f, as) ==
    \/ as = "hardware" /\ Command(f) \in Blocking
    \/ as = "inline" /\ RouterAccepts(f)
    \/ as = "error" /\ ~RouterAccepts(f)

(* Mutant of HandOn: the scan goes on inside the frame. *)
RescanFrame ==
    /\ AtFrame
    /\ Complete(body, pos)
    /\ Intact(FrameAt(body, pos))
    /\ \E as \in {"error", "inline", "hardware"} :
         /\ Disposed(FrameAt(body, pos), as)
         /\ out' = Append(out, [at |-> base + pos,
                                bytes |-> FrameAt(body, pos), as |-> as])
    /\ Advance(1)

HandOn ==
    /\ AtFrame
    /\ Complete(body, pos)
    /\ Intact(FrameAt(body, pos))
    /\ \E as \in {"error", "inline", "hardware"} :
         /\ Disposed(FrameAt(body, pos), as)
         /\ out' = Append(out, [at |-> base + pos,
                                bytes |-> FrameAt(body, pos), as |-> as])
    /\ Advance(FrameLen(body, pos))

Kept == Len(body) - pos

(* Mutant of Finish: what was parsed stays in the buffer. *)
FinishKeepsAll ==
    /\ pc = "scan"
    /\ AtEnd
    /\ pc' = "read"
    /\ pos' = 0
    /\ UNCHANGED <<stream, read, body, out, base>>

(* What was parsed is dropped: memmove copies as many bytes as an eight    *)
(* bit length tells.  Too much that is kept closes the session.            *)
Finish ==
    /\ pc = "scan"
    /\ AtEnd
    /\ body' = [i \in 1 .. Kept |->
                  IF i <= Kept % ByteSize THEN body[pos + i] ELSE body[i]]
    /\ base' = base + pos
    /\ pos' = 0
    /\ pc' = IF Kept >= MaxRequestSize THEN "closed" ELSE "read"
    /\ UNCHANGED <<stream, read, out>>

-----------------------------------------------------------------------------
Answers(i) == out[i].as \in {"inline", "hardware"}

(* xlab_conn_write, when queued answers of earlier frames have been sent:  *)
(* body_length is set to zero, whatever the buffer holds.                  *)
WriteDone ==
    /\ pc = "read"
    /\ \E i \in DOMAIN out : Answers(i)
    /\ body' = <<>>
    /\ base' = read
    /\ UNCHANGED <<stream, read, pos, pc, out>>

Next ==
    \/ Read \/ ReadEnd
    \/ SkipByte \/ Incomplete \/ Damaged \/ HandOn \/ Finish
    \/ WriteDone

Spec == Init /\ [][Next]_vars
-----------------------------------------------------------------------------
(***************************************************************************)
(* Between two chunks the buffer is empty or holds one boot code.  The     *)
(* eight bit length of memmove, the room for the next chunk and the check  *)
(* against max_request_size all depend on it.                              *)
(***************************************************************************)
AtMostBootKept ==
    pc = "read" => body = <<>> \/ body = <<Boot>>

(***************************************************************************)
(* Whatever is answered stands in the client's stream as it was executed,  *)
(* each byte in at most one answer, and the answers come in the order of   *)
(* the stream: keeping, moving and resetting the buffer neither repeats,   *)
(* nor joins, nor reorders bytes.                                          *)
(***************************************************************************)
Behind(e) == e.at + Len(e.bytes)

AsSent ==
    \A i \in DOMAIN out :
        /\ Behind(out[i]) <= Len(stream)
        /\ out[i].bytes = SubSeq(stream, out[i].at + 1, Behind(out[i]))
        /\ \A j \in 1 .. i - 1 : Behind(out[j]) <= out[i].at

(***************************************************************************)
(* Resynchronisation: an intact frame in the part of the buffer that has   *)
(* been scanned was handed on, or its first byte belongs to a frame that   *)
(* was.  No damaged or unfinished frame in front of it swallows it.        *)
(***************************************************************************)
FrameHere(b, p) ==
    /\ p + 1 < Len(b)
    /\ b[p + 1] = Boot
    /\ LegalLength(b, p)
    /\ Complete(b, p)
    /\ Intact(FrameAt(b, p))

NothingSwallowed ==
    pc = "scan" =>
        \A p \in 0 .. pos - 1 : FrameHere(body, p) =>
            \E i \in DOMAIN out :
                /\ out[i].as # "refused"
                /\ out[i].at <= base + p
                /\ base + p < Behind(out[i])

(***************************************************************************)
(* A buffer that holds nothing but whole intact frames, be it in several   *)
(* chunks with one cut behind a boot code, has no part refused.  Boot      *)
(* codes among the parameters and checksums do no harm.                    *)
(***************************************************************************)
WholeFrames(b) ==
    \E cuts \in SUBSET (0 .. Len(b)) :
        /\ {0, Len(b)} \subseteq cuts
        /\ \A p \in cuts \ {Len(b)} :
               FrameHere(b, p) /\ p + FrameLen(b, p) \in cuts

WholeFramesServed ==
    pc = "scan" /\ (\E i \in DOMAIN out :
                       out[i].at >= base /\ out[i].as = "refused")
        => ~WholeFrames(body)

(***************************************************************************)
(* What the documents promise and the code does not keep.                  *)
(***************************************************************************)

(* Half packets are handled: a client that sends nothing but whole intact  *)
(* frames is never refused, wherever its stream is cut (README.md, the     *)
(* parser; xlab_connection.c, the unfinished frame is kept).               *)
HalfPackets ==
    WholeFrames(stream) => \A i \in DOMAIN out : out[i].as # "refused"
=============================================================================
