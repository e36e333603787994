---------------------------- MODULE FrameProofs -----------------------------
(***************************************************************************)
(* Theorems about FrameScan for every size of byte and buffer, every table *)
(* of commands and every stream, with their proofs.  The checksum is used  *)
(* as an operator that is never expanded.                                  *)
(***************************************************************************)
EXTENDS FrameScan, SequenceTheorems, TLAPS

-----------------------------------------------------------------------------
(* The buffer is the part of the stream that begins at base and has been   *)
(* read.                                                                   *)
PlaceInv ==
    /\ pc # "scan" => pos = 0
    /\ base + Len(body) = read
    /\ body = SubSeq(stream, base + 1, read)

(* Every reply is for at least one byte, before the scan's position.       *)
BehindInv ==
    \A i \in DOMAIN out :
        /\ out[i].at < Behind(out[i])
        /\ Behind(out[i]) <= base + pos

ScanInv == TypeOK /\ PlaceInv /\ BehindInv /\ AtMostBootKept /\ AsSent

(* Appending a reply keeps the ones before it.                             *)
LEMMA OneMore ==
    ASSUME out \in Seq(Reply), NEW e \in Reply, out' = Append(out, e)
    PROVE  /\ out' \in Seq(Reply)
           /\ DOMAIN out = 1 .. Len(out)
           /\ DOMAIN out' = 1 .. Len(out) + 1
           /\ \A i \in DOMAIN out : out'[i] = out[i]
           /\ out'[Len(out) + 1] = e
  BY AppendProperties, LenProperties

(* Where a reply begins and ends.                                          *)
LEMMA ReplyPlace ==
    ASSUME NEW e \in Reply
    PROVE  e.at \in Nat /\ Behind(e) \in Nat
<1>1. e.at \in Nat /\ e.bytes \in Seq(Byte)
  BY DEF Reply
<1>2. Len(e.bytes) \in Nat
  BY <1>1, LenProperties
<1> QED BY <1>1, <1>2 DEF Behind

(* Cutting a piece out of the buffer is cutting it out of the stream.      *)
LEMMA PieceOfStream ==
    ASSUME TypeOK, PlaceInv, NEW n \in Nat, n >= 1, pos + n <= Len(body)
    PROVE  /\ SubSeq(body, pos + 1, pos + n) \in Seq(Byte)
           /\ Len(SubSeq(body, pos + 1, pos + n)) = n
           /\ SubSeq(body, pos + 1, pos + n)
                = SubSeq(stream, base + pos + 1, base + pos + n)
           /\ base + pos + n <= Len(stream)
<1>1. /\ Len(body) \in Nat /\ Len(stream) \in Nat /\ pos \in Nat /\ base \in Nat
      /\ base + Len(body) = read /\ read <= Len(stream)
  BY DEF TypeOK, PlaceInv
<1>2. base + 1 \in 1 .. Len(stream) /\ read \in 1 .. Len(stream)
  BY <1>1
<1>3. /\ pos + 1 \in 1 .. read - (base + 1) + 1
      /\ pos + n \in 1 .. read - (base + 1) + 1
  BY <1>1
<1>4. SubSeq(SubSeq(stream, base + 1, read), pos + 1, pos + n)
        = SubSeq(stream, base + 1 + (pos + 1) - 1, base + 1 + (pos + n) - 1)
  BY <1>2, <1>3, SubSeqOfSubSeq DEF TypeOK
<1>5. /\ base + 1 + (pos + 1) - 1 = base + pos + 1
      /\ base + 1 + (pos + n) - 1 = base + pos + n
  BY <1>1
<1>6. SubSeq(stream, base + 1 + (pos + 1) - 1, base + 1 + (pos + n) - 1)
        = SubSeq(stream, base + pos + 1, base + pos + n)
  BY <1>5, Zenon
<1>7. SubSeq(body, pos + 1, pos + n)
        = SubSeq(SubSeq(stream, base + 1, read), pos + 1, pos + n)
  BY Zenon DEF PlaceInv
<1>8. SubSeq(body, pos + 1, pos + n)
        = SubSeq(stream, base + pos + 1, base + pos + n)
  BY <1>4, <1>6, <1>7, Zenon
<1>9. /\ pos + 1 \in 1 .. Len(body) /\ pos + n \in 1 .. Len(body)
      /\ pos + 1 <= pos + n + 1 /\ pos + n - (pos + 1) + 1 = n
  BY <1>1
<1>10. /\ SubSeq(body, pos + 1, pos + n) \in Seq(Byte)
       /\ Len(SubSeq(body, pos + 1, pos + n)) = n
  BY <1>1, <1>9, SubSeqProperties DEF TypeOK
<1>11. base + pos + n <= Len(stream)
  BY <1>1
<1> QED BY <1>8, <1>10, <1>11

(* The frame at the position, when it is complete.                         *)
LEMMA FrameShape ==
    ASSUME TypeOK, PlaceInv, AtFrame, Complete(body, pos)
    PROVE  /\ FrameAt(body, pos) \in Seq(Byte)
           /\ FrameLen(body, pos) \in Nat /\ FrameLen(body, pos) >= 4
           /\ Len(FrameAt(body, pos)) = FrameLen(body, pos)
           /\ FrameAt(body, pos)
                = SubSeq(stream, base + pos + 1, base + pos + FrameLen(body, pos))
           /\ pos + FrameLen(body, pos) <= Len(body)
           /\ base + pos + FrameLen(body, pos) <= Len(stream)
<1>1. FrameLen(body, pos) \in Nat /\ FrameLen(body, pos) >= 4
  BY ScanAssumption DEF AtFrame, LegalLength, FrameLen
<1>2. pos + FrameLen(body, pos) <= Len(body)
  BY DEF Complete
<1>3. FrameLen(body, pos) >= 1
  BY <1>1
<1>4. /\ SubSeq(body, pos + 1, pos + FrameLen(body, pos)) \in Seq(Byte)
      /\ Len(SubSeq(body, pos + 1, pos + FrameLen(body, pos))) = FrameLen(body, pos)
      /\ SubSeq(body, pos + 1, pos + FrameLen(body, pos))
           = SubSeq(stream, base + pos + 1, base + pos + FrameLen(body, pos))
      /\ base + pos + FrameLen(body, pos) <= Len(stream)
  BY <1>1, <1>2, <1>3, PieceOfStream, Zenon
<1> QED BY <1>1, <1>2, <1>4, Zenon DEF FrameAt

(* A piece of length one is its element.                                   *)
LEMMA PieceOfOne ==
    ASSUME NEW S, NEW s \in Seq(S), NEW p \in 1 .. Len(s)
    PROVE  SubSeq(s, p, p) = <<s[p]>>
<1>1. SubSeq(s, p, p) \in Seq(S) /\ Len(SubSeq(s, p, p)) = 1
  BY SubSeqProperties
<1>2. SubSeq(s, p, p)[1] = s[p]
  BY SubSeqProperties
<1>3. <<s[p]>> \in Seq(S) /\ Len(<<s[p]>>) = 1 /\ <<s[p]>>[1] = s[p]
  OBVIOUS
<1>4. \A i \in 1 .. Len(<<s[p]>>) : <<s[p]>>[i] = SubSeq(s, p, p)[i]
  BY <1>1, <1>2, <1>3
<1> QED BY <1>1, <1>3, <1>4, SeqEqual

(* The boot code a refusal is about.                                       *)
LEMMA BootShape ==
    ASSUME TypeOK, PlaceInv, AtBoot
    PROVE  /\ pos + 1 <= Len(body)
           /\ <<Boot>> \in Seq(Byte) /\ Len(<<Boot>>) = 1
           /\ <<Boot>> = SubSeq(stream, base + pos + 1, base + pos + 1)
           /\ base + pos + 1 <= Len(stream)
<1>1. pos + 1 <= Len(body) /\ body[pos + 1] = Boot
  BY DEF AtBoot, TypeOK
<1>2. /\ SubSeq(body, pos + 1, pos + 1) = SubSeq(stream, base + pos + 1, base + pos + 1)
      /\ base + pos + 1 <= Len(stream)
  <2>1. 1 \in Nat /\ 1 >= 1
    OBVIOUS
  <2> QED BY <1>1, <2>1, PieceOfStream, Zenon
<1>3. pos + 1 \in 1 .. Len(body) /\ body \in Seq(Byte)
  BY <1>1 DEF TypeOK
<1>4. SubSeq(body, pos + 1, pos + 1) = <<Boot>>
  BY <1>1, <1>3, PieceOfOne, Zenon
<1>5. <<Boot>> \in Seq(Byte) /\ Len(<<Boot>>) = 1
  BY ScanAssumption
<1> QED BY <1>1, <1>2, <1>4, <1>5, Zenon

(* What Finish keeps: the eight bit length of memmove loses nothing.       *)
LEMMA FinishKeeps ==
    ASSUME TypeOK, Finish
    PROVE  \/ body' = <<>> /\ pos = Len(body)
           \/ body' = <<Boot>> /\ pos + 1 = Len(body) /\ AtBoot
<1>1. /\ pos \in Nat /\ Len(body) \in Nat /\ body \in Seq(Byte)
      /\ ByteSize \in Nat /\ ByteSize > 2
  BY ScanAssumption DEF TypeOK
<1>2. body' = [i \in 1 .. Kept |->
                 IF i <= Kept % ByteSize THEN body[pos + i] ELSE body[i]]
  BY DEF Finish
<1>3. CASE pos = Len(body)
  <2>1. Kept = 0
    BY <1>1, <1>3 DEF Kept
  <2>2. body' = <<>>
    BY <1>2, <2>1
  <2> QED BY <1>3, <2>2
<1>4. CASE AtBoot /\ pos + 1 = Len(body)
  <2>1. Kept = 1 /\ Kept % ByteSize = 1
    BY <1>1, <1>4 DEF Kept
  <2>2. body[pos + 1] = Boot
    BY <1>4 DEF AtBoot
  <2>3. body' = [i \in 1 .. 1 |-> IF i <= 1 THEN body[pos + i] ELSE body[i]]
    BY <1>2, <2>1, Zenon
  <2>4. \A i \in 1 .. 1 : body'[i] = Boot
    BY <2>2, <2>3
  <2>5. body' = [i \in 1 .. 1 |-> Boot]
    BY <2>3, <2>4
  <2>6. body' = <<Boot>>
    BY <2>5
  <2> QED BY <1>4, <2>6
<1> QED BY <1>3, <1>4 DEF Finish, AtEnd

(* A step of the scan that replies keeps everything but the two scanning   *)
(* properties.                                                             *)
LEMMA ReplyKeeps ==
    ASSUME ScanInv, pc = "scan", NEW n \in Nat, n >= 1, pos + n <= Len(body),
           NEW b \in Seq(Byte), Len(b) = n,
           b = SubSeq(stream, base + pos + 1, base + pos + n),
           base + pos + n <= Len(stream),
           NEW as \in {"refused", "error", "inline", "hardware"},
           out' = Append(out, [at |-> base + pos, bytes |-> b, as |-> as]),
           Advance(n)
    PROVE  ScanInv'
<1> DEFINE e == [at |-> base + pos, bytes |-> b, as |-> as]
<1>1. /\ pos \in Nat /\ base \in Nat /\ Len(body) \in Nat /\ Len(stream) \in Nat
      /\ Len(out) \in Nat
  BY DEF ScanInv, TypeOK
<1>2. e \in Reply /\ e.at = base + pos /\ e.bytes = b /\ Behind(e) = base + pos + n
  <2>1. e.at = base + pos /\ e.bytes = b /\ e.as = as
    OBVIOUS
  <2>2. base + pos \in Nat
    BY <1>1
  <2>3. e \in Reply
    BY <2>2 DEF Reply
  <2> QED BY <2>1, <2>3 DEF Behind
<1> HIDE DEF e
<1>3. out' = Append(out, e)
  BY DEF e
<1>4. /\ out' \in Seq(Reply)
      /\ DOMAIN out = 1 .. Len(out)
      /\ DOMAIN out' = 1 .. Len(out) + 1
      /\ \A i \in DOMAIN out : out'[i] = out[i]
      /\ out'[Len(out) + 1] = e
  BY <1>2, <1>3, OneMore DEF ScanInv, TypeOK
<1>5. /\ stream' = stream /\ read' = read /\ body' = body /\ pc' = pc /\ base' = base
      /\ pos' = pos + n
  BY DEF Advance
<1>6. TypeOK'
  BY <1>1, <1>4, <1>5 DEF ScanInv, TypeOK
<1>7. PlaceInv'
  BY <1>5 DEF ScanInv, PlaceInv
<1>8. \A i \in DOMAIN out : Behind(out[i]) <= base + pos /\ out[i].at < Behind(out[i])
  BY DEF ScanInv, BehindInv
<1>9. \A i \in DOMAIN out : out[i].at \in Nat /\ Behind(out[i]) \in Nat
  <2>1. \A i \in DOMAIN out : out[i] \in Reply
    BY <1>4 DEF ScanInv, TypeOK
  <2> QED BY <2>1, ReplyPlace
<1>10. BehindInv'
  <2> SUFFICES ASSUME NEW i \in DOMAIN out'
               PROVE  /\ out'[i].at < Behind(out'[i])
                      /\ Behind(out'[i]) <= base + pos + n
    BY <1>1, <1>5 DEF BehindInv, Behind
  <2>1. CASE i \in DOMAIN out
    <3>1. out'[i] = out[i]
      BY <1>4, <2>1
    <3>2. Behind(out[i]) <= base + pos + n
      <4>1. Behind(out[i]) \in Nat /\ Behind(out[i]) <= base + pos
        BY <1>8, <1>9, <2>1, Zenon
      <4> QED BY <1>1, <4>1
    <3> QED BY <1>8, <2>1, <3>1, <3>2, Zenon
  <2>2. CASE i = Len(out) + 1
    <3>1. out'[i] = e
      BY <1>4, <2>2, Zenon
    <3>2. e.at < Behind(e) /\ Behind(e) <= base + pos + n
      BY <1>1, <1>2
    <3> QED BY <3>1, <3>2, Zenon
  <2> QED BY <1>1, <1>4, <2>1, <2>2
<1>11. AtMostBootKept'
  BY <1>5 DEF AtMostBootKept
<1>12. AsSent'
  <2> SUFFICES ASSUME NEW i \in DOMAIN out'
               PROVE  /\ Behind(out'[i]) <= Len(stream)
                      /\ out'[i].bytes
                           = SubSeq(stream, out'[i].at + 1, Behind(out'[i]))
                      /\ \A j \in 1 .. i - 1 : Behind(out'[j]) <= out'[i].at
    BY <1>5, Zenon DEF AsSent, Behind
  <2>1. CASE i \in DOMAIN out
    <3>1. \A j \in 1 .. i - 1 : j \in DOMAIN out /\ out'[j] = out[j]
      BY <1>1, <1>4, <2>1
    <3>2. out'[i] = out[i]
      BY <1>4, <2>1
    <3> QED BY <2>1, <3>1, <3>2, Zenon DEF ScanInv, AsSent
  <2>2. CASE i = Len(out) + 1
    <3>1. \A j \in 1 .. i - 1 : j \in DOMAIN out /\ out'[j] = out[j]
      BY <1>1, <1>4, <2>2
    <3>2. out'[i] = e
      BY <1>4, <2>2
    <3>3. \A j \in 1 .. i - 1 : Behind(out'[j]) <= out'[i].at
      BY <1>2, <1>8, <3>1, <3>2
    <3>4. out'[i].at + 1 = base + pos + 1
      BY <1>2, <3>2
    <3>5. out'[i].bytes = SubSeq(stream, out'[i].at + 1, Behind(out'[i]))
      BY <1>2, <3>2, <3>4, Zenon
    <3>6. Behind(out'[i]) <= Len(stream)
      BY <1>2, <3>2, Zenon
    <3> QED BY <3>3, <3>5, <3>6
  <2>3. i \in DOMAIN out \/ i = Len(out) + 1
    <3>1. i \in 1 .. Len(out) + 1 /\ DOMAIN out = 1 .. Len(out)
      BY <1>4, Zenon
    <3> QED BY <1>1, <3>1
  <2> QED BY <2>1, <2>2, <2>3, Zenon
<1> QED BY <1>6, <1>7, <1>10, <1>11, <1>12 DEF ScanInv

-----------------------------------------------------------------------------
LEMMA ScanInit == Init => ScanInv
<1> SUFFICES ASSUME Init PROVE ScanInv
  OBVIOUS
<1>1. /\ stream \in Seq(Byte) /\ read = 0 /\ body = <<>> /\ pos = 0
      /\ pc = "read" /\ out = <<>> /\ base = 0
  BY ScanAssumption DEF Init
<1>2. Len(stream) \in Nat
  BY <1>1
<1>3. TypeOK
  BY <1>1, <1>2 DEF TypeOK
<1>4. SubSeq(stream, 0 + 1, 0) = <<>>
  BY SubSeqEmpty
<1>5. PlaceInv
  BY <1>1, <1>4 DEF PlaceInv
<1>6. BehindInv /\ AtMostBootKept /\ AsSent
  BY <1>1 DEF BehindInv, AtMostBootKept, AsSent
<1> QED BY <1>3, <1>5, <1>6 DEF ScanInv

(* Replies that do not change keep their places.                           *)
LEMMA RepliesKept ==
    ASSUME ScanInv, UNCHANGED <<stream, out>>, base' + pos' \in Nat,
           base' + pos' >= base + pos
    PROVE  BehindInv' /\ AsSent'
<1>1. pos \in Nat /\ base \in Nat
  BY DEF ScanInv, TypeOK
<1>2. \A i \in DOMAIN out : out[i] \in Reply
  BY DEF ScanInv, TypeOK
<1>3. \A i \in DOMAIN out : Behind(out[i]) \in Nat
  BY <1>2, ReplyPlace
<1>4. \A i \in DOMAIN out : out[i].at < Behind(out[i]) /\ Behind(out[i]) <= base + pos
  BY DEF ScanInv, BehindInv
<1>5. \A i \in DOMAIN out : Behind(out[i]) <= base' + pos'
  BY <1>1, <1>3, <1>4
<1>6. BehindInv'
  BY <1>4, <1>5, Zenon DEF BehindInv, Behind
<1>7. AsSent'
  BY Zenon DEF ScanInv, AsSent, Behind
<1> QED BY <1>6, <1>7

LEMMA ScanNext == ScanInv /\ [Next]_vars => ScanInv'
<1> SUFFICES ASSUME ScanInv, [Next]_vars PROVE ScanInv'
  OBVIOUS
<1>0. /\ TypeOK /\ PlaceInv /\ BehindInv /\ AtMostBootKept /\ AsSent
      /\ pos \in Nat /\ base \in Nat /\ read \in Nat
      /\ Len(body) \in Nat /\ Len(stream) \in Nat
      /\ body \in Seq(Byte) /\ stream \in Seq(Byte)
      /\ base + Len(body) = read /\ read <= Len(stream) /\ pos <= Len(body)
  BY DEF ScanInv, TypeOK, PlaceInv
<1>1. ASSUME Read PROVE ScanInv'
  <2>1. PICK n \in 1 .. BodySize - Len(body) :
            /\ read + n <= Len(stream)
            /\ body' = body \o SubSeq(stream, read + 1, read + n)
            /\ read' = read + n
    BY <1>1 DEF Read
  <2>2. n \in Nat /\ n >= 1
    BY <1>0, <2>1, ScanAssumption
  <2>3. /\ pc = "read" /\ pos' = 0 /\ pc' = "scan" /\ stream' = stream
        /\ out' = out /\ base' = base /\ pos = 0
    BY <1>0, <1>1 DEF Read, PlaceInv
  <2>4. /\ base + 1 \in 1 .. Len(stream) + 1
        /\ read \in (base + 1) - 1 .. Len(stream)
        /\ read + n \in read .. Len(stream)
    BY <1>0, <2>1, <2>2
  <2>5. body' = SubSeq(stream, base + 1, read + n)
    <3>1. SubSeq(stream, base + 1, read) \o SubSeq(stream, read + 1, read + n)
            = SubSeq(stream, base + 1, read + n)
      <4>1. stream \in Seq(Byte)
        BY <1>0
      <4>2. \A m \in 1 .. Len(stream) + 1 : \A k \in m - 1 .. Len(stream) :
               \A l \in k .. Len(stream) :
                  SubSeq(stream, m, k) \o SubSeq(stream, k + 1, l) = SubSeq(stream, m, l)
        BY <4>1, ConcatAdjacentSubSeq
      <4> QED BY <2>4, <4>2, Zenon
    <3>2. body = SubSeq(stream, base + 1, read)
      BY <1>0 DEF PlaceInv
    <3> QED BY <2>1, <3>1, <3>2, Zenon
  <2>6. \A i \in read + 1 .. read + n : stream[i] \in Byte
    BY <1>0, <2>1, <2>2
  <2>7. /\ SubSeq(stream, read + 1, read + n) \in Seq(Byte)
        /\ Len(SubSeq(stream, read + 1, read + n)) = n
    BY <1>0, <2>2, <2>6, SubSeqProperties
  <2>8. body' \in Seq(Byte) /\ Len(body') = Len(body) + n
    BY <1>0, <2>1, <2>7, ConcatProperties
  <2>9. TypeOK'
    BY <1>0, <2>1, <2>2, <2>3, <2>8 DEF TypeOK
  <2>10. PlaceInv'
    <3>1. base' + Len(body') = read'
      <4>1. /\ base' = base /\ read' = read + n /\ Len(body') = Len(body) + n
            /\ base \in Nat /\ Len(body) \in Nat /\ base + Len(body) = read
        BY <1>0, <2>1, <2>3, <2>8, Zenon
      <4>2. base + (Len(body) + n) = read + n
        BY <2>2, <4>1
      <4> QED BY <4>1, <4>2
    <3>2. body' = SubSeq(stream', base' + 1, read')
      BY <2>1, <2>3, <2>5
    <3> QED BY <2>3, <3>1, <3>2 DEF PlaceInv
  <2>11. BehindInv' /\ AsSent'
    BY <1>0, <2>3, RepliesKept
  <2> QED BY <2>3, <2>9, <2>10, <2>11 DEF ScanInv, AtMostBootKept
<1>2. ASSUME ReadEnd PROVE ScanInv'
  <2>1. /\ pc' = "closed" /\ pc = "read"
        /\ UNCHANGED <<stream, read, body, pos, out, base>>
    BY <1>2 DEF ReadEnd
  <2>2. TypeOK' /\ PlaceInv' /\ AtMostBootKept'
    BY <1>0, <2>1 DEF TypeOK, PlaceInv, AtMostBootKept
  <2>3. BehindInv' /\ AsSent'
    BY <1>0, <2>1, RepliesKept
  <2> QED BY <2>2, <2>3 DEF ScanInv
<1>3. ASSUME SkipByte PROVE ScanInv'
  <2>1. /\ pos' = pos + 1 /\ pos # Len(body) /\ pc = "scan"
        /\ UNCHANGED <<stream, read, body, pc, out, base>>
    BY <1>3 DEF SkipByte, Advance, AtEnd
  <2>2. TypeOK' /\ PlaceInv' /\ AtMostBootKept'
    BY <1>0, <2>1 DEF TypeOK, PlaceInv, AtMostBootKept
  <2>3. BehindInv' /\ AsSent'
    BY <1>0, <2>1, RepliesKept
  <2> QED BY <2>2, <2>3 DEF ScanInv
<1>4. ASSUME AtFrame, Refuse PROVE ScanInv'
  <2>1. /\ out' = Append(out, [at |-> base + pos, bytes |-> <<Boot>>,
                               as |-> "refused"])
        /\ Advance(1) /\ pc = "scan" /\ AtBoot
    BY <1>4 DEF Refuse, AtFrame
  <2>2. 1 \in Nat /\ 1 >= 1 /\ "refused" \in {"refused", "error", "inline", "hardware"}
    OBVIOUS
  <2>3. /\ pos + 1 <= Len(body)
        /\ <<Boot>> \in Seq(Byte) /\ Len(<<Boot>>) = 1
        /\ <<Boot>> = SubSeq(stream, base + pos + 1, base + pos + 1)
        /\ base + pos + 1 <= Len(stream)
    BY <1>0, <2>1, BootShape, Zenon
  <2> QED BY <2>1, <2>2, <2>3, ReplyKeeps, Zenon
<1>5. ASSUME Incomplete PROVE ScanInv'
  BY <1>4, <1>5 DEF Incomplete
<1>6. ASSUME Damaged PROVE ScanInv'
  BY <1>4, <1>6 DEF Damaged
<1>7. ASSUME HandOn PROVE ScanInv'
  <2>1. /\ AtFrame /\ Complete(body, pos) /\ pc = "scan"
        /\ Advance(FrameLen(body, pos))
    BY <1>7 DEF HandOn, AtFrame
  <2>2. PICK as \in {"error", "inline", "hardware"} :
            out' = Append(out, [at |-> base + pos,
                                bytes |-> FrameAt(body, pos), as |-> as])
    BY <1>7 DEF HandOn
  <2>3. as \in {"refused", "error", "inline", "hardware"}
    OBVIOUS
  <2>4. /\ FrameAt(body, pos) \in Seq(Byte)
        /\ FrameLen(body, pos) \in Nat /\ FrameLen(body, pos) >= 4
        /\ Len(FrameAt(body, pos)) = FrameLen(body, pos)
        /\ FrameAt(body, pos)
             = SubSeq(stream, base + pos + 1, base + pos + FrameLen(body, pos))
        /\ pos + FrameLen(body, pos) <= Len(body)
        /\ base + pos + FrameLen(body, pos) <= Len(stream)
    BY <1>0, <2>1, FrameShape, Zenon
  <2>5. FrameLen(body, pos) >= 1
    BY <2>4
  <2> QED BY <2>1, <2>2, <2>3, <2>4, <2>5, ReplyKeeps, Zenon
<1>8. ASSUME Finish PROVE ScanInv'
  <2>1. /\ pc = "scan" /\ base' = base + pos /\ pos' = 0
        /\ pc' \in {"closed", "read"}
        /\ UNCHANGED <<stream, read, out>>
    BY <1>8 DEF Finish
  <2>2. \/ body' = <<>> /\ pos = Len(body)
        \/ body' = <<Boot>> /\ pos + 1 = Len(body) /\ AtBoot
    BY <1>0, <1>8, FinishKeeps
  <2>3. <<Boot>> \in Seq(Byte) /\ Len(<<Boot>>) = 1
    BY ScanAssumption
  <2>4. /\ body' \in Seq(Byte) /\ Len(body') \in Nat
        /\ base + pos + Len(body') = read
    <3>1. CASE body' = <<>> /\ pos = Len(body)
      <4>1. body' \in Seq(Byte) /\ Len(body') = 0
        BY <3>1
      <4> QED BY <1>0, <3>1, <4>1
    <3>2. CASE body' = <<Boot>> /\ pos + 1 = Len(body) /\ AtBoot
      <4>1. body' \in Seq(Byte) /\ Len(body') = 1
        BY <2>3, <3>2, Zenon
      <4> QED BY <1>0, <3>2, <4>1
    <3> QED BY <2>2, <3>1, <3>2
  <2>5. TypeOK'
    BY <1>0, <2>1, <2>4 DEF TypeOK
  <2>6. body' = SubSeq(stream, base + pos + 1, read)
    <3>1. CASE body' = <<>> /\ pos = Len(body)
      BY <1>0, <3>1, SubSeqEmpty
    <3>2. CASE body' = <<Boot>> /\ pos + 1 = Len(body) /\ AtBoot
      <4>1. <<Boot>> = SubSeq(stream, base + pos + 1, base + pos + 1)
        BY <1>0, <3>2, BootShape, Zenon
      <4>2. base + pos + 1 = read
        BY <1>0, <3>2
      <4> QED BY <3>2, <4>1, <4>2
    <3> QED BY <2>2, <3>1, <3>2
  <2>7. PlaceInv'
    BY <2>1, <2>4, <2>6 DEF PlaceInv
  <2>8. AtMostBootKept'
    BY <2>2 DEF AtMostBootKept
  <2>9. BehindInv' /\ AsSent'
    BY <1>0, <2>1, RepliesKept
  <2> QED BY <2>5, <2>7, <2>8, <2>9 DEF ScanInv
<1>9. ASSUME WriteDone PROVE ScanInv'
  <2>1. /\ pc = "read" /\ body' = <<>> /\ base' = read /\ pos = 0
        /\ UNCHANGED <<stream, read, pos, pc, out>>
    BY <1>0, <1>9 DEF WriteDone, PlaceInv
  <2>2. TypeOK'
    BY <1>0, <2>1 DEF TypeOK
  <2>3. SubSeq(stream, read + 1, read) = <<>>
    BY <1>0, SubSeqEmpty
  <2>4. PlaceInv' /\ AtMostBootKept'
    BY <1>0, <2>1, <2>3 DEF PlaceInv, AtMostBootKept
  <2>5. BehindInv' /\ AsSent'
    BY <1>0, <2>1, RepliesKept
  <2> QED BY <2>2, <2>4, <2>5 DEF ScanInv
<1>10. ASSUME UNCHANGED vars PROVE ScanInv'
  <2>1. UNCHANGED <<stream, read, body, pos, pc, out, base>>
    BY <1>10 DEF vars
  <2>2. TypeOK' /\ PlaceInv' /\ AtMostBootKept'
    BY <1>0, <2>1 DEF TypeOK, PlaceInv, AtMostBootKept
  <2>3. BehindInv' /\ AsSent'
    BY <1>0, <2>1, RepliesKept
  <2> QED BY <2>2, <2>3 DEF ScanInv
<1> QED BY <1>1, <1>2, <1>3, <1>5, <1>6, <1>7, <1>8, <1>9, <1>10 DEF Next

-----------------------------------------------------------------------------
(* The variables of a session always have their types: the position never  *)
(* leaves the buffer and the buffer never runs behind the stream.          *)
THEOREM ScanTypes == Spec => []TypeOK
<1>1. Spec => []ScanInv
  BY ScanInit, ScanNext, PTL DEF Spec
<1>2. ScanInv => TypeOK
  BY DEF ScanInv
<1> QED BY <1>1, <1>2, PTL

(* Between two chunks the buffer holds at most one boot code.              *)
THEOREM AtMostOneByte == Spec => []AtMostBootKept
<1>1. Spec => []ScanInv
  BY ScanInit, ScanNext, PTL DEF Spec
<1>2. ScanInv => AtMostBootKept
  BY DEF ScanInv
<1> QED BY <1>1, <1>2, PTL

(* What is answered stands in the client's stream, once and in order.      *)
THEOREM AnswersAsSent == Spec => []AsSent
<1>1. Spec => []ScanInv
  BY ScanInit, ScanNext, PTL DEF Spec
<1>2. ScanInv => AsSent
  BY DEF ScanInv
<1> QED BY <1>1, <1>2, PTL

-----------------------------------------------------------------------------
(* Resynchronisation.                                                      *)

(* An intact frame is handed on where the scan stands and nowhere else.    *)
LEMMA FrameHereIsHandled ==
    ASSUME FrameHere(body, pos), TypeOK
    PROVE  /\ ~SkipByte /\ ~Incomplete /\ ~Damaged
           /\ pos + 1 < Len(body)
<1>1. /\ pos + 1 < Len(body) /\ AtBoot /\ LegalLength(body, pos)
      /\ Complete(body, pos) /\ Intact(FrameAt(body, pos))
  BY DEF FrameHere, AtBoot, TypeOK
<1> QED BY <1>1, Zenon DEF SkipByte, Incomplete, Damaged

(* What a step of the scan leaves behind the position stays covered.       *)
LEMMA CoveredKept ==
    ASSUME ScanInv, NothingSwallowed, pc = "scan",
           NEW n \in Nat, Advance(n),
           NEW e \in Reply, out' = out \/ out' = Append(out, e),
           \A p \in pos .. pos + n - 1 : FrameHere(body, p) =>
               \E i \in DOMAIN out' :
                   /\ out'[i].as # "refused"
                   /\ out'[i].at <= base + p
                   /\ base + p < Behind(out'[i])
    PROVE  NothingSwallowed'
<1>1. /\ body' = body /\ pc' = pc /\ base' = base /\ pos' = pos + n /\ pos \in Nat
  BY DEF Advance, ScanInv, TypeOK
<1>2. DOMAIN out \subseteq DOMAIN out' /\ \A i \in DOMAIN out : out'[i] = out[i]
  <2>1. CASE out' = out
    BY <2>1
  <2>2. CASE out' = Append(out, e)
    <3>1. out \in Seq(Reply)
      BY DEF ScanInv, TypeOK
    <3>2. /\ DOMAIN out = 1 .. Len(out)
          /\ DOMAIN out' = 1 .. Len(out) + 1
          /\ \A i \in DOMAIN out : out'[i] = out[i]
      BY <2>2, <3>1, OneMore, Zenon
    <3>3. Len(out) \in Nat
      BY <3>1
    <3> QED BY <3>2, <3>3
  <2> QED BY <2>1, <2>2
<1> SUFFICES ASSUME NEW p \in 0 .. pos + n - 1, FrameHere(body, p)
             PROVE  \E i \in DOMAIN out' :
                       /\ out'[i].as # "refused"
                       /\ out'[i].at <= base + p
                       /\ base + p < Behind(out'[i])
  BY <1>1 DEF NothingSwallowed, Behind
<1>3. CASE p \in 0 .. pos - 1
  <2>1. PICK i \in DOMAIN out : /\ out[i].as # "refused"
                                /\ out[i].at <= base + p
                                /\ base + p < Behind(out[i])
    BY <1>3, Zenon DEF NothingSwallowed
  <2> QED BY <1>2, <2>1, Zenon
<1>4. CASE p \in pos .. pos + n - 1
  BY <1>4, Zenon
<1>5. p \in 0 .. pos - 1 \/ p \in pos .. pos + n - 1
  BY <1>1
<1> QED BY <1>3, <1>4, <1>5

LEMMA SwallowedNext ==
    ScanInv /\ NothingSwallowed /\ [Next]_vars => NothingSwallowed'
<1> SUFFICES ASSUME ScanInv, NothingSwallowed, [Next]_vars
             PROVE  NothingSwallowed'
  OBVIOUS
<1>0. /\ TypeOK /\ PlaceInv /\ pos \in Nat /\ base \in Nat /\ Len(out) \in Nat
      /\ out \in Seq(Reply)
  BY DEF ScanInv, TypeOK
<1>1. CASE Read
  <2>1. pos' = 0
    BY <1>1 DEF Read
  <2> QED BY <2>1 DEF NothingSwallowed
<1>2. CASE ReadEnd \/ WriteDone
  <2>1. pc' # "scan"
    BY <1>2 DEF ReadEnd, WriteDone
  <2> QED BY <2>1 DEF NothingSwallowed
<1>3. CASE Finish
  <2>1. pc' # "scan"
    BY <1>3 DEF Finish
  <2> QED BY <2>1 DEF NothingSwallowed
<1>4. ASSUME SkipByte \/ Incomplete \/ Damaged PROVE NothingSwallowed'
  <2>1. ~FrameHere(body, pos)
    BY <1>0, <1>4, FrameHereIsHandled
  <2>2. \A p \in pos .. pos + 1 - 1 : ~FrameHere(body, p)
    BY <1>0, <2>1
  <2>3. pc = "scan" /\ Advance(1)
    BY <1>4 DEF SkipByte, Incomplete, Damaged, Refuse, AtFrame
  <2> DEFINE e == [at |-> base + pos, bytes |-> <<Boot>>, as |-> "refused"]
  <2>4. e \in Reply
    <3>1. base + pos \in Nat /\ <<Boot>> \in Seq(Byte)
      BY <1>0, ScanAssumption
    <3> QED BY <3>1 DEF Reply
  <2>5. out' = out \/ out' = Append(out, e)
    BY <1>4 DEF SkipByte, Incomplete, Damaged, Refuse
  <2>6. 1 \in Nat
    OBVIOUS
  <2> HIDE DEF e
  <2> QED BY <2>2, <2>3, <2>4, <2>5, <2>6, CoveredKept, Zenon
<1>5. ASSUME HandOn PROVE NothingSwallowed'
  <2>1. /\ AtFrame /\ Complete(body, pos) /\ pc = "scan"
        /\ Advance(FrameLen(body, pos))
    BY <1>5 DEF HandOn, AtFrame
  <2>2. PICK as \in {"error", "inline", "hardware"} :
            out' = Append(out, [at |-> base + pos,
                                bytes |-> FrameAt(body, pos), as |-> as])
    BY <1>5 DEF HandOn
  <2>3. /\ FrameAt(body, pos) \in Seq(Byte)
        /\ FrameLen(body, pos) \in Nat
        /\ Len(FrameAt(body, pos)) = FrameLen(body, pos)
    BY <1>0, <2>1, FrameShape, Zenon
  <2> DEFINE e == [at |-> base + pos, bytes |-> FrameAt(body, pos), as |-> as]
  <2>4. e.at = base + pos /\ e.bytes = FrameAt(body, pos) /\ e.as = as
    OBVIOUS
  <2>5. e \in Reply
    <3>1. base + pos \in Nat
      BY <1>0
    <3> QED BY <2>3, <3>1 DEF Reply
  <2>6. out' = Append(out, e)
    BY <2>2
  <2> HIDE DEF e
  <2>7. e.at = base + pos /\ Behind(e) = base + pos + FrameLen(body, pos)
        /\ e.as # "refused"
    BY <2>3, <2>4 DEF Behind
  <2>8. /\ DOMAIN out' = 1 .. Len(out) + 1
        /\ out'[Len(out) + 1] = e
    BY <1>0, <2>5, <2>6, OneMore, Zenon
  <2>9. Len(out) + 1 \in DOMAIN out'
    BY <1>0, <2>8
  <2>10. \A p \in pos .. pos + FrameLen(body, pos) - 1 :
            e.at <= base + p /\ base + p < Behind(e)
    BY <1>0, <2>3, <2>7
  <2>11. \A p \in pos .. pos + FrameLen(body, pos) - 1 :
            \E i \in DOMAIN out' : /\ out'[i].as # "refused"
                                   /\ out'[i].at <= base + p
                                   /\ base + p < Behind(out'[i])
    BY <2>7, <2>8, <2>9, <2>10, Zenon
  <2> QED BY <2>1, <2>3, <2>5, <2>6, <2>11, CoveredKept, Zenon
<1>6. CASE UNCHANGED vars
  BY <1>6 DEF vars, NothingSwallowed, Behind
<1> QED BY <1>1, <1>2, <1>3, <1>4, <1>5, <1>6 DEF Next

(* No intact frame is swallowed by something damaged in front of it.       *)
THEOREM Resynchronises == Spec => []NothingSwallowed
<1>1. Init => NothingSwallowed
  BY DEF Init, NothingSwallowed
<1>2. Spec => [](ScanInv /\ NothingSwallowed)
  BY <1>1, ScanInit, ScanNext, SwallowedNext, PTL DEF Spec
<1> QED BY <1>2, PTL

-----------------------------------------------------------------------------
(* Whole frames.                                                           *)

(* WholeFrames names the places where the frames of a buffer begin.  The   *)
(* scan stands on one of them, and nothing in this buffer was refused.     *)
Tiled(b, cuts) ==
    /\ {0, Len(b)} \subseteq cuts
    /\ \A p \in cuts \ {Len(b)} : FrameHere(b, p) /\ p + FrameLen(b, p) \in cuts

OnCutInv ==
    pc = "scan" =>
        \A cuts \in SUBSET (0 .. Len(body)) : Tiled(body, cuts) =>
            /\ pos \in cuts
            /\ \A i \in DOMAIN out : out[i].as = "refused" => ~(out[i].at >= base)

LEMMA OnCutNext == ScanInv /\ OnCutInv /\ [Next]_vars => OnCutInv'
<1> SUFFICES ASSUME ScanInv, OnCutInv, [Next]_vars PROVE OnCutInv'
  OBVIOUS
<1>0. /\ TypeOK /\ PlaceInv /\ BehindInv /\ pos \in Nat /\ base \in Nat
      /\ Len(out) \in Nat /\ out \in Seq(Reply) /\ Len(body) \in Nat
  BY DEF ScanInv, TypeOK
<1>1. CASE Read
  <2>1. /\ pos' = 0 /\ out' = out /\ base' = base /\ pos = 0
    BY <1>0, <1>1 DEF Read, PlaceInv
  <2>2. \A i \in DOMAIN out : ~(out[i].at >= base)
    <3> SUFFICES ASSUME NEW i \in DOMAIN out PROVE ~(out[i].at >= base)
      OBVIOUS
    <3>1. out[i].at < Behind(out[i]) /\ Behind(out[i]) <= base + pos
      BY <1>0 DEF BehindInv
    <3>2. out[i].at \in Nat /\ Behind(out[i]) \in Nat
      BY <1>0, ReplyPlace
    <3> QED BY <1>0, <2>1, <3>1, <3>2
  <2>3. \A cuts : Tiled(body', cuts) => pos' \in cuts
    BY <2>1 DEF Tiled
  <2> QED BY <2>1, <2>2, <2>3, Zenon DEF OnCutInv
<1>2. CASE ReadEnd \/ WriteDone
  <2>1. pc' # "scan"
    BY <1>2 DEF ReadEnd, WriteDone
  <2> QED BY <2>1 DEF OnCutInv
<1>3. CASE Finish
  <2>1. pc' # "scan"
    BY <1>3 DEF Finish
  <2> QED BY <2>1 DEF OnCutInv
<1>4. ASSUME SkipByte \/ Incomplete \/ Damaged PROVE OnCutInv'
  <2>1. /\ pc = "scan" /\ body' = body /\ pos # Len(body)
    BY <1>4 DEF SkipByte, Incomplete, Damaged, Refuse, AtFrame, Advance, AtEnd
  <2>2. ~FrameHere(body, pos)
    BY <1>0, <1>4, FrameHereIsHandled
  <2>3. \A cuts \in SUBSET (0 .. Len(body)) : ~Tiled(body, cuts)
    <3> SUFFICES ASSUME NEW cuts \in SUBSET (0 .. Len(body)), Tiled(body, cuts)
                 PROVE  FALSE
      OBVIOUS
    <3>1. pos \in cuts \ {Len(body)}
      BY <2>1, Zenon DEF OnCutInv
    <3> QED BY <2>2, <3>1, Zenon DEF Tiled
  <2> QED BY <2>1, <2>3, Zenon DEF OnCutInv
<1>5. ASSUME HandOn PROVE OnCutInv'
  <2>1. /\ pc = "scan" /\ body' = body /\ base' = base /\ pos # Len(body)
        /\ pos' = pos + FrameLen(body, pos) /\ AtFrame /\ Complete(body, pos)
    BY <1>5 DEF HandOn, AtFrame, Advance, AtEnd
  <2>2. PICK as \in {"error", "inline", "hardware"} :
            out' = Append(out, [at |-> base + pos,
                                bytes |-> FrameAt(body, pos), as |-> as])
    BY <1>5 DEF HandOn
  <2> DEFINE e == [at |-> base + pos, bytes |-> FrameAt(body, pos), as |-> as]
  <2>3. e.as # "refused" /\ out' = Append(out, e)
    BY <2>2
  <2>4. e \in Reply
    <3>1. base + pos \in Nat /\ FrameAt(body, pos) \in Seq(Byte)
      BY <1>0, <2>1, FrameShape
    <3> QED BY <3>1 DEF Reply
  <2> HIDE DEF e
  <2>5. /\ DOMAIN out = 1 .. Len(out)
        /\ DOMAIN out' = 1 .. Len(out) + 1
        /\ \A i \in DOMAIN out : out'[i] = out[i]
        /\ out'[Len(out) + 1] = e
    BY <1>0, <2>3, <2>4, OneMore, Zenon
  <2>6. \A i \in DOMAIN out' : i \in DOMAIN out \/ i = Len(out) + 1
    BY <1>0, <2>5
  <2>7. \A i \in DOMAIN out' : out'[i].as = "refused" =>
            i \in DOMAIN out /\ out'[i] = out[i]
    BY <2>3, <2>5, <2>6, Zenon
  <2> SUFFICES ASSUME NEW cuts \in SUBSET (0 .. Len(body)), Tiled(body, cuts)
               PROVE  /\ pos' \in cuts
                      /\ \A i \in DOMAIN out' :
                            out'[i].as = "refused" => ~(out'[i].at >= base)
    BY <2>1, Zenon DEF OnCutInv
  <2>8. pos \in cuts \ {Len(body)}
    BY <2>1, Zenon DEF OnCutInv
  <2>9. pos' \in cuts
    BY <2>1, <2>8, Zenon DEF Tiled
  <2> QED BY <2>1, <2>7, <2>9, Zenon DEF OnCutInv
<1>6. CASE UNCHANGED vars
  BY <1>6 DEF vars, OnCutInv
<1> QED BY <1>1, <1>2, <1>3, <1>4, <1>5, <1>6 DEF Next

(* A buffer that holds nothing but whole intact frames has none refused.   *)
THEOREM WholeFramesAreServed == Spec => []WholeFramesServed
<1>1. Init => OnCutInv
  BY DEF Init, OnCutInv
<1>2. Spec => []OnCutInv
  BY <1>1, ScanInit, ScanNext, OnCutNext, PTL DEF Spec
<1>3. OnCutInv => WholeFramesServed
  BY Zenon DEF OnCutInv, WholeFramesServed, WholeFrames, Tiled
<1> QED BY <1>2, <1>3, PTL
=============================================================================
