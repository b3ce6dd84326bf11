------------------------ MODULE StreamSessionProofs ------------------------
(***************************************************************************)
(* Proofs about StreamSession when every retry dials again (~Reuse): what  *)
(* the sender concludes is true, for files of every size and every window, *)
(* whatever fails.                                                         *)
(***************************************************************************)
EXTENDS StreamSession, TLAPS

\* The end of what has been sent of the file.
SentTo == IF spc = "advance" THEN offset + 1 ELSE offset

\* INIT-ACK has been seen, so that the two ends agree where the file resumes.
Negotiated == spc \notin {"start", "negotiate"} /\ result # "unsupported"

Underway(k) == \E i \in 1 .. Len(net) : net[i].kind = k

\* The transfer cannot complete any more: it has gone, or the chunk at the
\* cursor has been consumed, or DONE has.
Dead ==
    \/ cursor = None
    \/ cursor < SentTo /\ \A i \in 1 .. Len(net) : net[i].kind = "CHUNK" => cursor < net[i].off
    \/ spc \in {"final", "ended"} /\ ~Underway("DONE")

Refusal == saved = 0 /\ Dead /\ ~Underway("INIT")

SenderOK ==
    /\ spc = "ended" <=> result # "none"
    /\ spc \in {"start", "negotiate"} \/ result = "unsupported" =>
         offset = 0 /\ acked = 0 /\ done = None /\ reader = "off" /\ saved = 0
    /\ spc = "start" => net = <<>> /\ back = <<>> /\ cursor = None
    /\ offset <= Size /\ acked <= SentTo
    /\ spc \in {"chunk", "advance"} => offset < Size
    /\ spc \in {"start", "negotiate"} /\ ~up => lost

CursorOK ==
    /\ Len(part) <= Size
    /\ cursor # None => /\ cursor <= Len(part) /\ acked <= cursor /\ saved = 0
                        /\ Negotiated => cursor <= SentTo
    /\ ~serving => ~up /\ cursor = None /\ net = <<>>

\* Frame i on the way to the receiver.
FrameOK(i) ==
    /\ net[i].kind = "INIT" => /\ Len(net) = 1 /\ back = <<>> /\ cursor = None
                               /\ spc = "negotiate" \/ result = "unsupported"
    /\ net[i].kind = "CHUNK" => /\ Negotiated /\ net[i].off < SentTo
                                /\ cursor # None => cursor <= net[i].off
    /\ net[i].kind = "DONE" => /\ i = Len(net) /\ spc \in {"final", "ended"}
                               /\ Negotiated /\ saved = 0

NetOK ==
    /\ \A i \in 1 .. Len(net) : FrameOK(i)
    /\ \A i, j \in 1 .. Len(net) :
         i < j /\ net[i].kind = "CHUNK" /\ net[j].kind = "CHUNK" => net[i].off < net[j].off

\* Answer i on the way back.
AnswerOK(i) ==
    /\ spc = "negotiate" => /\ Len(back) = 1
                            /\ back[i].kind \in {"INITACK", "COMPLETE", "TEXT"}
    /\ back[i].kind = "INITACK" => /\ ~Negotiated /\ back[i].off <= Size
                                   /\ cursor # None => back[i].off = cursor
    /\ back[i].kind = "ACK" => /\ Negotiated /\ back[i].off <= SentTo
                               /\ cursor # None => back[i].off <= cursor
    /\ back[i].kind = "COMPLETE" /\ back[i].ok => saved = 1
    /\ back[i].kind = "COMPLETE" /\ ~back[i].ok => Refusal
    /\ back[i].kind = "TEXT" => legacy \/ lost

BackOK == \A i \in 1 .. Len(back) : AnswerOK(i)

ResultOK ==
    /\ saved \in {0, 1}
    /\ saved = 1 => ~Underway("DONE") /\ spc \in {"final", "ended"}
    /\ done = "ok" \/ result = "ok" => saved = 1
    /\ done = "refused" \/ result = "refused" => Refusal
    /\ result = "unsupported" => legacy \/ lost

IndInv == TypeOK /\ SenderOK /\ CursorOK /\ NetOK /\ BackOK /\ ResultOK /\ NoLostWakeup

-----------------------------------------------------------------------------
(* Sequences of frames. *)

LEMMA Appended ==
    ASSUME NEW S, NEW s \in Seq(S), NEW x \in S
    PROVE  /\ Append(s, x) \in Seq(S) /\ Len(Append(s, x)) = Len(s) + 1
           /\ \A i \in 1 .. Len(s) : Append(s, x)[i] = s[i]
           /\ Append(s, x)[Len(s) + 1] = x
  OBVIOUS

LEMMA Dropped ==
    ASSUME NEW S, NEW s \in Seq(S), s # <<>>
    PROVE  /\ Tail(s) \in Seq(S) /\ Len(s) \in Nat /\ Len(s) >= 1
           /\ Len(Tail(s)) = Len(s) - 1 /\ Head(s) = s[1] /\ Head(s) \in S
           /\ \A i \in 1 .. Len(s) - 1 : Tail(s)[i] = s[i + 1]
  OBVIOUS

LEMMA Elements ==
    ASSUME NEW S, NEW s \in Seq(S)
    PROVE  Len(s) \in Nat /\ \A i \in 1 .. Len(s) : s[i] \in S
  OBVIOUS

LEMMA Offsets ==
    ASSUME TypeOK
    PROVE  /\ Len(net) \in Nat /\ Len(back) \in Nat
           /\ \A i \in 1 .. Len(net) : net[i].off \in Nat
           /\ \A i \in 1 .. Len(back) : back[i].off \in Nat
<1>1. net \in Seq(Frames) /\ back \in Seq(Answers)
  BY DEF TypeOK
<1>2. /\ Len(net) \in Nat /\ \A i \in 1 .. Len(net) : net[i] \in Frames
      /\ Len(back) \in Nat /\ \A i \in 1 .. Len(back) : back[i] \in Answers
  <2> HIDE DEF Frames, Answers
  <2> QED
    BY <1>1, Elements
<1> QED
  BY <1>2 DEF Frames, Answers

-----------------------------------------------------------------------------
(* Steps of the sender that leave the connection and the receiver alone. *)

LEMMA Quiet ==
    ASSUME IndInv,
           UNCHANGED <<net, back, cursor, saved, legacy>>, SentTo' = SentTo,
           Negotiated' <=> Negotiated, lost => lost',
           spc' = "negotiate" => spc = "negotiate",
           spc \in {"final", "ended"} => spc' \in {"final", "ended"},
           spc = "negotiate" \/ result = "unsupported"
             => spc' = "negotiate" \/ result' = "unsupported"
    PROVE  NetOK' /\ BackOK' /\ (Refusal => Refusal')
<1>1. Dead => Dead'
  BY DEF Dead, Underway
<1>2. Refusal => Refusal'
  BY <1>1 DEF Refusal, Underway
<1>3. ASSUME NEW i \in 1 .. Len(net) PROVE FrameOK(i)'
  BY DEF IndInv, NetOK, FrameOK
<1>4. NetOK'
  BY <1>3 DEF IndInv, NetOK
<1>5. ASSUME NEW i \in 1 .. Len(back) PROVE AnswerOK(i)'
  BY <1>2 DEF IndInv, BackOK, AnswerOK
<1> QED
  BY <1>2, <1>4, <1>5 DEF BackOK

\* A step of the sender, or the end of the connection.
LEMMA QuietStep ==
    ASSUME IndInv, TypeOK', SenderOK', NoLostWakeup',
           UNCHANGED <<net, back, cursor, saved, legacy, part, serving, acked>>,
           SentTo' = SentTo, Negotiated' <=> Negotiated, lost => lost', up' => up,
           spc' = "negotiate" => spc = "negotiate",
           spc \in {"final", "ended"} => spc' \in {"final", "ended"},
           spc = "negotiate" \/ result = "unsupported"
             => spc' = "negotiate" \/ result' = "unsupported",
           done' = "ok" \/ result' = "ok" => done = "ok" \/ result = "ok",
           done' = "refused" \/ result' = "refused" => done = "refused" \/ result = "refused",
           result' = "unsupported" => legacy \/ lost'
    PROVE  IndInv'
<1>1. NetOK' /\ BackOK' /\ (Refusal => Refusal')
  BY Quiet
<1>2. CursorOK'
  BY DEF IndInv, CursorOK
<1>3. ResultOK'
  BY <1>1 DEF IndInv, ResultOK, Underway
<1> QED
  BY <1>1, <1>2, <1>3 DEF IndInv

LEMMA NegotiateEnds ==
    ASSUME IndInv, NegotiateError \/ NegotiateTimeout
    PROVE  IndInv'
<1> USE SessionAssumption
<1>0. TypeOK /\ SenderOK
  BY DEF IndInv
<1>1. /\ spc = "negotiate" /\ spc' = "ended" /\ result' = "unsupported"
      /\ UNCHANGED <<offset, notify, done, reader>> /\ faults' \in Nat
  BY <1>0 DEF NegotiateError, NegotiateTimeout, Return, Fine, Loss, history, TypeOK
<1>2. UNCHANGED <<net, back, cursor, saved, legacy, part, serving, acked>> /\ up' = up
  BY DEF NegotiateError, NegotiateTimeout, Return, Fine, Loss, history, link, receiver
<1>3. lost' \in BOOLEAN
  BY <1>0, Zenon DEF NegotiateError, NegotiateTimeout, Fine, Loss, history, TypeOK
<1>4. (lost => lost') /\ (legacy \/ lost')
  BY <1>0 DEF NegotiateError, NegotiateTimeout, Fine, Loss, history, SenderOK
<1>5. SentTo' = SentTo /\ ~Negotiated /\ ~Negotiated'
  BY <1>1 DEF SentTo, Negotiated
<1>6. TypeOK'
  BY <1>0, <1>1, <1>2, <1>3 DEF TypeOK
<1>7. SenderOK'
  BY <1>0, <1>1, <1>2, <1>5 DEF SenderOK
<1>8. NoLostWakeup'
  BY <1>1 DEF NoLostWakeup
<1>9. /\ spc \in {"final", "ended"} => spc' \in {"final", "ended"}
      /\ ~(done' = "ok" \/ result' = "ok") /\ ~(done' = "refused" \/ result' = "refused")
  BY <1>0, <1>1 DEF SenderOK
<1> QED
  BY <1>1, <1>2, <1>4, <1>5, <1>6, <1>7, <1>8, <1>9, QuietStep

\* The steps of the send loop that write no frame.
Local ==
    \/ Gate \/ WaitNotified \/ WaitDone \/ Advance \/ ReadFails \/ FinalDone
    \/ spc # "start" /\ SendFails
    \/ spc = "chunk" /\ Goto("done") /\ UNCHANGED link /\ Fault /\ UNCHANGED receiver

LEMMA LocalStep ==
    ASSUME IndInv, Local
    PROVE  IndInv'
<1> USE SessionAssumption
<1>0. TypeOK /\ SenderOK /\ NoLostWakeup
  BY DEF IndInv
<1>1. UNCHANGED <<net, back, cursor, saved, legacy, part, serving, acked>> /\ up' = up /\ lost' = lost
  BY DEF Local, Gate, WaitNotified, WaitDone, Advance, ReadFails, FinalDone, SendFails, Goto, Return,
         Fine, Fault, history, link, receiver
<1>2. /\ faults' \in Nat /\ reader' = reader /\ offset' \in {offset, offset + 1}
      /\ spc \in {"loop", "wait", "chunk", "advance", "done", "final"}
      /\ spc' \in {"loop", "wait", "chunk", "done", "ended"}
      /\ spc = "final" => spc' = "ended"
  BY <1>0 DEF Local, Gate, WaitNotified, WaitDone, Advance, ReadFails, FinalDone, SendFails, Goto, Return,
         Fine, Fault, history, TypeOK
<1>3. /\ done' \in {done, None} /\ result' \in {"none", "ok", "refused", "failed"}
      /\ spc' = "ended" <=> result' # "none"
      /\ (done' = "ok" \/ result' = "ok") => (done = "ok" \/ result = "ok")
      /\ (done' = "refused" \/ result' = "refused") => (done = "refused" \/ result = "refused")
  BY <1>0, <1>2 DEF Local, Gate, WaitNotified, WaitDone, Advance, ReadFails, FinalDone, SendFails, Goto,
         Return, TypeOK, SenderOK
<1>4. SentTo' = SentTo /\ offset' <= Size /\ (spc' \in {"chunk", "advance"} => offset' < Size)
  <2>1. CASE spc = "advance"
    <3>1. offset' = offset + 1 /\ spc' = "loop"
      BY <2>1 DEF Local, Gate, WaitNotified, WaitDone, Advance, ReadFails, FinalDone, SendFails
    <3>2. offset < Size
      BY <1>0, <2>1 DEF SenderOK
    <3> QED
      BY <1>0, <2>1, <3>1, <3>2 DEF SentTo, TypeOK
  <2>2. CASE spc # "advance"
    <3>1. offset' = offset /\ spc' # "advance"
      BY <1>2, <2>2 DEF Local, Gate, WaitNotified, WaitDone, Advance, ReadFails, FinalDone, SendFails, Goto,
           Return
    <3>2. SentTo' = SentTo /\ offset' <= Size
      BY <1>0, <2>2, <3>1 DEF SentTo, SenderOK
    <3>3. spc' = "chunk" => offset < Size
      BY <1>0 DEF Local, Gate, WaitNotified, WaitDone, Advance, ReadFails, FinalDone, SendFails, Goto, Return,
           TypeOK
    <3> QED
      BY <3>1, <3>2, <3>3
  <2> QED
    BY <2>1, <2>2
<1>5. Negotiated /\ Negotiated' /\ result # "unsupported" /\ result' # "unsupported"
  BY <1>0, <1>2, <1>3 DEF Negotiated, SenderOK
<1>6. notify' \in BOOLEAN
  BY <1>0, Zenon DEF Local, Gate, WaitNotified, WaitDone, Advance, ReadFails, FinalDone, SendFails, Goto,
         Return, TypeOK
<1>7. TypeOK'
  BY <1>0, <1>1, <1>2, <1>3, <1>6 DEF TypeOK
<1>8. SenderOK'
  BY <1>0, <1>1, <1>2, <1>3, <1>4, <1>5 DEF SenderOK
<1>9. NoLostWakeup'
  <2> SUFFICES ASSUME spc' = "wait" PROVE WindowOpen' => notify' \/ reader' = "wake"
    BY DEF NoLostWakeup
  <2>1. Gate /\ ~WindowOpen
    BY DEF Local, Gate, WaitNotified, WaitDone, Advance, ReadFails, FinalDone, SendFails, Goto, Return
  <2>2. offset' = offset /\ acked' = acked
    BY <2>1 DEF Gate, Goto
  <2> QED
    BY <2>1, <2>2 DEF WindowOpen
<1>10. /\ spc \in {"final", "ended"} => spc' \in {"final", "ended"}
       /\ spc' # "negotiate" /\ spc # "negotiate"
  BY <1>2
<1> QED
  BY <1>1, <1>3, <1>4, <1>5, <1>7, <1>8, <1>9, <1>10, QuietStep

\* The first write fails: nothing has been sent.
LEMMA StartFails ==
    ASSUME IndInv, spc = "start", SendFails
    PROVE  IndInv'
<1> USE SessionAssumption
<1>0. TypeOK /\ SenderOK /\ CursorOK /\ ResultOK
  BY DEF IndInv
<1>1. /\ spc' = "ended" /\ result' = "failed"
      /\ UNCHANGED <<offset, acked, notify, done, reader, legacy, lost, faults>>
      /\ UNCHANGED <<up, serving, net, back, cursor, part, saved>>
  BY DEF SendFails, Return, Fine, history, link, receiver
<1>2. /\ net = <<>> /\ back = <<>> /\ cursor = None /\ offset = 0 /\ acked = 0 /\ saved = 0
      /\ done = None /\ reader = "off"
  BY <1>0 DEF SenderOK
<1>3. TypeOK'
  BY <1>0, <1>1 DEF TypeOK
<1>4. SenderOK'
  BY <1>0, <1>1, <1>2 DEF SenderOK, SentTo
<1>5. CursorOK' /\ NetOK' /\ BackOK'
  BY <1>0, <1>1, <1>2 DEF CursorOK, NetOK, BackOK
<1>6. ResultOK'
  BY <1>0, <1>1, <1>2 DEF ResultOK, Underway
<1> QED
  BY <1>1, <1>3, <1>4, <1>5, <1>6 DEF IndInv, NoLostWakeup

\* The read loop wakes the gate, or finds the connection broken.
LEMMA ReaderStep ==
    ASSUME IndInv, Wake \/ ReadError
    PROVE  IndInv'
<1> USE SessionAssumption
<1>0. TypeOK /\ SenderOK /\ NoLostWakeup
  BY DEF IndInv
<1>1. /\ UNCHANGED <<net, back, cursor, saved, legacy, part, serving, acked>> /\ up' = up /\ lost' = lost
      /\ UNCHANGED <<spc, offset, result, faults>>
  BY DEF Wake, ReadError, Fine, history, link, receiver
<1>2. /\ reader' \in {"read", "off"} /\ done' \in {done, "error"} /\ reader # "off"
      /\ reader = "wake" => notify' = TRUE
      /\ reader # "wake" => notify' = notify
  BY DEF Wake, ReadError
<1>3. SentTo' = SentTo /\ (Negotiated' <=> Negotiated)
  BY <1>1 DEF SentTo, Negotiated
<1>4. TypeOK'
  <2>1. notify' \in BOOLEAN
    BY <1>0, <1>2, Zenon DEF TypeOK
  <2> QED
    BY <1>0, <1>1, <1>2, <2>1 DEF TypeOK
<1>5. SenderOK'
  BY <1>0, <1>1, <1>2, <1>3 DEF SenderOK
<1>6. NoLostWakeup'
  BY <1>0, <1>1, <1>2 DEF NoLostWakeup, WindowOpen
<1>7. /\ spc \in {"final", "ended"} => spc' \in {"final", "ended"}
      /\ (done' = "ok" \/ result' = "ok") => (done = "ok" \/ result = "ok")
      /\ (done' = "refused" \/ result' = "refused") => (done = "refused" \/ result = "refused")
  BY <1>0, <1>1, <1>2 DEF TypeOK
<1>8. result' = "unsupported" => legacy \/ lost'
  BY <1>1 DEF IndInv, ResultOK
<1> QED
  BY <1>1, <1>3, <1>4, <1>5, <1>6, <1>7, <1>8, QuietStep

\* The connection goes down: a timer fires, it breaks, or the caller closes.
LEMMA HangUpStep ==
    ASSUME IndInv, WaitTimeout \/ FinalTimeout \/ Break \/ CallerCloses
    PROVE  IndInv'
<1> USE SessionAssumption
<1>0. TypeOK /\ SenderOK /\ NoLostWakeup
  BY DEF IndInv
<1>1. /\ UNCHANGED <<net, back, cursor, saved, legacy, part, serving, acked>> /\ up' = FALSE
      /\ UNCHANGED <<offset, notify, done, reader>> /\ faults' \in Nat
  BY <1>0 DEF WaitTimeout, FinalTimeout, Break, CallerCloses, HangUp, Return, Fine, Fault, Loss, history,
         sender, receiver, TypeOK
<1>2. /\ \/ spc' = spc /\ result' = result
         \/ spc \in {"wait", "final"} /\ spc' = "ended" /\ result' = "failed"
      /\ spc \in {"start", "negotiate"} => lost'
  BY <1>0 DEF WaitTimeout, FinalTimeout, Break, CallerCloses, HangUp, Return, Loss, sender
<1>3. lost' \in BOOLEAN
  BY <1>0, Zenon DEF WaitTimeout, FinalTimeout, Break, CallerCloses, Fine, Fault, Loss, history, TypeOK
<1>4. lost => lost'
  BY Zenon DEF WaitTimeout, FinalTimeout, Break, CallerCloses, Fine, Fault, Loss, history
<1>5. /\ SentTo' = SentTo
      /\ spc \in {"final", "ended"} => spc' \in {"final", "ended"}
      /\ (done' = "ok" \/ result' = "ok") => (done = "ok" \/ result = "ok")
      /\ (done' = "refused" \/ result' = "refused") => (done = "refused" \/ result = "refused")
  BY <1>1, <1>2 DEF SentTo
<1>6. /\ Negotiated' <=> Negotiated
      /\ spc' = "negotiate" <=> spc = "negotiate"
      /\ result' = "unsupported" <=> result = "unsupported"
  BY <1>0, <1>2 DEF Negotiated, SenderOK
<1>7. TypeOK'
  <2>1. up' \in BOOLEAN
    BY <1>1, Zenon
  <2>2. /\ spc' \in {"start", "negotiate", "loop", "wait", "chunk", "advance", "done", "final", "ended"}
        /\ result' \in {"none", "ok", "refused", "failed", "unsupported"}
    BY <1>0, <1>2 DEF TypeOK
  <2> QED
    BY <1>0, <1>1, <1>3, <2>1, <2>2 DEF TypeOK
<1>8. SenderOK'
  BY <1>0, <1>1, <1>2, <1>5, <1>6 DEF SenderOK
<1>9. NoLostWakeup'
  BY <1>0, <1>1, <1>2 DEF NoLostWakeup, WindowOpen
<1>10. result' = "unsupported" => legacy \/ lost'
  BY <1>4, <1>6 DEF IndInv, ResultOK
<1> QED
  BY <1>1, <1>4, <1>5, <1>6, <1>7, <1>8, <1>9, <1>10, QuietStep

-----------------------------------------------------------------------------
(* Steps that write a frame. *)

LEMMA Sending ==
    ASSUME TypeOK, NEW f \in Frames, Send(f)
    PROVE  /\ UNCHANGED <<up, serving, back>> /\ net' \in Seq(Frames)
           /\ \/ net' = net
              \/ /\ Len(net') = Len(net) + 1 /\ net'[Len(net')] = f
                 /\ \A i \in 1 .. Len(net) : net'[i] = net[i]
           /\ Len(net) \in Nat
<1>1. net \in Seq(Frames) /\ Len(net) \in Nat
  BY DEF TypeOK
<1>2. CASE up
  <2>1. net' = Append(net, f)
    BY <1>2 DEF Send
  <2> HIDE DEF Frames
  <2> QED
    BY <1>1, <2>1, Appended DEF Send
<1>3. CASE ~up
  BY <1>1, <1>3 DEF Send
<1> QED
  BY <1>2, <1>3

LEMMA SendInitStep ==
    ASSUME IndInv, SendInit
    PROVE  IndInv'
<1> USE SessionAssumption
<1> DEFINE f == Frame("INIT", 0, "good")
<1>0. TypeOK /\ SenderOK /\ CursorOK /\ ResultOK
  BY DEF IndInv
<1>1. /\ spc = "start" /\ spc' = "negotiate" /\ Send(f)
      /\ UNCHANGED <<offset, acked, notify, done, reader, result, legacy, lost, faults>>
      /\ UNCHANGED <<cursor, part, saved>>
  BY DEF SendInit, Goto, Fine, history, receiver
<1>2. /\ net = <<>> /\ back = <<>> /\ cursor = None /\ offset = 0 /\ acked = 0 /\ saved = 0
      /\ done = None /\ reader = "off" /\ result = "none"
  BY <1>0, <1>1 DEF SenderOK
<1>3. f \in Frames /\ f.kind = "INIT"
  BY DEF Frame, Frames, Blocks
<1>4. /\ UNCHANGED <<up, serving, back>> /\ net' \in Seq(Frames)
      /\ net' = net \/ (Len(net') = 1 /\ net'[1] = f)
  BY <1>0, <1>1, <1>2, <1>3, Sending
<1> HIDE DEF f
<1>5. TypeOK'
  BY <1>0, <1>1, <1>4 DEF TypeOK
<1>6. SenderOK'
  BY <1>0, <1>1, <1>2, <1>4 DEF SenderOK, SentTo
<1>7. CursorOK'
  <2>1. ~serving => net' = <<>>
    BY <1>0, <1>1, <1>2 DEF CursorOK, Send
  <2> QED
    BY <1>0, <1>1, <1>2, <1>4, <2>1 DEF CursorOK
<1>8. NetOK'
  BY <1>1, <1>2, <1>3, <1>4 DEF NetOK, FrameOK
<1>9. BackOK' /\ NoLostWakeup'
  BY <1>1, <1>2, <1>4 DEF BackOK, NoLostWakeup
<1>10. ResultOK'
  BY <1>0, <1>1, <1>2 DEF ResultOK
<1> QED
  BY <1>5, <1>6, <1>7, <1>8, <1>9, <1>10 DEF IndInv

LEMMA SendChunkStep ==
    ASSUME IndInv, NEW b \in Blocks \cup {"long"}, spc = "chunk", Send(Frame("CHUNK", offset, b)),
           Goto("advance"), UNCHANGED <<legacy, lost, cursor, part, saved>>, faults' \in Nat
    PROVE  IndInv'
<1> USE SessionAssumption
<1> DEFINE f == Frame("CHUNK", offset, b)
<1>0. TypeOK /\ SenderOK /\ CursorOK /\ ResultOK /\ NetOK /\ BackOK
  BY DEF IndInv
<1>1. /\ spc' = "advance" /\ UNCHANGED <<offset, acked, notify, done, reader, result>>
      /\ offset \in Nat /\ Size \in Nat /\ acked \in Nat /\ cursor \in Nat \cup {None}
  BY <1>0 DEF Goto, TypeOK
<1>2. /\ SentTo = offset /\ SentTo' = offset + 1 /\ Negotiated /\ Negotiated'
      /\ result = "none" /\ saved = 0 /\ offset < Size
  BY <1>0, <1>1 DEF SentTo, Negotiated, SenderOK, ResultOK
<1>3. f \in Frames /\ f.kind = "CHUNK" /\ f.off = offset
  BY <1>1 DEF Frame, Frames
<1>4. /\ UNCHANGED <<up, serving, back>> /\ net' \in Seq(Frames) /\ Len(net) \in Nat
      /\ \/ net' = net
         \/ /\ Len(net') = Len(net) + 1 /\ net'[Len(net')] = f
            /\ \A i \in 1 .. Len(net) : net'[i] = net[i]
  BY <1>0, <1>3, Sending
<1> HIDE DEF f
<1>5. ASSUME NEW i \in 1 .. Len(net')
      PROVE  \/ i \in 1 .. Len(net) /\ net'[i] = net[i]
             \/ i = Len(net') /\ i = Len(net) + 1 /\ net'[i] = f
  <2>1. CASE net' = net
    BY <2>1
  <2>2. CASE net' # net
    <3>1. i \in 1 .. Len(net) \/ i = Len(net) + 1
      BY <1>4, <2>2
    <3> QED
      BY <1>4, <2>2, <3>1
  <2> QED
    BY <2>1, <2>2
<1>6. \A i \in 1 .. Len(net) : net[i].kind = "CHUNK" => net[i].off < offset
  BY <1>0, <1>2 DEF NetOK, FrameOK
<1>7. \A i \in 1 .. Len(net) : net[i].kind # "INIT" /\ net[i].kind # "DONE"
  BY <1>0, <1>2 DEF NetOK, FrameOK
<1>8. TypeOK'
  BY <1>0, <1>1, <1>4 DEF TypeOK
<1>9. SenderOK'
  BY <1>0, <1>1, <1>2, <1>4 DEF SenderOK
<1>10. CursorOK'
  <2>1. ~serving => net' = <<>>
    BY <1>0 DEF CursorOK, Send
  <2>2. cursor # None => cursor <= SentTo'
    BY <1>0, <1>1, <1>2 DEF CursorOK
  <2> QED
    BY <1>0, <1>1, <1>4, <2>1, <2>2 DEF CursorOK
<1>11. NetOK'
  <2>1. ASSUME NEW i \in 1 .. Len(net') PROVE FrameOK(i)'
    <3>1. net'[i].kind = "CHUNK"
          => net'[i].off < SentTo' /\ (cursor' # None => cursor' <= net'[i].off)
      <4>1. CASE i \in 1 .. Len(net) /\ net'[i] = net[i]
        BY <1>0, <1>1, <1>2, <1>6, <4>1, Offsets DEF NetOK, FrameOK
      <4>2. CASE net'[i] = f
        BY <1>0, <1>1, <1>2, <1>3, <4>2 DEF CursorOK
      <4> QED
        BY <1>5, <4>1, <4>2
    <3>2. net'[i].kind # "INIT" /\ net'[i].kind # "DONE"
      BY <1>3, <1>5, <1>7
    <3> QED
      BY <1>2, <3>1, <3>2 DEF FrameOK
  <2>2. ASSUME NEW i \in 1 .. Len(net'), NEW j \in 1 .. Len(net'), i < j,
               net'[i].kind = "CHUNK", net'[j].kind = "CHUNK"
        PROVE  net'[i].off < net'[j].off
    <3>1. i \in 1 .. Len(net) /\ net'[i] = net[i]
      BY <1>4, <1>5, <2>2
    <3>2. CASE j \in 1 .. Len(net) /\ net'[j] = net[j]
      BY <1>0, <2>2, <3>1, <3>2 DEF NetOK
    <3>3. CASE net'[j] = f
      BY <1>3, <1>6, <2>2, <3>1, <3>3
    <3> QED
      BY <1>5, <3>2, <3>3
  <2> QED
    BY <2>1, <2>2 DEF NetOK
<1>12. Refusal => Refusal'
  <2>1. Dead => Dead'
    <3>1. CASE cursor = None
      BY <3>1 DEF Dead
    <3>2. ASSUME cursor # None, Dead, NEW i \in 1 .. Len(net'), net'[i].kind = "CHUNK"
          PROVE  cursor < net'[i].off
      BY <1>1, <1>2, <1>3, <1>5, <3>2 DEF Dead
    <3>3. cursor # None /\ Dead => cursor < SentTo'
      BY <1>1, <1>2 DEF Dead
    <3> QED
      BY <3>1, <3>2, <3>3 DEF Dead
  <2>2. ~Underway("INIT")'
    BY <1>3, <1>5, <1>7 DEF Underway
  <2> QED
    BY <2>1, <2>2 DEF Refusal
<1>13. BackOK'
  <2>1. ASSUME NEW i \in 1 .. Len(back) PROVE AnswerOK(i)'
    <3>1. back[i].kind = "ACK" => back[i].off <= SentTo'
      <4>1. back[i].off \in Nat
        BY <1>0, Offsets
      <4> QED
        BY <1>0, <1>1, <1>2, <4>1 DEF BackOK, AnswerOK
    <3> QED
      BY <1>0, <1>1, <1>2, <1>4, <1>12, <3>1 DEF BackOK, AnswerOK
  <2> QED
    BY <1>4, <2>1 DEF BackOK
<1>14. ResultOK'
  BY <1>0, <1>1, <1>2, <1>12 DEF ResultOK
<1> QED
  BY <1>1, <1>8, <1>9, <1>10, <1>11, <1>13, <1>14 DEF IndInv, NoLostWakeup

LEMMA SendDoneStep ==
    ASSUME IndInv, SendDone
    PROVE  IndInv'
<1> USE SessionAssumption
<1> DEFINE f == Frame("DONE", 0, "good")
<1>0. TypeOK /\ SenderOK /\ CursorOK /\ ResultOK /\ NetOK /\ BackOK
  BY DEF IndInv
<1>1. /\ spc = "done" /\ spc' = "final" /\ Send(f)
      /\ UNCHANGED <<offset, acked, notify, done, reader, result, legacy, lost, faults>>
      /\ UNCHANGED <<cursor, part, saved>>
  BY DEF SendDone, Goto, Fine, history, receiver
<1>2. /\ SentTo' = SentTo /\ Negotiated /\ Negotiated' /\ result = "none" /\ saved = 0
  BY <1>0, <1>1 DEF SentTo, Negotiated, SenderOK, ResultOK
<1>3. f \in Frames /\ f.kind = "DONE"
  BY DEF Frame, Frames, Blocks
<1>4. /\ UNCHANGED <<up, serving, back>> /\ net' \in Seq(Frames) /\ Len(net) \in Nat
      /\ \/ net' = net
         \/ /\ Len(net') = Len(net) + 1 /\ net'[Len(net')] = f
            /\ \A i \in 1 .. Len(net) : net'[i] = net[i]
  BY <1>0, <1>1, <1>3, Sending
<1> HIDE DEF f
<1>5. ASSUME NEW i \in 1 .. Len(net')
      PROVE  \/ i \in 1 .. Len(net) /\ net'[i] = net[i]
             \/ i = Len(net') /\ i = Len(net) + 1 /\ net'[i] = f
  <2>1. CASE net' = net
    BY <2>1
  <2>2. CASE net' # net
    <3>1. i \in 1 .. Len(net) \/ i = Len(net) + 1
      BY <1>4, <2>2
    <3> QED
      BY <1>4, <2>2, <3>1
  <2> QED
    BY <2>1, <2>2
<1>6. \A i \in 1 .. Len(net) : net[i].kind # "INIT" /\ net[i].kind # "DONE"
  BY <1>0, <1>1, <1>2 DEF NetOK, FrameOK
<1>7. TypeOK'
  BY <1>0, <1>1, <1>4 DEF TypeOK
<1>8. SenderOK'
  BY <1>0, <1>1, <1>2, <1>4 DEF SenderOK
<1>9. CursorOK'
  <2>1. ~serving => net' = <<>>
    BY <1>0, <1>1 DEF CursorOK, Send
  <2> QED
    BY <1>0, <1>1, <1>2, <1>4, <2>1 DEF CursorOK
<1>10. NetOK'
  <2>1. ASSUME NEW i \in 1 .. Len(net') PROVE FrameOK(i)'
    <3>1. CASE i \in 1 .. Len(net) /\ net'[i] = net[i]
      BY <1>0, <1>1, <1>2, <1>6, <3>1 DEF NetOK, FrameOK
    <3>2. CASE i = Len(net') /\ net'[i] = f
      BY <1>1, <1>2, <1>3, <3>2 DEF FrameOK
    <3> QED
      BY <1>5, <3>1, <3>2
  <2>2. ASSUME NEW i \in 1 .. Len(net'), NEW j \in 1 .. Len(net'), i < j,
               net'[i].kind = "CHUNK", net'[j].kind = "CHUNK"
        PROVE  net'[i].off < net'[j].off
    BY <1>0, <1>3, <1>5, <2>2 DEF NetOK
  <2> QED
    BY <2>1, <2>2 DEF NetOK
<1>11. Refusal => Refusal'
  <2>1. Dead => Dead'
    BY <1>1, <1>2, <1>3, <1>5 DEF Dead
  <2>2. ~Underway("INIT")'
    BY <1>3, <1>5, <1>6 DEF Underway
  <2> QED
    BY <1>1, <2>1, <2>2 DEF Refusal
<1>12. BackOK'
  <2>1. ASSUME NEW i \in 1 .. Len(back) PROVE AnswerOK(i)'
    BY <1>0, <1>1, <1>2, <1>4, <1>11 DEF BackOK, AnswerOK
  <2> QED
    BY <1>4, <2>1 DEF BackOK
<1>13. ResultOK'
  BY <1>0, <1>1, <1>2, <1>11 DEF ResultOK
<1> QED
  BY <1>1, <1>7, <1>8, <1>9, <1>10, <1>12, <1>13 DEF IndInv, NoLostWakeup

-----------------------------------------------------------------------------
(* Steps that read an answer. *)

LEMMA NegotiateStep ==
    ASSUME IndInv, Negotiate
    PROVE  IndInv'
<1> USE SessionAssumption
<1> DEFINE f == Head(back)
<1>0. TypeOK /\ SenderOK /\ CursorOK /\ ResultOK /\ NetOK /\ BackOK
  BY DEF IndInv
<1>1. /\ spc = "negotiate" /\ back # <<>> /\ back' = Tail(back)
      /\ UNCHANGED <<up, serving, net, legacy, lost, faults, cursor, part, saved>>
      /\ UNCHANGED <<notify, done>>
  BY DEF Negotiate, Return, Fine, history, receiver
<1>2. /\ f = back[1] /\ f \in Answers /\ Len(back) \in Nat /\ 1 \in 1 .. Len(back)
      /\ back' \in Seq(Answers) /\ Len(back') = Len(back) - 1
  <2>1. back \in Seq(Answers)
    BY <1>0 DEF TypeOK
  <2> HIDE DEF Answers
  <2> QED
    BY <1>1, <2>1, Dropped
<1>3. AnswerOK(1) /\ Len(back) = 1 /\ f.off \in Nat /\ f.kind \in {"INITACK", "COMPLETE", "TEXT"}
  BY <1>0, <1>1, <1>2 DEF BackOK, AnswerOK, Answers
<1>4. BackOK'
  BY <1>2, <1>3 DEF BackOK
<1>5. /\ offset = 0 /\ acked = 0 /\ done = None /\ reader = "off" /\ saved = 0 /\ result = "none"
      /\ ~Negotiated /\ SentTo = 0
  BY <1>0, <1>1 DEF SenderOK, Negotiated, SentTo
<1>6. \A i \in 1 .. Len(net) : FALSE
  <2>1. ASSUME NEW i \in 1 .. Len(net) PROVE FALSE
    <3>1. net[i] \in Frames
      <4>1. net \in Seq(Frames)
        BY <1>0 DEF TypeOK
      <4> HIDE DEF Frames
      <4> QED
        BY <4>1, Elements
    <3>2. FrameOK(i)
      BY <1>0 DEF NetOK
    <3> QED
      BY <1>1, <1>5, <3>1, <3>2 DEF FrameOK, Frames
  <2> QED
    BY <2>1
<1>7. NetOK' /\ ~Underway("DONE")'
  BY <1>1, <1>6 DEF NetOK, Underway
<1> HIDE DEF f
<1>8. CASE f.kind = "INITACK"
  <2>1. offset' = f.off /\ acked' = f.off /\ spc' = "loop" /\ reader' = "read" /\ result' = result
    BY <1>0, <1>2, <1>3, <1>8 DEF Negotiate, AnswerOK, TypeOK, f
  <2>2. f.off <= Size /\ (cursor # None => f.off = cursor)
    BY <1>2, <1>3, <1>8 DEF AnswerOK
  <2>3. Negotiated' /\ SentTo' = f.off
    BY <1>5, <2>1 DEF Negotiated, SentTo
  <2>4. TypeOK'
    BY <1>0, <1>1, <1>2, <1>3, <1>5, <2>1 DEF TypeOK
  <2>5. SenderOK'
    BY <1>0, <1>1, <1>3, <1>5, <2>1, <2>2, <2>3 DEF SenderOK
  <2>6. CursorOK'
    BY <1>0, <1>1, <1>3, <2>1, <2>2, <2>3 DEF CursorOK
  <2>7. ResultOK'
    BY <1>0, <1>1, <1>5, <2>1 DEF ResultOK
  <2> QED
    BY <1>4, <1>7, <2>1, <2>4, <2>5, <2>6, <2>7 DEF IndInv, NoLostWakeup
<1>9. CASE f.kind # "INITACK"
  <2>1. /\ spc' = "ended" /\ UNCHANGED <<offset, acked, reader>>
        /\ result' = IF f.kind = "COMPLETE" THEN "refused" ELSE "unsupported"
    BY <1>3, <1>9 DEF Negotiate, Return, f
  <2>2. f.kind = "COMPLETE" => cursor = None
    BY <1>0, <1>1, <1>2, <1>3, <1>5 DEF AnswerOK, Refusal, Dead, Answers, TypeOK
  <2>3. f.kind # "COMPLETE" => legacy \/ lost
    BY <1>2, <1>3, <1>9 DEF AnswerOK
  <2>4. SentTo' = 0
    BY <1>5, <2>1 DEF SentTo
  <2>5. TypeOK'
    BY <1>0, <1>1, <1>2, <1>5, <2>1 DEF TypeOK
  <2>6. SenderOK'
    BY <1>0, <1>1, <1>5, <2>1, <2>4 DEF SenderOK
  <2>7. CursorOK'
    <3>1. cursor # None => ~Negotiated'
      BY <2>1, <2>2 DEF Negotiated
    <3> QED
      BY <1>0, <1>1, <2>1, <3>1 DEF CursorOK
  <2>8. ResultOK'
    <3>1. result' = "refused" => Refusal'
      BY <1>1, <1>5, <1>6, <2>1, <2>2 DEF Refusal, Dead, Underway
    <3>2. result' = "unsupported" => legacy' \/ lost'
      BY <1>1, <2>1, <2>3
    <3>3. done' # "ok" /\ done' # "refused" /\ result' # "ok" /\ saved' = 0
      BY <1>1, <1>5, <2>1
    <3> QED
      BY <3>1, <3>2, <3>3 DEF ResultOK
  <2> QED
    BY <1>4, <1>7, <2>1, <2>5, <2>6, <2>7, <2>8 DEF IndInv, NoLostWakeup
<1> QED
  BY <1>8, <1>9

LEMMA ReadAnswerStep ==
    ASSUME IndInv, ReadAnswer
    PROVE  IndInv'
<1> USE SessionAssumption
<1> DEFINE f == Head(back)
<1>0. TypeOK /\ SenderOK /\ CursorOK /\ ResultOK /\ NetOK /\ BackOK /\ NoLostWakeup
  BY DEF IndInv
<1>1. /\ reader = "read" /\ back # <<>> /\ back' = Tail(back)
      /\ UNCHANGED <<up, serving, net, legacy, lost, faults, cursor, part, saved>>
      /\ UNCHANGED <<spc, offset, notify, result>>
  BY DEF ReadAnswer, Fine, history, receiver
<1>2. /\ f = back[1] /\ f \in Answers /\ Len(back) \in Nat /\ 1 \in 1 .. Len(back)
      /\ back' \in Seq(Answers) /\ Len(back') = Len(back) - 1
      /\ \A i \in 1 .. Len(back') : back'[i] = back[i + 1]
  <2>1. back \in Seq(Answers)
    BY <1>0 DEF TypeOK
  <2> HIDE DEF Answers
  <2> QED
    BY <1>1, <2>1, Dropped
<1>3. /\ spc # "negotiate" /\ spc # "start" /\ result # "unsupported"
      /\ Negotiated /\ Negotiated' /\ SentTo' = SentTo
  BY <1>0, <1>1 DEF SenderOK, Negotiated, SentTo
<1>4. Refusal => Refusal'
  BY <1>1, <1>3 DEF Refusal, Dead, Underway
<1>5. NetOK'
  <2>1. ASSUME NEW i \in 1 .. Len(net) PROVE FrameOK(i)'
    BY <1>0, <1>1, <1>3 DEF NetOK, FrameOK
  <2> QED
    BY <1>0, <1>1, <2>1 DEF NetOK
<1>6. BackOK'
  <2>1. ASSUME NEW i \in 1 .. Len(back') PROVE AnswerOK(i)'
    <3>1. i + 1 \in 1 .. Len(back) /\ back'[i] = back[i + 1]
      BY <1>2
    <3>2. AnswerOK(i + 1)
      BY <1>0, <3>1 DEF BackOK
    <3> QED
      BY <1>1, <1>3, <1>4, <3>1, <3>2 DEF AnswerOK
  <2> QED
    BY <2>1 DEF BackOK
<1>7. AnswerOK(1) /\ f.off \in Nat
  BY <1>0, <1>2 DEF BackOK, Answers
<1> HIDE DEF f
<1>8. /\ acked' = acked \/ (f.kind = "ACK" /\ acked' = f.off /\ reader' = "wake")
      /\ done' \in {done, "ok", "refused", "error"} /\ reader' \in {"off", "read", "wake"}
      /\ done' = "ok" => done = "ok" \/ (f.kind = "COMPLETE" /\ f.ok)
      /\ done' = "refused" => done = "refused" \/ (f.kind = "COMPLETE" /\ ~f.ok)
  BY <1>1 DEF ReadAnswer, ReadAck, f
<1>9. /\ acked' \in Nat /\ acked' <= SentTo
      /\ cursor # None => acked' <= cursor
  BY <1>0, <1>2, <1>3, <1>7, <1>8 DEF AnswerOK, SenderOK, CursorOK, TypeOK
<1>10. TypeOK'
  <2>1. /\ done' \in {None, "ok", "refused", "error"} /\ reader' \in {"off", "read", "wake"}
        /\ acked' \in Nat /\ back' \in Seq(Answers)
    BY <1>0, <1>2, <1>8, <1>9 DEF TypeOK
  <2> QED
    BY <1>0, <1>1, <2>1 DEF TypeOK
<1>11. SenderOK'
  BY <1>0, <1>1, <1>3, <1>9 DEF SenderOK
<1>12. CursorOK'
  BY <1>0, <1>1, <1>3, <1>9 DEF CursorOK
<1>13. ResultOK'
  <2>1. done' = "ok" => saved = 1
    BY <1>0, <1>2, <1>7, <1>8 DEF AnswerOK, ResultOK
  <2>2. done' = "refused" => Refusal
    BY <1>0, <1>2, <1>7, <1>8 DEF AnswerOK, ResultOK
  <2> QED
    BY <1>0, <1>1, <1>4, <2>1, <2>2 DEF ResultOK, Underway
<1>14. NoLostWakeup'
  <2>1. CASE acked' = acked
    BY <1>0, <1>1, <2>1 DEF NoLostWakeup, WindowOpen
  <2>2. CASE acked' # acked
    BY <1>8, <2>2 DEF NoLostWakeup
  <2> QED
    BY <2>1, <2>2
<1> QED
  BY <1>5, <1>6, <1>10, <1>11, <1>12, <1>13, <1>14 DEF IndInv

-----------------------------------------------------------------------------
(* Steps of the receiver. *)

\* What Handle does to the two directions of the connection.
LEMMA Handled ==
    ASSUME TypeOK, NEW k, NEW a \in Answers, Handle(k, a)
    PROVE  /\ UNCHANGED <<spc, offset, acked, notify, done, reader, result, up, serving>> /\ serving
           /\ Len(net) \in Nat /\ 1 \in 1 .. Len(net) /\ Head(net) = net[1] /\ net[1].kind = k
           /\ net' \in Seq(Frames) /\ Len(net') = Len(net) - 1
           /\ \A i \in 1 .. Len(net') : i + 1 \in 1 .. Len(net) /\ net'[i] = net[i + 1]
           /\ back' \in Seq(Answers)
           /\ \/ back' = back
              \/ /\ Len(back') = Len(back) + 1 /\ back'[Len(back) + 1] = a
                 /\ \A i \in 1 .. Len(back) : back'[i] = back[i]
           /\ \A i \in 1 .. Len(back') : (i \in 1 .. Len(back) /\ back'[i] = back[i]) \/ back'[i] = a
<1>1. net \in Seq(Frames) /\ back \in Seq(Answers)
  BY DEF TypeOK
<1>2. net # <<>> /\ net' = Tail(net) /\ Head(net).kind = k /\ serving
  BY DEF Handle
<1>3. UNCHANGED <<spc, offset, acked, notify, done, reader, result, up, serving>>
  BY DEF Handle, sender
<1> HIDE DEF Frames, Answers
<1>4. /\ Len(net) \in Nat /\ Len(net) >= 1 /\ Head(net) = net[1]
      /\ net' \in Seq(Frames) /\ Len(net') = Len(net) - 1
      /\ \A i \in 1 .. Len(net) - 1 : net'[i] = net[i + 1]
  BY <1>1, <1>2, Dropped
<1>5. /\ Len(back) \in Nat /\ back' \in Seq(Answers)
      /\ \/ back' = back
         \/ /\ Len(back') = Len(back) + 1 /\ back'[Len(back) + 1] = a
            /\ \A i \in 1 .. Len(back) : back'[i] = back[i]
  <2>1. CASE up
    BY <1>1, <2>1, Appended DEF Handle
  <2>2. CASE ~up
    BY <1>1, <2>2 DEF Handle
  <2> QED
    BY <2>1, <2>2
<1>6. ASSUME NEW i \in 1 .. Len(net') PROVE i + 1 \in 1 .. Len(net) /\ net'[i] = net[i + 1]
  BY <1>4
<1>7. ASSUME NEW i \in 1 .. Len(back')
      PROVE  (i \in 1 .. Len(back) /\ back'[i] = back[i]) \/ back'[i] = a
  <2>1. CASE back' = back
    BY <2>1
  <2>2. CASE back' # back
    <3>1. i \in 1 .. Len(back) \/ i = Len(back) + 1
      BY <1>5, <2>2
    <3> QED
      BY <1>5, <2>2, <3>1
  <2> QED
    BY <2>1, <2>2
<1>8. 1 \in 1 .. Len(net) /\ net[1].kind = k
  BY <1>2, <1>4
<1> QED
  BY <1>2, <1>3, <1>4, <1>5, <1>6, <1>7, <1>8

\* INIT is the only frame, and its answer the only answer.
LEMMA InitHandled ==
    ASSUME IndInv, NEW a \in Answers, Handle("INIT", a)
    PROVE  /\ cursor = None /\ ~Negotiated /\ saved = 0 /\ offset = 0 /\ acked = 0 /\ done = None
           /\ reader = "off" /\ spc \in {"negotiate", "ended"}
           /\ \A i \in 1 .. Len(net') : FALSE
           /\ \A i \in 1 .. Len(back') : Len(back') = 1 /\ back'[i] = a
<1>1. TypeOK /\ SenderOK /\ NetOK
  BY DEF IndInv
<1>2. /\ Len(net) \in Nat /\ 1 \in 1 .. Len(net) /\ net[1].kind = "INIT" /\ Len(net') = Len(net) - 1
      /\ \A i \in 1 .. Len(back') : (i \in 1 .. Len(back) /\ back'[i] = back[i]) \/ back'[i] = a
      /\ back' = back \/ Len(back') = Len(back) + 1
  BY <1>1, Handled
<1>3. FrameOK(1)
  BY <1>1, <1>2 DEF NetOK
<1>4. /\ Len(net) = 1 /\ back = <<>> /\ cursor = None
      /\ spc = "negotiate" \/ result = "unsupported"
  BY <1>2, <1>3, Zenon DEF FrameOK
<1>5. /\ ~Negotiated /\ saved = 0 /\ offset = 0 /\ acked = 0 /\ done = None
      /\ reader = "off" /\ spc \in {"negotiate", "ended"}
  BY <1>1, <1>4 DEF SenderOK, Negotiated
<1>6. \A i \in 1 .. Len(net') : FALSE
  BY <1>2, <1>4
<1>7. \A i \in 1 .. Len(back') : Len(back') = 1 /\ back'[i] = a
  BY <1>2, <1>4
<1> QED
  BY <1>4, <1>5, <1>6, <1>7

LEMMA NoIsAnswer ==
    No \in Answers /\ No.kind = "COMPLETE" /\ ~No.ok
  BY DEF No, Answer, Answers

LEMMA HandleInitStep ==
    ASSUME IndInv, HandleLegacy \/ HandleInit \/ HandleInitRefused
    PROVE  IndInv'
<1> USE SessionAssumption
<1>0. TypeOK /\ SenderOK /\ CursorOK /\ ResultOK
  BY DEF IndInv
<1>1. PICK a \in Answers :
        /\ Handle("INIT", a)
        /\ \/ a = Answer("TEXT", 0, FALSE) /\ legacy /\ cursor' = cursor
           \/ a = Answer("INITACK", Len(part), FALSE) /\ cursor' = Len(part)
           \/ a = No /\ cursor' = cursor
        /\ UNCHANGED <<part, saved, legacy, lost>> /\ faults' \in Nat
  <2>1. part \in Seq(Blocks) /\ Len(part) \in Nat /\ faults \in Nat
    BY <1>0 DEF TypeOK
  <2>2. /\ Answer("TEXT", 0, FALSE) \in Answers /\ No \in Answers
        /\ Answer("INITACK", Len(part), FALSE) \in Answers
    BY <2>1 DEF Answer, Answers, No
  <2>3. CASE HandleLegacy
    <3>1. /\ Handle("INIT", Answer("TEXT", 0, FALSE)) /\ legacy /\ cursor' = cursor
          /\ UNCHANGED <<part, saved, legacy, lost, faults>>
      BY <2>3, Zenon DEF HandleLegacy, Fine, history, receiver
    <3> QED
      BY <2>1, <2>2, <3>1, Zenon
  <2>4. CASE HandleInit
    BY <2>1, <2>2, <2>4, Zenon DEF HandleInit, Fine, history
  <2>5. CASE HandleInitRefused
    <3>1. /\ Handle("INIT", No) /\ cursor' = cursor
          /\ UNCHANGED <<part, saved, legacy, lost>> /\ faults' = faults + 1
      BY <2>5 DEF HandleInitRefused, Fault, receiver
    <3>2. faults' \in Nat
      BY <2>1, <3>1
    <3> QED
      BY <2>2, <3>1, <3>2, Zenon
  <2> QED
    BY <2>3, <2>4, <2>5, Zenon
<1>2. /\ UNCHANGED <<spc, offset, acked, notify, done, reader, result, up, serving>> /\ serving
      /\ net' \in Seq(Frames) /\ back' \in Seq(Answers)
  BY <1>0, <1>1, Handled
<1>3. /\ cursor = None /\ ~Negotiated /\ saved = 0 /\ offset = 0 /\ acked = 0 /\ done = None
      /\ reader = "off" /\ spc \in {"negotiate", "ended"}
      /\ \A i \in 1 .. Len(net') : FALSE
      /\ \A i \in 1 .. Len(back') : Len(back') = 1 /\ back'[i] = a
  BY <1>1, InitHandled
<1>4. ~Negotiated' /\ SentTo' = SentTo
  BY <1>2, <1>3 DEF Negotiated, SentTo
<1>5. Len(part) \in Nat /\ Len(part) <= Size /\ cursor' \in {None, Len(part)}
  <2>1. part \in Seq(Blocks)
    BY <1>0 DEF TypeOK
  <2>2. Len(part) \in Nat
    BY <2>1
  <2>3. Len(part) <= Size
    BY <1>0 DEF CursorOK
  <2> QED
    BY <1>1, <1>3, <2>2, <2>3, Zenon
<1>6. TypeOK'
  BY <1>0, <1>1, <1>2, <1>5 DEF TypeOK
<1>7. SenderOK'
  BY <1>0, <1>1, <1>2, <1>3, <1>4 DEF SenderOK
<1>8. CursorOK'
  BY <1>0, <1>1, <1>2, <1>3, <1>4, <1>5 DEF CursorOK
<1>9. NetOK'
  BY <1>3 DEF NetOK
<1>10. BackOK'
  <2>1. a = No => Refusal'
    <3>1. a = No => cursor' = None /\ saved' = 0
      <4>1. a = Answer("INITACK", Len(part), FALSE) => a.kind = "INITACK"
        BY DEF Answer
      <4>2. a = No => a # Answer("INITACK", Len(part), FALSE)
        BY <4>1, NoIsAnswer, Zenon
      <4> QED
        BY <1>1, <1>3, <4>2, Zenon
    <3>2. ~Underway("INIT")'
      BY <1>3 DEF Underway
    <3> QED
      BY <3>1, <3>2 DEF Refusal, Dead
  <2>2. ASSUME NEW i \in 1 .. Len(back') PROVE AnswerOK(i)'
    <3>1. Len(back') = 1 /\ back'[i] = a
      BY <1>3, Zenon
    <3>2. CASE a = Answer("TEXT", 0, FALSE) /\ legacy
      BY <1>1, <3>1, <3>2 DEF AnswerOK, Answer
    <3>3. CASE a = Answer("INITACK", Len(part), FALSE) /\ cursor' = Len(part)
      BY <1>4, <1>5, <3>1, <3>3 DEF AnswerOK, Answer
    <3>4. CASE a = No
      BY <2>1, <3>1, <3>4 DEF AnswerOK, Answer, No
    <3> QED
      BY <1>1, <3>2, <3>3, <3>4, Zenon
  <2> QED
    BY <2>2 DEF BackOK
<1>11. ResultOK'
  <2>1. result # "refused" /\ result # "ok"
    BY <1>3, <1>0 DEF Negotiated, SenderOK
  <2> QED
    BY <1>0, <1>1, <1>2, <1>3, <2>1 DEF ResultOK
<1> QED
  BY <1>2, <1>3, <1>6, <1>7, <1>8, <1>9, <1>10, <1>11 DEF IndInv, NoLostWakeup

LEMMA HandleNoDirStep ==
    ASSUME IndInv, HandleNoDir
    PROVE  IndInv'
<1> USE SessionAssumption
<1> DEFINE a == Answer("TEXT", 0, FALSE)
<1>0. TypeOK /\ SenderOK /\ CursorOK /\ ResultOK /\ NetOK
  BY DEF IndInv
<1>1. /\ net # <<>> /\ net' = Tail(net) /\ Head(net).kind = "INIT" /\ back' = Append(back, a)
      /\ up' = FALSE /\ lost' = TRUE /\ faults' \in Nat /\ serving' = serving /\ serving
      /\ UNCHANGED <<spc, offset, acked, notify, done, reader, result, legacy>>
      /\ UNCHANGED <<cursor, part, saved>>
  BY <1>0 DEF HandleNoDir, Loss, sender, receiver, TypeOK
<1>2. /\ Len(net) \in Nat /\ Len(net) >= 1 /\ net[1].kind = "INIT"
      /\ net' \in Seq(Frames) /\ Len(net') = Len(net) - 1
  <2>1. net \in Seq(Frames)
    BY <1>0 DEF TypeOK
  <2> HIDE DEF Frames
  <2> QED
    BY <1>1, <2>1, Dropped
<1>3. FrameOK(1)
  BY <1>0, <1>2 DEF NetOK
<1>4. /\ Len(net) = 1 /\ back = <<>> /\ cursor = None
      /\ spc = "negotiate" \/ result = "unsupported"
  BY <1>2, <1>3 DEF FrameOK
<1>5. back' \in Seq(Answers) /\ Len(back') = 1 /\ back'[1] = a
  <2>1. back' = <<a>>
    BY <1>1, <1>4
  <2>2. a \in Answers
    BY DEF Answers, Answer
  <2> HIDE DEF Answers, a
  <2> QED
    BY <2>1, <2>2
<1>6. /\ ~Negotiated /\ saved = 0 /\ offset = 0 /\ acked = 0 /\ done = None
      /\ spc \in {"negotiate", "ended"} /\ result # "refused" /\ result # "ok"
  BY <1>0, <1>4 DEF SenderOK, Negotiated
<1>7. ~Negotiated' /\ SentTo' = SentTo
  BY <1>1, <1>6 DEF Negotiated, SentTo
<1>8. TypeOK'
  <2>1. up' \in BOOLEAN /\ lost' \in BOOLEAN /\ serving' \in BOOLEAN
    BY <1>0, <1>1, Zenon DEF TypeOK
  <2>2. /\ UNCHANGED <<spc, offset, acked, notify, done, reader, result, legacy>>
        /\ UNCHANGED <<cursor, part, saved>> /\ faults' \in Nat
    BY <1>1
  <2> QED
    BY <1>0, <1>2, <1>5, <2>1, <2>2 DEF TypeOK
<1>9. SenderOK'
  BY <1>0, <1>1, <1>6, <1>7, Zenon DEF SenderOK
<1>10. CursorOK'
  BY <1>0, <1>1, <1>4 DEF CursorOK
<1>11. NetOK'
  <2>1. Len(net') = 0
    BY <1>2, <1>4
  <2> QED
    BY <2>1 DEF NetOK
<1>12. BackOK'
  <2>1. ASSUME NEW i \in 1 .. Len(back') PROVE AnswerOK(i)'
    <3>1. back'[i].kind = "TEXT" /\ Len(back') = 1
      BY <1>5 DEF Answer
    <3>2. lost'
      BY <1>1
    <3> QED
      BY <3>1, <3>2 DEF AnswerOK
  <2> QED
    BY <2>1 DEF BackOK
<1>13. ResultOK'
  <2>1. saved' = 0 /\ done' = None /\ lost' /\ result' \notin {"ok", "refused"}
    BY <1>1, <1>6
  <2> QED
    BY <2>1 DEF ResultOK
<1> QED
  BY <1>1, <1>6, <1>8, <1>9, <1>10, <1>11, <1>12, <1>13 DEF IndInv, NoLostWakeup

LEMMA WrittenLen ==
    ASSUME TypeOK, NEW o \in Nat, NEW b \in Blocks, o <= Len(part)
    PROVE  /\ Written(o, b) \in Seq(Blocks)
           /\ Len(Written(o, b)) = IF o = Len(part) THEN o + 1 ELSE Len(part)
<1>1. part \in Seq(Blocks)
  BY DEF TypeOK
<1> DEFINE n == IF o = Len(part) THEN o + 1 ELSE Len(part)
           w == [i \in 1 .. n |-> IF i = o + 1 THEN b ELSE part[i]]
<1> HIDE DEF Blocks
<1>2. n \in Nat /\ \A i \in 1 .. n : i = o + 1 \/ i \in 1 .. Len(part)
  BY <1>1
<1> HIDE DEF n
<1>3. \A i \in 1 .. n : w[i] \in Blocks
  BY <1>1, <1>2
<1>4. w \in Seq(Blocks) /\ Len(w) = n
  BY <1>2, <1>3
<1> QED
  BY <1>4 DEF Written, n

\* A frame of a transfer that the two ends have agreed on is next.
LEMMA NextFrame ==
    ASSUME IndInv, NEW a \in Answers, NEW k \in {"CHUNK", "DONE"}, Handle(k, a)
    PROVE  /\ Negotiated /\ spc \notin {"start", "negotiate"} /\ result # "unsupported"
           /\ \A i \in 1 .. Len(net) : net[i].kind # "INIT"
           /\ k = "CHUNK" => /\ net[1].off \in Nat /\ net[1].off < SentTo
                             /\ cursor # None => cursor <= net[1].off
                             /\ \A i \in 1 .. Len(net') : net'[i].kind = "CHUNK" => net[1].off < net'[i].off
           /\ k = "DONE" => /\ Len(net) = 1 /\ \A i \in 1 .. Len(net') : FALSE
                            /\ spc \in {"final", "ended"} /\ saved = 0
<1>1. TypeOK /\ NetOK
  BY DEF IndInv
<1>2. /\ Len(net) \in Nat /\ 1 \in 1 .. Len(net) /\ net[1].kind = k /\ Len(net') = Len(net) - 1
      /\ \A i \in 1 .. Len(net') : i + 1 \in 1 .. Len(net) /\ net'[i] = net[i + 1]
  BY <1>1, Handled
<1>3. FrameOK(1)
  BY <1>1, <1>2 DEF NetOK
<1>4. Negotiated /\ spc \notin {"start", "negotiate"} /\ result # "unsupported"
  BY <1>2, <1>3 DEF FrameOK, Negotiated
<1>5. \A i \in 1 .. Len(net) : net[i].kind # "INIT"
  BY <1>1, <1>4 DEF NetOK, FrameOK
<1>6. CASE k = "CHUNK"
  <2>1. net[1].off \in Nat /\ net[1].off < SentTo /\ (cursor # None => cursor <= net[1].off)
    BY <1>1, <1>2, <1>3, <1>6, Offsets DEF FrameOK
  <2>2. ASSUME NEW i \in 1 .. Len(net'), net'[i].kind = "CHUNK" PROVE net[1].off < net'[i].off
    <3>1. i + 1 \in 1 .. Len(net) /\ net'[i] = net[i + 1] /\ 1 < i + 1
      BY <1>2
    <3> QED
      BY <1>1, <1>2, <1>6, <2>2, <3>1 DEF NetOK
  <2> QED
    BY <1>4, <1>5, <1>6, <2>1, <2>2
<1>7. CASE k = "DONE"
  <2>1. Len(net) = 1 /\ spc \in {"final", "ended"} /\ saved = 0
    BY <1>2, <1>3, <1>7, Zenon DEF FrameOK
  <2>2. \A i \in 1 .. Len(net') : FALSE
    BY <1>2, <2>1
  <2> QED
    BY <1>4, <1>5, <1>7, <2>1, <2>2
<1> QED
  BY <1>6, <1>7

\* Such a frame is handled, and nothing is delivered.
CursorMoves ==
    cursor' # None =>
      /\ cursor # None /\ cursor <= cursor' /\ cursor' <= Len(part') /\ cursor' <= SentTo
      /\ \A i \in 1 .. Len(net') : net'[i].kind = "CHUNK" => cursor' <= net'[i].off

AnswerFits(a) ==
    /\ a.kind \in {"ACK", "ABORT", "COMPLETE"}
    /\ a.kind = "ACK" => cursor' # None /\ a.off <= cursor'
    /\ a.kind = "COMPLETE" => ~a.ok /\ Refusal'

Undelivered ==
    /\ UNCHANGED <<saved, legacy, lost>> /\ faults' \in Nat
    /\ cursor' \in Nat \cup {None} /\ part' \in Seq(Blocks) /\ Len(part') <= Size
    /\ Refusal => Refusal'

LEMMA FrameStep ==
    ASSUME IndInv, NEW a \in Answers, NEW k \in {"CHUNK", "DONE"}, Handle(k, a),
           CursorMoves, AnswerFits(a), Undelivered
    PROVE  IndInv'
<1> USE SessionAssumption
<1>0. TypeOK /\ SenderOK /\ CursorOK /\ ResultOK /\ NetOK /\ BackOK /\ NoLostWakeup
  BY DEF IndInv
<1>1. /\ UNCHANGED <<spc, offset, acked, notify, done, reader, result, up, serving>> /\ serving
      /\ net' \in Seq(Frames) /\ back' \in Seq(Answers)
  BY <1>0, Handled
<1>2. /\ Len(net) \in Nat /\ Len(net') = Len(net) - 1
      /\ \A i \in 1 .. Len(net') : i + 1 \in 1 .. Len(net) /\ net'[i] = net[i + 1]
      /\ \A i \in 1 .. Len(back') : (i \in 1 .. Len(back) /\ back'[i] = back[i]) \/ back'[i] = a
  BY <1>0, Handled
<1>3. /\ Negotiated /\ spc \notin {"start", "negotiate"} /\ result # "unsupported"
      /\ \A i \in 1 .. Len(net) : net[i].kind # "INIT"
  BY NextFrame
<1>4. Negotiated' /\ SentTo' = SentTo /\ SentTo \in Nat
  BY <1>0, <1>1, <1>3 DEF Negotiated, SentTo, TypeOK
<1>5. UNCHANGED <<saved, legacy, lost>> /\ (Refusal => Refusal')
  BY DEF Undelivered
<1>6. TypeOK'
  <2>1. /\ cursor' \in Nat \cup {None} /\ part' \in Seq(Blocks) /\ faults' \in Nat
        /\ UNCHANGED <<saved, legacy, lost>>
    BY DEF Undelivered
  <2> QED
    BY <1>0, <1>1, <2>1 DEF TypeOK
<1>7. SenderOK'
  BY <1>0, <1>1, <1>3, <1>4 DEF SenderOK
<1>8. CursorOK'
  <2>1. /\ cursor' # None => cursor # None /\ cursor <= cursor' /\ cursor' <= Len(part') /\ cursor' <= SentTo
        /\ Len(part') <= Size
    BY DEF CursorMoves, Undelivered
  <2>2. cursor' # None => cursor \in Nat /\ cursor' \in Nat /\ acked \in Nat
    BY <1>0, <1>6, <2>1 DEF TypeOK
  <2>3. cursor' # None => acked <= cursor' /\ saved = 0
    BY <1>0, <2>1, <2>2 DEF CursorOK
  <2> QED
    BY <1>1, <1>4, <1>5, <2>1, <2>3 DEF CursorOK
<1>9. NetOK'
  <2>1. ASSUME NEW i \in 1 .. Len(net') PROVE FrameOK(i)'
    <3>1. i + 1 \in 1 .. Len(net) /\ net'[i] = net[i + 1]
      BY <1>2
    <3>2. FrameOK(i + 1)
      BY <1>0, <3>1 DEF NetOK
    <3>3. net'[i].kind # "INIT"
      BY <1>3, <3>1
    <3>4. net'[i].kind = "DONE" => i + 1 = Len(net) /\ spc \in {"final", "ended"} /\ saved = 0
      BY <3>1, <3>2 DEF FrameOK
    <3>5. i + 1 = Len(net) => i = Len(net')
      BY <1>2
    <3>6. net'[i].kind = "CHUNK" => net'[i].off < SentTo /\ (cursor' # None => cursor' <= net'[i].off)
      BY <3>1, <3>2 DEF FrameOK, CursorMoves
    <3> QED
      BY <1>1, <1>4, <1>5, <3>3, <3>4, <3>5, <3>6 DEF FrameOK
  <2>2. ASSUME NEW i \in 1 .. Len(net'), NEW j \in 1 .. Len(net'), i < j,
               net'[i].kind = "CHUNK", net'[j].kind = "CHUNK"
        PROVE  net'[i].off < net'[j].off
    <3>1. /\ i + 1 \in 1 .. Len(net) /\ net'[i] = net[i + 1]
          /\ j + 1 \in 1 .. Len(net) /\ net'[j] = net[j + 1]
      BY <1>2, Zenon
    <3>2. i \in Nat /\ j \in Nat
      BY <1>2
    <3>3. i + 1 < j + 1
      BY <2>2, <3>2
    <3> QED
      BY <1>0, <2>2, <3>1, <3>3 DEF NetOK
  <2> QED
    BY <2>1, <2>2 DEF NetOK
<1>10. BackOK'
  <2>1. ASSUME NEW i \in 1 .. Len(back') PROVE AnswerOK(i)'
    <3>1. CASE i \in 1 .. Len(back) /\ back'[i] = back[i]
      <4>1. AnswerOK(i)
        BY <1>0, <3>1 DEF BackOK
      <4>2. back[i].kind = "ACK" /\ cursor' # None => back[i].off <= cursor'
        <5>1. cursor' # None => /\ cursor # None /\ cursor <= cursor'
                                /\ cursor \in Nat /\ cursor' \in Nat
          BY <1>0, <1>6 DEF CursorMoves, TypeOK
        <5>2. back[i].off \in Nat
          BY <1>0, <3>1, Offsets
        <5>3. back[i].kind = "ACK" /\ cursor # None => back[i].off <= cursor
          BY <4>1 DEF AnswerOK
        <5> DEFINE o == back[i].off
        <5>4. back[i].kind = "ACK" /\ cursor' # None =>
                o <= cursor /\ cursor <= cursor' /\ o \in Nat /\ cursor \in Nat /\ cursor' \in Nat
          BY <5>1, <5>2, <5>3, Zenon
        <5> HIDE DEF o
        <5>5. back[i].kind = "ACK" /\ cursor' # None => o <= cursor'
          BY <5>4
        <5> QED
          BY <5>5 DEF o
      <4>3. back[i].kind # "INITACK"
        BY <1>3, <4>1 DEF AnswerOK
      <4> QED
        BY <1>1, <1>3, <1>4, <1>5, <3>1, <4>1, <4>2, <4>3 DEF AnswerOK
    <3>2. CASE back'[i] = a
      <4>1. a.kind = "ACK" => a.off <= SentTo
        <5>1. a.off \in Nat
          BY DEF Answers
        <5>2. cursor' # None => cursor' \in Nat /\ cursor' <= SentTo
          BY <1>6 DEF TypeOK, CursorMoves
        <5> QED
          BY <1>4, <5>1, <5>2 DEF AnswerFits
      <4> QED
        BY <1>1, <1>3, <1>4, <3>2, <4>1 DEF AnswerOK, AnswerFits
    <3> QED
      BY <1>2, <3>1, <3>2
  <2> QED
    BY <2>1 DEF BackOK
<1>11. ResultOK'
  <2>1. saved = 1 => ~Underway("DONE")'
    BY <1>0, <1>2 DEF ResultOK, Underway
  <2> QED
    BY <1>0, <1>1, <1>5, <2>1 DEF ResultOK
<1>12. NoLostWakeup'
  BY <1>0, <1>1 DEF NoLostWakeup, WindowOpen
<1> QED
  BY <1>6, <1>7, <1>8, <1>9, <1>10, <1>11, <1>12 DEF IndInv

\* Refusals outlive a frame: the chunk at the cursor is not coming again.
LEMMA RefusalStays ==
    ASSUME IndInv, NEW a \in Answers, NEW k \in {"CHUNK", "DONE"}, Handle(k, a),
           UNCHANGED saved, \/ cursor' \in {cursor, None}
                            \/ k = "CHUNK" /\ cursor = net[1].off
    PROVE  Refusal => Refusal'
<1>1. /\ UNCHANGED <<spc, offset>> /\ 1 \in 1 .. Len(net) /\ net[1].kind = k
      /\ \A i \in 1 .. Len(net') : i + 1 \in 1 .. Len(net) /\ net'[i] = net[i + 1]
  BY Handled, Zenon DEF IndInv
<1>2. SentTo' = SentTo
  BY <1>1 DEF SentTo
<1>3. ~Underway("INIT")'
  BY <1>1, NextFrame DEF Underway
<1>4. ASSUME Dead PROVE Dead'
  <2>1. CASE cursor' = None
    BY <2>1 DEF Dead
  <2>2. CASE spc \in {"final", "ended"} /\ ~Underway("DONE")
    BY <1>1, <2>2 DEF Dead, Underway
  <2>3. CASE cursor' # None /\ ~(spc \in {"final", "ended"} /\ ~Underway("DONE"))
    <3>1. \/ cursor = None /\ cursor' = cursor
          \/ cursor < SentTo /\ \A i \in 1 .. Len(net) : net[i].kind = "CHUNK" => cursor < net[i].off
          \/ cursor = None /\ k = "CHUNK" /\ cursor = net[1].off
      BY <1>4, <2>3 DEF Dead
    <3>2. net[1].off # None
      BY SessionAssumption, <1>1, Offsets DEF IndInv
    <3>3. /\ cursor < SentTo /\ \A i \in 1 .. Len(net) : net[i].kind = "CHUNK" => cursor < net[i].off
      BY <2>3, <3>1, <3>2
    <3>4. net[1].off \in Nat
      BY <1>1, Offsets DEF IndInv
    <3>5. ~(k = "CHUNK" /\ cursor = net[1].off)
      BY <1>1, <3>3, <3>4
    <3>6. cursor' = cursor
      BY <2>3, <3>5
    <3> QED
      BY <1>1, <1>2, <3>3, <3>6 DEF Dead
  <2> QED
    BY <2>1, <2>2, <2>3
<1> QED
  BY <1>3, <1>4 DEF Refusal

LEMMA HandleChunkStep ==
    ASSUME IndInv, HandleChunk
    PROVE  IndInv'
<1> USE SessionAssumption
<1> DEFINE a == Answer("ACK", cursor + 1, FALSE)
<1>0. TypeOK /\ SenderOK /\ CursorOK
  BY DEF IndInv
<1>1. /\ cursor \in Nat /\ Handle("CHUNK", a) /\ Head(net).off = cursor
      /\ Head(net).blk # "long"
      /\ part' = Written(Head(net).off, Head(net).blk) /\ cursor' = cursor + 1
      /\ UNCHANGED <<saved, legacy, lost, faults>>
  BY <1>0, Zenon DEF HandleChunk, Fine, history, TypeOK
<1>2. a \in Answers /\ a.kind = "ACK" /\ a.off = cursor'
  <2>1. cursor + 1 \in Nat
    BY <1>1
  <2>2. a \in Answers /\ a.kind = "ACK" /\ a.off = cursor + 1
    BY <2>1 DEF Answer, Answers
  <2> QED
    BY <1>1, <2>2, Zenon
<1> HIDE DEF a
<1>3. Head(net) = net[1] /\ 1 \in 1 .. Len(net)
  BY <1>0, <1>1, <1>2, Handled
<1>4. net[1] \in Frames
  <2>1. net \in Seq(Frames)
    BY <1>0 DEF TypeOK
  <2> HIDE DEF Frames
  <2> QED
    BY <1>3, <2>1, Elements
<1>5. net[1].blk \in Blocks
  BY <1>1, <1>3, <1>4 DEF Frames
<1>6. /\ cursor < SentTo
      /\ \A i \in 1 .. Len(net') : net'[i].kind = "CHUNK" => cursor < net'[i].off
  BY <1>1, <1>2, <1>3, NextFrame
<1>7. SentTo \in Nat /\ SentTo <= Size
  BY <1>0 DEF SentTo, SenderOK, TypeOK
<1>8. Len(part) \in Nat /\ cursor <= Len(part) /\ Len(part) <= Size
  <2>1. part \in Seq(Blocks)
    BY <1>0 DEF TypeOK
  <2>2. Len(part) \in Nat
    BY <2>1
  <2> QED
    BY <1>0, <1>1, <2>2 DEF CursorOK
<1>9. part' \in Seq(Blocks) /\ Len(part') = IF cursor = Len(part) THEN cursor + 1 ELSE Len(part)
  BY <1>0, <1>1, <1>3, <1>5, <1>8, WrittenLen
<1>10. Len(part') <= Size /\ cursor' <= Len(part') /\ cursor' <= SentTo /\ cursor <= cursor'
  BY <1>1, <1>6, <1>7, <1>8, <1>9
<1>11. \A i \in 1 .. Len(net') : net'[i].kind = "CHUNK" => cursor' <= net'[i].off
  <2>1. net' \in Seq(Frames)
    BY <1>0, <1>1, <1>2, Handled
  <2>2. \A i \in 1 .. Len(net') : net'[i] \in Frames
    <3> HIDE DEF Frames
    <3> QED
      BY <2>1, Elements
  <2>3. \A i \in 1 .. Len(net') : net'[i].off \in Nat
    BY <2>2 DEF Frames
  <2> QED
    BY <1>1, <1>6, <2>3
<1>12. Refusal => Refusal'
  BY <1>1, <1>2, <1>3, RefusalStays
<1>13. cursor' \in Nat /\ cursor' # None /\ cursor # None /\ faults' \in Nat
  BY <1>0, <1>1 DEF TypeOK
<1>14. CursorMoves
  BY <1>10, <1>11, <1>13 DEF CursorMoves
<1>15. AnswerFits(a)
  BY <1>1, <1>2, <1>13 DEF AnswerFits
<1>16. Undelivered
  BY <1>1, <1>9, <1>10, <1>12, <1>13 DEF Undelivered
<1> QED
  BY <1>1, <1>2, <1>14, <1>15, <1>16, FrameStep

\* What FrameStep asks for when the cursor stays.
LEMMA CursorStays ==
    ASSUME IndInv, NEW a \in Answers, NEW k \in {"CHUNK", "DONE"}, Handle(k, a), cursor # None
    PROVE  /\ cursor \in Nat /\ cursor <= Len(part) /\ cursor <= SentTo
           /\ \A i \in 1 .. Len(net') : net'[i].kind = "CHUNK" => cursor <= net'[i].off
<1>1. TypeOK /\ CursorOK /\ NetOK
  BY DEF IndInv
<1>2. \A i \in 1 .. Len(net') : i + 1 \in 1 .. Len(net) /\ net'[i] = net[i + 1]
  BY <1>1, Handled
<1>3. cursor \in Nat /\ cursor <= Len(part) /\ cursor <= SentTo
  BY <1>1, NextFrame DEF CursorOK, TypeOK
<1>4. ASSUME NEW i \in 1 .. Len(net'), net'[i].kind = "CHUNK" PROVE cursor <= net'[i].off
  <2>1. FrameOK(i + 1)
    BY <1>1, <1>2 DEF NetOK
  <2> QED
    BY <1>2, <1>4, <2>1 DEF FrameOK
<1> QED
  BY <1>3, <1>4

LEMMA HandleChunkElsewhereStep ==
    ASSUME IndInv, HandleChunkElsewhere
    PROVE  IndInv'
<1> USE SessionAssumption
<1> DEFINE a == IF cursor = None THEN Answer("ABORT", 0, FALSE) ELSE Answer("ACK", cursor, FALSE)
<1>0. TypeOK /\ CursorOK
  BY DEF IndInv
<1>1. Handle("CHUNK", a) /\ UNCHANGED <<cursor, part, saved, legacy, lost, faults>>
  BY Zenon DEF HandleChunkElsewhere, Fine, history, receiver
<1>2. /\ cursor \in Nat \cup {None} /\ faults' \in Nat /\ part' \in Seq(Blocks) /\ Len(part') <= Size
  BY <1>0, <1>1 DEF TypeOK, CursorOK
<1>3. /\ a \in Answers /\ a.kind \in {"ACK", "ABORT"}
      /\ a.kind = "ACK" => cursor # None /\ a.off = cursor
  BY <1>2 DEF Answer, Answers
<1> HIDE DEF a
<1>4. cursor # None => /\ cursor \in Nat /\ cursor <= Len(part) /\ cursor <= SentTo
                       /\ \A i \in 1 .. Len(net') : net'[i].kind = "CHUNK" => cursor <= net'[i].off
  BY <1>1, <1>3, CursorStays
<1>5. Refusal => Refusal'
  BY <1>1, <1>3, RefusalStays
<1>6. cursor # None => cursor <= cursor
  BY <1>4
<1>7. a.kind = "ACK" => cursor' # None /\ a.off <= cursor'
  BY <1>1, <1>3, <1>4
<1>8. CursorMoves
  BY <1>1, <1>4, <1>6 DEF CursorMoves
<1>9. AnswerFits(a)
  BY <1>3, <1>7 DEF AnswerFits
<1>10. Undelivered
  BY <1>1, <1>2, <1>5 DEF Undelivered
<1> QED
  BY <1>1, <1>3, <1>8, <1>9, <1>10, FrameStep

\* A chunk that is too long is consumed, and the one at the cursor with it.
LEMMA HandleChunkLongStep ==
    ASSUME IndInv, HandleChunkLong
    PROVE  IndInv'
<1> USE SessionAssumption
<1>0. TypeOK /\ SenderOK /\ CursorOK
  BY DEF IndInv
<1>1. cursor # None /\ Handle("CHUNK", No) /\ UNCHANGED <<cursor, part, saved, legacy, lost, faults>>
  BY Zenon DEF HandleChunkLong, Fine, history, receiver
<1>2. /\ cursor \in Nat /\ faults' \in Nat /\ part' \in Seq(Blocks) /\ Len(part') <= Size
  BY <1>0, <1>1 DEF TypeOK, CursorOK
<1>3. /\ cursor <= Len(part) /\ cursor <= SentTo
      /\ \A i \in 1 .. Len(net') : net'[i].kind = "CHUNK" => cursor <= net'[i].off
  BY <1>1, NoIsAnswer, CursorStays
<1>4. Refusal'
  <2>1. UNCHANGED <<spc, offset>> /\ \A i \in 1 .. Len(net') : i + 1 \in 1 .. Len(net) /\ net'[i] = net[i + 1]
    BY <1>0, <1>1, NoIsAnswer, Handled
  <2>2. /\ net[1].off \in Nat /\ net[1].off < SentTo /\ cursor <= net[1].off
        /\ \A i \in 1 .. Len(net) : net[i].kind # "INIT"
        /\ \A i \in 1 .. Len(net') : net'[i].kind = "CHUNK" => net[1].off < net'[i].off
    BY <1>1, NoIsAnswer, NextFrame
  <2>3. SentTo' = SentTo /\ SentTo \in Nat
    BY <1>0, <2>1 DEF SentTo, TypeOK
  <2>4. ~Underway("INIT")'
    BY <2>1, <2>2 DEF Underway
  <2>5. \A i \in 1 .. Len(net') : net'[i].off \in Nat
    BY <1>0, <2>1, Offsets
  <2>6. Dead'
    BY <1>1, <1>2, <2>2, <2>3, <2>5 DEF Dead
  <2>7. saved' = 0
    BY <1>0, <1>1 DEF CursorOK
  <2> QED
    BY <2>4, <2>6, <2>7 DEF Refusal
<1>5. CursorMoves
  <2>1. cursor <= cursor
    BY <1>2
  <2> QED
    BY <1>1, <1>3, <2>1 DEF CursorMoves
<1>6. AnswerFits(No)
  BY <1>4, NoIsAnswer DEF AnswerFits
<1>7. Undelivered
  BY <1>1, <1>2, <1>4 DEF Undelivered
<1> QED
  BY <1>1, <1>5, <1>6, <1>7, NoIsAnswer, FrameStep

LEMMA HandleChunkFailsStep ==
    ASSUME IndInv, HandleChunkFails
    PROVE  IndInv'
<1> USE SessionAssumption
<1>0. TypeOK /\ SenderOK /\ CursorOK
  BY DEF IndInv
<1>1. /\ cursor \in Nat /\ cursor # None /\ Handle("CHUNK", No) /\ Head(net).off = cursor
      /\ Head(net).blk # "long"
      /\ \/ part' \in {part, Written(Head(net).off, Head(net).blk)} /\ cursor' = cursor
         \/ part' = <<>> /\ cursor' = None
      /\ UNCHANGED <<saved, legacy, lost>> /\ faults' \in Nat
  BY <1>0 DEF HandleChunkFails, Fault, TypeOK
<1>2. Head(net) = net[1] /\ 1 \in 1 .. Len(net)
  BY <1>0, <1>1, NoIsAnswer, Handled
<1>3. net[1] \in Frames
  <2>1. net \in Seq(Frames)
    BY <1>0 DEF TypeOK
  <2> HIDE DEF Frames
  <2> QED
    BY <1>2, <2>1, Elements
<1>4. net[1].blk \in Blocks
  BY <1>1, <1>2, <1>3 DEF Frames
<1>5. /\ cursor < SentTo /\ \A i \in 1 .. Len(net) : net[i].kind # "INIT"
      /\ \A i \in 1 .. Len(net') : net'[i].kind = "CHUNK" => cursor < net'[i].off
  BY <1>1, <1>2, NoIsAnswer, NextFrame
<1>6. SentTo \in Nat /\ SentTo <= Size
  BY <1>0 DEF SentTo, SenderOK, TypeOK
<1>7. part \in Seq(Blocks) /\ Len(part) \in Nat /\ cursor <= Len(part) /\ Len(part) <= Size
  <2>1. part \in Seq(Blocks)
    BY <1>0 DEF TypeOK
  <2>2. Len(part) \in Nat
    BY <2>1
  <2> QED
    BY <1>0, <1>1, <2>1, <2>2 DEF CursorOK
<1>8. /\ part' \in Seq(Blocks) /\ Len(part') <= Size
      /\ cursor' # None => cursor' = cursor /\ cursor' <= Len(part')
  <2>1. CASE part' = part
    BY <1>1, <1>7, <2>1
  <2>2. CASE part' = Written(cursor, net[1].blk) /\ cursor' = cursor
    <3>1. part' \in Seq(Blocks) /\ Len(part') = IF cursor = Len(part) THEN cursor + 1 ELSE Len(part)
      BY <1>0, <1>1, <1>4, <1>7, <2>2, WrittenLen
    <3> QED
      BY <1>1, <1>5, <1>6, <1>7, <2>2, <3>1
  <2>3. CASE part' = <<>> /\ cursor' = None
    BY <2>3
  <2> QED
    BY <1>1, <1>2, <2>1, <2>2, <2>3
<1>9. cursor' \in {cursor, None} /\ cursor <= cursor /\ cursor <= SentTo
  BY <1>1, <1>5, <1>6
<1>10. Refusal'
  <2>1. UNCHANGED <<spc, offset>> /\ \A i \in 1 .. Len(net') : i + 1 \in 1 .. Len(net) /\ net'[i] = net[i + 1]
    BY <1>0, <1>1, NoIsAnswer, Handled
  <2>2. SentTo' = SentTo
    BY <2>1 DEF SentTo
  <2>3. ~Underway("INIT")'
    BY <1>5, <2>1 DEF Underway
  <2>4. Dead'
    BY <1>5, <1>9, <2>2 DEF Dead
  <2>5. saved' = 0
    BY <1>0, <1>1 DEF CursorOK
  <2> QED
    BY <2>3, <2>4, <2>5 DEF Refusal
<1>11. cursor # None => \A i \in 1 .. Len(net') : net'[i].kind = "CHUNK" => cursor <= net'[i].off
  BY <1>1, NoIsAnswer, CursorStays
<1>12. CursorMoves
  BY <1>1, <1>8, <1>9, <1>11 DEF CursorMoves
<1>13. AnswerFits(No)
  BY <1>10, NoIsAnswer DEF AnswerFits
<1>14. Undelivered
  BY <1>1, <1>8, <1>9, <1>10 DEF Undelivered
<1> QED
  BY <1>1, <1>12, <1>13, <1>14, NoIsAnswer, FrameStep

\* Once DONE is consumed nothing is on the way.
LEMMA DoneRefuses ==
    ASSUME IndInv, NEW a \in Answers, Handle("DONE", a), UNCHANGED saved
    PROVE  Refusal'
<1>1. /\ spc \in {"final", "ended"} /\ saved = 0 /\ \A i \in 1 .. Len(net') : FALSE
  BY NextFrame
<1>2. spc' = spc
  BY Handled, Zenon DEF IndInv
<1> QED
  BY <1>1, <1>2 DEF Refusal, Dead, Underway

LEMMA HandleDoneNoStep ==
    ASSUME IndInv, HandleDoneEarly \/ HandleDoneFails \/ (HandleDone /\ ~Verified)
    PROVE  IndInv'
<1> USE SessionAssumption
<1>0. TypeOK /\ CursorOK
  BY DEF IndInv
<1>1. /\ Handle("DONE", No) /\ cursor' \in {cursor, None}
      /\ UNCHANGED <<part, saved, legacy, lost>> /\ faults' \in Nat
  <2>1. CASE HandleDone /\ ~Verified
    <3>1. Verified = FALSE
      BY <2>1 DEF Verified
    <3>2. Answer("COMPLETE", 0, Verified) = No
      BY <3>1, Zenon DEF No
    <3>3. Handle("DONE", No)
      BY <2>1, <3>2 DEF HandleDone
    <3> QED
      BY <1>0, <2>1, <3>3 DEF HandleDone, Fine, history, TypeOK
  <2>2. CASE HandleDoneEarly
    BY <1>0, <2>2 DEF HandleDoneEarly, Fine, history, receiver, TypeOK
  <2>3. CASE HandleDoneFails
    BY <1>0, <2>3 DEF HandleDoneFails, Fault, TypeOK
  <2> QED
    BY <2>1, <2>2, <2>3
<1>2. Refusal'
  BY <1>1, NoIsAnswer, DoneRefuses
<1>3. CursorMoves
  <2>1. cursor # None =>
          /\ cursor \in Nat /\ cursor <= Len(part) /\ cursor <= SentTo
          /\ \A i \in 1 .. Len(net') : net'[i].kind = "CHUNK" => cursor <= net'[i].off
    BY <1>1, NoIsAnswer, CursorStays
  <2>2. cursor # None => cursor <= cursor
    BY <2>1
  <2> QED
    BY <1>1, <2>1, <2>2 DEF CursorMoves
<1>4. AnswerFits(No)
  BY <1>2, NoIsAnswer DEF AnswerFits
<1>5. Undelivered
  <2>1. cursor' \in Nat \cup {None} /\ part' \in Seq(Blocks)
    BY <1>0, <1>1 DEF TypeOK
  <2>2. Len(part') <= Size
    BY <1>0, <1>1 DEF CursorOK
  <2> QED
    BY <1>1, <1>2, <2>1, <2>2 DEF Undelivered
<1> QED
  BY <1>1, <1>3, <1>4, <1>5, NoIsAnswer, FrameStep

\* The file is delivered: no refusal has been or will be reported.
LEMMA DeliverFacts ==
    ASSUME IndInv, HandleDone, Verified
    PROVE  /\ ~Refusal /\ saved = 0 /\ saved' = 1 /\ result' = result
           /\ result # "ok" /\ result # "refused"
<1> USE SessionAssumption
<1> DEFINE a == Answer("COMPLETE", 0, Verified)
<1>1. TypeOK /\ SenderOK /\ ResultOK
  BY DEF IndInv
<1>2. Handle("DONE", a) /\ cursor = Size /\ saved' = saved + 1
  BY Zenon DEF HandleDone
<1>3. a \in Answers
  BY DEF Answer, Answers, Verified
<1> HIDE DEF a
<1>4. 1 \in 1 .. Len(net) /\ net[1].kind = "DONE" /\ result' = result
  BY <1>1, <1>2, <1>3, Handled
<1>5. saved = 0
  BY <1>2, <1>3, NextFrame
<1>6. SentTo \in Nat /\ SentTo <= Size
  BY <1>1 DEF SentTo, SenderOK, TypeOK
<1>7. ~Refusal
  BY <1>2, <1>4, <1>6 DEF Refusal, Dead, Underway
<1> QED
  BY <1>1, <1>2, <1>4, <1>5, <1>7 DEF ResultOK

LEMMA DeliverStep ==
    ASSUME IndInv, HandleDone, Verified
    PROVE  IndInv'
<1> USE SessionAssumption
<1> DEFINE a == Answer("COMPLETE", 0, Verified)
<1>0. TypeOK /\ SenderOK /\ CursorOK /\ ResultOK /\ NetOK /\ BackOK /\ NoLostWakeup
  BY DEF IndInv
<1>1. Handle("DONE", a) /\ cursor' = None /\ UNCHANGED <<legacy, lost, faults>>
  BY Zenon DEF HandleDone, Fine, history
<1>2. ~Refusal /\ saved = 0 /\ saved' = 1
  BY DeliverFacts
<1>3. a \in Answers /\ a.kind = "COMPLETE" /\ a.ok
  BY Zenon DEF Answer, Answers, Verified
<1> HIDE DEF a
<1>4. /\ UNCHANGED <<spc, offset, acked, notify, done, reader, result, up, serving>> /\ serving
      /\ net' \in Seq(Frames) /\ back' \in Seq(Answers)
      /\ \A i \in 1 .. Len(back') : (i \in 1 .. Len(back) /\ back'[i] = back[i]) \/ back'[i] = a
  BY <1>0, <1>1, <1>3, Handled
<1>5. /\ Negotiated /\ spc \in {"final", "ended"} /\ result # "unsupported"
      /\ \A i \in 1 .. Len(net') : FALSE
  BY <1>1, <1>3, NextFrame
<1>6. Negotiated' /\ SentTo' = SentTo
  BY <1>4, <1>5 DEF Negotiated, SentTo
<1>7. TypeOK'
  <2>1. part' \in Seq(Blocks)
    BY DEF HandleDone
  <2>2. saved' \in Nat /\ cursor' \in Nat \cup {None} /\ UNCHANGED <<legacy, lost, faults>>
    BY <1>1, <1>2
  <2>3. /\ UNCHANGED <<spc, offset, acked, notify, done, reader, result, up, serving>>
        /\ net' \in Seq(Frames) /\ back' \in Seq(Answers)
    BY <1>4
  <2> QED
    BY <1>0, <2>1, <2>2, <2>3 DEF TypeOK
<1>8. SenderOK'
  BY <1>0, <1>4, <1>5, <1>6 DEF SenderOK
<1>9. CursorOK'
  <2>1. Len(part') = 0
    BY DEF HandleDone
  <2>2. cursor' = None /\ serving'
    BY <1>1, <1>4
  <2> QED
    BY <2>1, <2>2 DEF CursorOK
<1>10. NetOK'
  BY <1>5 DEF NetOK
<1>11. BackOK'
  <2>1. ASSUME NEW i \in 1 .. Len(back') PROVE AnswerOK(i)'
    <3>1. CASE i \in 1 .. Len(back) /\ back'[i] = back[i]
      <4>1. AnswerOK(i)
        BY <1>0, <3>1 DEF BackOK
      <4> QED
        BY <1>1, <1>2, <1>4, <1>5, <1>6, <3>1, <4>1 DEF AnswerOK
    <3>2. CASE back'[i] = a
      BY <1>2, <1>3, <1>4, <1>5, <3>2 DEF AnswerOK
    <3> QED
      BY <1>4, <3>1, <3>2
  <2> QED
    BY <2>1 DEF BackOK
<1>12. ResultOK'
  BY <1>0, <1>1, <1>2, <1>4, <1>5 DEF ResultOK, Underway
<1>13. NoLostWakeup'
  BY <1>4, <1>5 DEF NoLostWakeup
<1> QED
  BY <1>7, <1>8, <1>9, <1>10, <1>11, <1>12, <1>13 DEF IndInv

LEMMA TeardownStep ==
    ASSUME IndInv, Teardown
    PROVE  IndInv'
<1> USE SessionAssumption
<1>0. TypeOK /\ SenderOK /\ CursorOK /\ ResultOK /\ BackOK /\ NoLostWakeup
  BY DEF IndInv
<1>1. /\ ~up /\ serving' = FALSE /\ cursor' = None /\ net' = <<>>
      /\ UNCHANGED <<spc, offset, acked, notify, done, reader, result, up, back, part, saved>>
      /\ UNCHANGED <<legacy, lost, faults>>
  BY DEF Teardown, sender, Fine, history
<1>2. (Negotiated' <=> Negotiated) /\ SentTo' = SentTo
  BY <1>1 DEF Negotiated, SentTo
<1>3. Refusal => Refusal'
  <2>1. cursor' = None /\ Len(net') = 0 /\ saved' = saved
    BY <1>1
  <2> QED
    BY <2>1 DEF Refusal, Dead, Underway
<1>4. TypeOK'
  <2>1. serving' \in BOOLEAN /\ cursor' \in Nat \cup {None}
    BY <1>1, Zenon
  <2>2. net' \in Seq(Frames)
    BY <1>1
  <2>3. /\ UNCHANGED <<spc, offset, acked, notify, done, reader, result, up, back, part, saved>>
        /\ UNCHANGED <<legacy, lost, faults>>
    BY <1>1
  <2> QED
    BY <1>0, <2>1, <2>2, <2>3 DEF TypeOK
<1>5. SenderOK'
  BY <1>0, <1>1, <1>2 DEF SenderOK
<1>6. Len(net') = 0 /\ NetOK'
  BY <1>1 DEF NetOK
<1>7. CursorOK'
  BY <1>0, <1>1 DEF CursorOK
<1>8. BackOK'
  <2>1. ASSUME NEW i \in 1 .. Len(back) PROVE AnswerOK(i)'
    BY <1>0, <1>1, <1>2, <1>3 DEF BackOK, AnswerOK
  <2> QED
    BY <1>1, <2>1 DEF BackOK
<1>9. ResultOK'
  <2>1. ~Underway("DONE")'
    BY <1>6 DEF Underway
  <2>2. UNCHANGED <<saved, spc, done, result, legacy, lost>>
    BY <1>1
  <2> QED
    BY <1>0, <1>3, <2>1, <2>2 DEF ResultOK
<1>10. NoLostWakeup'
  BY <1>0, <1>1 DEF NoLostWakeup, WindowOpen
<1> QED
  BY <1>4, <1>5, <1>6, <1>7, <1>8, <1>9, <1>10 DEF IndInv

LEMMA RetryStep ==
    ASSUME IndInv, ~Reuse, Retry
    PROVE  IndInv'
<1> USE SessionAssumption
<1>0. TypeOK /\ CursorOK
  BY DEF IndInv
<1>1. /\ up' = TRUE /\ serving' = TRUE /\ notify' = FALSE /\ lost' = FALSE /\ ~serving
      /\ UNCHANGED legacy
  BY DEF Retry
<1>2. /\ net' = <<>> /\ back' = <<>> /\ spc' = "start" /\ offset' = 0 /\ acked' = 0
      /\ done' = None /\ result' = "none" /\ saved' = 0 /\ reader = "off"
      /\ UNCHANGED <<reader, cursor, part, faults>>
  BY DEF Retry
<1>3. cursor = None
  BY <1>0, <1>1 DEF CursorOK
<1>4. TypeOK'
  <2>1. /\ up' \in BOOLEAN /\ serving' \in BOOLEAN /\ notify' \in BOOLEAN /\ lost' \in BOOLEAN
        /\ legacy' \in BOOLEAN
    BY <1>0, <1>1, Zenon DEF TypeOK
  <2>2. net' \in Seq(Frames) /\ back' \in Seq(Answers)
    BY <1>2
  <2> QED
    BY <1>0, <1>2, <2>1, <2>2 DEF TypeOK
<1>5. SenderOK'
  <2>1. SentTo' = 0
    BY <1>2 DEF SentTo
  <2> QED
    BY <1>1, <1>2, <1>3, <2>1 DEF SenderOK
<1>6. CursorOK' /\ NetOK' /\ BackOK'
  <2>1. NetOK' /\ BackOK'
    <3>1. Len(net') = 0 /\ Len(back') = 0
      BY <1>2
    <3> QED
      BY <3>1 DEF NetOK, BackOK
  <2>2. cursor' = None /\ serving' /\ part' = part
    BY <1>1, <1>2, <1>3
  <2> QED
    BY <1>0, <2>1, <2>2 DEF CursorOK
<1>7. ResultOK' /\ NoLostWakeup'
  BY <1>2 DEF ResultOK, NoLostWakeup
<1> QED
  BY <1>4, <1>5, <1>6, <1>7 DEF IndInv

-----------------------------------------------------------------------------
LEMMA InitIndInv ==
    ASSUME Init
    PROVE  IndInv
<1> USE SessionAssumption
<1>1. TypeOK
  <2>1. /\ legacy \in BOOLEAN /\ notify \in BOOLEAN /\ up \in BOOLEAN /\ serving \in BOOLEAN
        /\ lost \in BOOLEAN
    BY Zenon DEF Init
  <2>2. net \in Seq(Frames) /\ back \in Seq(Answers) /\ part \in Seq(Blocks)
    BY DEF Init
  <2> QED
    BY <2>1, <2>2 DEF Init, TypeOK
<1>2. SenderOK /\ NetOK /\ BackOK
  BY DEF Init, SenderOK, SentTo, NetOK, BackOK
<1>3. CursorOK /\ ResultOK /\ NoLostWakeup
  BY DEF Init, CursorOK, ResultOK, NoLostWakeup
<1> QED
  BY <1>1, <1>2, <1>3 DEF IndInv

LEMMA NextIndInv ==
    ASSUME IndInv, ~Reuse, Next
    PROVE  IndInv'
<1>1. CASE SendInit
  BY <1>1, SendInitStep
<1>2. CASE Negotiate
  BY <1>2, NegotiateStep
<1>3. CASE NegotiateError \/ NegotiateTimeout
  BY <1>3, NegotiateEnds
<1>4. CASE Gate \/ WaitNotified \/ WaitDone \/ Advance \/ ReadFails \/ FinalDone
  BY <1>4, LocalStep DEF Local
<1>5. CASE SendFails
  BY <1>5, StartFails, LocalStep DEF Local
<1>6. CASE SendChunk
  <2>1. "good" \in Blocks /\ faults \in Nat
    BY DEF Blocks, IndInv, TypeOK
  <2> QED
    BY <1>6, <2>1, SendChunkStep DEF SendChunk, Fine, history, receiver
<1>7. CASE SendChanged
  <2>1. spc = "chunk" /\ UNCHANGED <<legacy, lost, cursor, part, saved>> /\ faults' \in Nat
    BY <1>7 DEF SendChanged, Fault, receiver, IndInv, TypeOK
  <2>2. ASSUME NEW b \in Blocks \cup {"long"}, Send(Frame("CHUNK", offset, b)), Goto("advance")
        PROVE  IndInv'
    BY <2>1, <2>2, SendChunkStep
  <2>3. CASE Goto("done") /\ UNCHANGED link
    BY <1>7, <2>3, LocalStep DEF SendChanged, Local
  <2> QED
    BY <1>7, <2>2, <2>3, Zenon DEF SendChanged, Blocks
<1>8. CASE SendDone
  BY <1>8, SendDoneStep
<1>9. CASE ReadAnswer
  BY <1>9, ReadAnswerStep
<1>10. CASE Wake \/ ReadError
  BY <1>10, ReaderStep
<1>11. CASE HandleLegacy \/ HandleInit \/ HandleInitRefused
  BY <1>11, HandleInitStep
<1>12. CASE HandleNoDir
  BY <1>12, HandleNoDirStep
<1>13. CASE HandleChunk \/ HandleChunkLong
  BY <1>13, HandleChunkStep, HandleChunkLongStep
<1>14. CASE HandleChunkElsewhere
  BY <1>14, HandleChunkElsewhereStep
<1>15. CASE HandleChunkFails
  BY <1>15, HandleChunkFailsStep
<1>16. CASE HandleDone \/ HandleDoneEarly \/ HandleDoneFails
  BY <1>16, DeliverStep, HandleDoneNoStep
<1>17. CASE Teardown
  BY <1>17, TeardownStep
<1>18. CASE WaitTimeout \/ FinalTimeout \/ Break \/ CallerCloses
  BY <1>18, HangUpStep
<1>19. CASE Retry
  BY <1>19, RetryStep
<1> QED
  BY <1>1, <1>2, <1>3, <1>4, <1>5, <1>6, <1>7, <1>8, <1>9, <1>10, <1>11, <1>12, <1>13, <1>14, <1>15, <1>16,
     <1>17, <1>18, <1>19 DEF Next, Sender, Timeout, ReadLoop, Receiver, ReceiverFault

LEMMA StutterIndInv ==
    ASSUME IndInv, UNCHANGED vars
    PROVE  IndInv'
<1>1. /\ UNCHANGED <<legacy, spc, offset, acked, notify, done, reader, result>>
      /\ UNCHANGED <<up, serving, net, back, cursor, part, saved, lost, faults>>
  BY DEF vars, sender, receiver, link, history
<1>2. SentTo' = SentTo /\ (Negotiated' <=> Negotiated)
  BY <1>1 DEF SentTo, Negotiated
<1>3. TypeOK' /\ SenderOK' /\ NoLostWakeup'
  <2>1. TypeOK'
    BY <1>1 DEF IndInv, TypeOK
  <2>2. SenderOK'
    BY <1>1, <1>2 DEF IndInv, SenderOK
  <2>3. NoLostWakeup'
    BY <1>1 DEF IndInv, NoLostWakeup, WindowOpen
  <2> QED
    BY <2>1, <2>2, <2>3
<1>4. result' = "unsupported" => legacy \/ lost'
  BY <1>1 DEF IndInv, ResultOK
<1> QED
  BY <1>1, <1>2, <1>3, <1>4, QuietStep

LEMMA Inductive ==
    ASSUME ~Reuse
    PROVE  Spec => []IndInv
<1>1. Init => IndInv
  BY InitIndInv
<1>2. IndInv /\ [Next]_vars => IndInv'
  BY NextIndInv, StutterIndInv
<1> QED
  BY <1>1, <1>2, PTL DEF Spec

LEMMA Consequences ==
    ASSUME IndInv
    PROVE  NoWrap /\ AckedIsStored /\ UnsupportedIsTrue /\ NoLostWakeup
<1>1. TypeOK /\ SenderOK /\ CursorOK /\ ResultOK /\ NoLostWakeup
  BY DEF IndInv
<1>2. NoWrap
  BY <1>1 DEF NoWrap, SenderOK, SentTo
<1>3. Len(part) \in Nat
  <2>1. part \in Seq(Blocks)
    BY <1>1 DEF TypeOK
  <2> QED
    BY <2>1
<1>4. AckedIsStored
  BY SessionAssumption, <1>1, <1>3 DEF AckedIsStored, CursorOK, TypeOK
<1>5. UnsupportedIsTrue
  BY <1>1 DEF UnsupportedIsTrue, ResultOK
<1> QED
  BY <1>1, <1>2, <1>4, <1>5

\* The unsigned window test of streamSendWithInit never wraps around, for
\* every size of file and window and any number of faults.
THEOREM WindowNeverWraps ==
    ASSUME ~Reuse
    PROVE  Spec => []NoWrap
  BY Inductive, Consequences, PTL

\* The sender never sleeps at an open window without a wake-up on its way.
THEOREM WakeupsArrive ==
    ASSUME ~Reuse
    PROVE  Spec => []NoLostWakeup
  BY Inductive, Consequences, PTL

\* What the sender has seen acknowledged is in the receiver's .partial.
THEOREM AcknowledgedIsStored ==
    ASSUME ~Reuse
    PROVE  Spec => []AckedIsStored
  BY Inductive, Consequences, PTL

\* With a connection of its own for every call, SendFileStream returns
\* ErrStreamUnsupported only if the receiver predates streams or the
\* connection failed; session_reuse shows that the condition is needed.
THEOREM UnsupportedOnlyIfTrue ==
    ASSUME ~Reuse
    PROVE  Spec => []UnsupportedIsTrue
  BY Inductive, Consequences, PTL

-----------------------------------------------------------------------------
(* StreamSession implements Delivery. *)

LEMMA Effects ==
    ASSUME IndInv, Next
    PROVE  \/ HandleDone /\ Verified
           \/ Retry
           \/ saved' = saved /\ result' = result
           \/ saved' = saved /\ spc # "ended" /\ spc' = "ended"
<1>1. CASE Sender \/ Timeout \/ SendChanged \/ ReadFails
  BY <1>1 DEF Sender, Timeout, SendInit, Negotiate, NegotiateError, NegotiateTimeout, Gate, WaitNotified,
     WaitDone, WaitTimeout, SendChunk, SendChanged, Advance, SendDone, SendFails, ReadFails, FinalDone,
     FinalTimeout, Goto, Return, receiver
<1>2. CASE ReadLoop \/ Break \/ CallerCloses
  BY <1>2 DEF ReadLoop, ReadAnswer, Wake, ReadError, Break, CallerCloses, sender, receiver
<1>3. CASE (Receiver \/ ReceiverFault) /\ ~(HandleDone /\ Verified)
  BY <1>3, Zenon DEF Receiver, ReceiverFault, HandleLegacy, HandleInit, HandleInitRefused, HandleNoDir, HandleChunk,
     HandleChunkLong, HandleChunkElsewhere, HandleChunkFails, HandleDone, HandleDoneEarly, HandleDoneFails, Teardown, Handle,
     sender, receiver
<1> QED
  BY <1>1, <1>2, <1>3 DEF Next

LEMMA StepRefines ==
    ASSUME IndInv, IndInv', Next
    PROVE  [Promise!Next]_(Promise!vars)
<1>1. CASE HandleDone /\ Verified
  <2>1. saved = 0 /\ saved' = 1 /\ result' = result /\ result # "ok" /\ result # "refused"
    BY <1>1, DeliverFacts
  <2>2. result \in {"none", "failed", "unsupported"}
    BY <2>1 DEF IndInv, TypeOK
  <2> QED
    BY <2>1, <2>2 DEF Promise!Next, Promise!Store
<1>2. CASE Retry
  BY <1>2 DEF Retry, Promise!Next, Promise!Again
<1>3. CASE saved' = saved /\ result' = result
  BY <1>3 DEF Promise!vars
<1>4. CASE saved' = saved /\ spc # "ended" /\ spc' = "ended"
  <2>1. result = "none" /\ result' \in {"ok", "refused", "failed", "unsupported"}
    BY <1>4 DEF IndInv, SenderOK, TypeOK
  <2>2. (result' = "ok" => saved' = 1) /\ (result' = "refused" => saved' = 0)
    BY DEF IndInv, ResultOK, Refusal
  <2> QED
    BY <1>4, <2>1, <2>2 DEF Promise!Next, Promise!Report, Promise!Outcomes
<1> QED
  BY <1>1, <1>2, <1>3, <1>4, Effects

\* SendFileStream keeps the promise of Delivery: success is reported only for
\* a file that is in the receiver's directory, a refusal only for one that is
\* not and never will be, and a call stores at most one copy.
THEOREM PromiseKept ==
    ASSUME ~Reuse
    PROVE  Spec => KeepsPromise
<1>1. Init => Promise!Init
  BY DEF Init, Promise!Init
<1>2. IndInv /\ IndInv' /\ [Next]_vars => [Promise!Next]_(Promise!vars)
  <2>1. UNCHANGED vars => UNCHANGED Promise!vars
    BY DEF vars, sender, receiver, Promise!vars
  <2> QED
    BY <2>1, StepRefines
<1> QED
  BY <1>1, <1>2, Inductive, PTL DEF Spec, KeepsPromise, Promise!Spec
=============================================================================
