--------------------------- MODULE StreamSession ---------------------------
(***************************************************************************)
(* One file sent with TypeFileStream (filestream.go): streamSendWithInit   *)
(* and its read loop, the two directions of the connection, and the        *)
(* receiver's answer to every frame, with retries after a failed attempt.  *)
(*                                                                         *)
(* The sender is two goroutines that share acked, notify and done; a step  *)
(* is one channel operation, one load or store of acked, or one frame.     *)
(* The receiver handles a frame and writes its answer in one step: what    *)
(* can happen inside a handler, and between connections that share a       *)
(* .partial, is StreamReceiver's subject.                                  *)
(*                                                                         *)
(* Data: the file is Size blocks, a CHUNK carries one.  The .partial is a  *)
(* sequence of blocks, "good" or "bad" (not what the hash stands for); a   *)
(* "long" one reaches past the size that INIT declared.                    *)
(* The connection keeps frames in order; when it breaks, each side reads   *)
(* what has already arrived or an error.  Chunks can then only be out of   *)
(* order after a write has failed, and what the receiver buffers of them   *)
(* is never used; the buffer is left out.                                  *)
(*                                                                         *)
(* A retry dials again once the receiver has torn the old connection down. *)
(* Every fault counts against MaxFaults; timers are faults.                *)
(***************************************************************************)
EXTENDS Naturals, Sequences

CONSTANTS
    Size,        \* size of the file in blocks
    Window,      \* streamWindow
    MaxFaults,   \* bound: faults in all attempts together
    Reuse,       \* a refused call is repeated on the same connection
    None         \* nil

ASSUME SessionAssumption ==
    /\ Size \in Nat /\ Window \in Nat \ {0} /\ MaxFaults \in Nat
    /\ Reuse \in BOOLEAN
    /\ None \notin Nat /\ None \notin {"ok", "refused", "error"}

VARIABLES
    legacy,   \* the receiver predates TypeFileStream
    spc,      \* where streamSendWithInit is
    offset,   \* its offset
    acked,    \* acked
    notify,   \* notify, a channel of capacity 1, is full
    done,     \* the terminal in the done channel, or None
    reader,   \* where streamReadLoop is
    result,   \* what the call returned
    up,       \* the connection is up
    serving,  \* the receiver's handleConn has not returned
    net,      \* frames on the way to the receiver
    back,     \* frames on the way back
    cursor,   \* the receiver's transfer: its cursor, or None
    part,     \* the .partial
    saved,    \* how often this attempt's file was delivered
    lost,     \* history: the connection failed this attempt
    faults    \* faults so far

sender == <<spc, offset, acked, notify, done, reader, result>>
receiver == <<cursor, part, saved>>
link == <<up, serving, net, back>>
history == <<legacy, lost, faults>>
vars == <<sender, receiver, link, history>>

Blocks == {"good", "bad"}
Frames == [kind : {"INIT", "CHUNK", "DONE"}, off : Nat, blk : Blocks \cup {"long"}]
Answers == [kind : {"INITACK", "ACK", "COMPLETE", "ABORT", "TEXT"},
            off : Nat, ok : BOOLEAN]

Frame(k, o, b) == [kind |-> k, off |-> o, blk |-> b]
Answer(k, o, b) == [kind |-> k, off |-> o, ok |-> b]

Init ==
    /\ legacy \in BOOLEAN
    /\ spc = "start" /\ offset = 0 /\ acked = 0 /\ notify = FALSE
    /\ done = None /\ reader = "off" /\ result = "none"
    /\ up = TRUE /\ serving = TRUE /\ net = <<>> /\ back = <<>>
    /\ cursor = None /\ part = <<>> /\ saved = 0
    /\ lost = FALSE /\ faults = 0

-----------------------------------------------------------------------------
\* The steps that go well, those that count as a fault, and those that keep
\* an INIT-ACK from arriving in time.
Fine == UNCHANGED history

Fault ==
    /\ faults < MaxFaults
    /\ faults' = faults + 1
    /\ UNCHANGED <<legacy, lost>>

Loss ==
    /\ faults < MaxFaults
    /\ faults' = faults + 1 /\ lost' = TRUE
    /\ UNCHANGED legacy

\* WriteFrame by the sender: once the connection is down a frame is lost.
Send(f) ==
    /\ net' = IF up THEN Append(net, f) ELSE net
    /\ UNCHANGED <<up, serving, back>>

Goto(s) == spc' = s /\ UNCHANGED <<offset, acked, notify, done, reader, result>>

\* streamSendWithInit returns; its read loop may still be there.
Return(r) ==
    /\ spc' = "ended" /\ result' = r
    /\ UNCHANGED <<offset, acked, notify, done, reader>>

HangUp == up' = FALSE /\ UNCHANGED <<serving, net, back>>

-----------------------------------------------------------------------------
(* streamSendWithInit *)

\* Hash the content, send INIT.
SendInit ==
    /\ spc = "start"
    /\ Send(Frame("INIT", 0, "good"))
    /\ Goto("negotiate")
    /\ Fine /\ UNCHANGED receiver

\* Mutant of Negotiate: a refusal is taken for a legacy receiver.
NegotiateAnyAnswer ==
    /\ spc = "negotiate" /\ back # <<>>
    /\ back' = Tail(back) /\ UNCHANGED <<up, serving, net>>
    /\ LET f == Head(back) IN
         IF f.kind = "INITACK"
         THEN /\ offset' = f.off /\ acked' = f.off
              /\ spc' = "loop" /\ reader' = "read"
              /\ UNCHANGED <<notify, done, result>>
         ELSE Return("unsupported")
    /\ Fine /\ UNCHANGED receiver

\* recvFrameTimeout returns a frame: INIT-ACK starts the read loop and the
\* window at the resume offset, COMPLETE is a refusal, anything else means
\* the receiver does not support streams.
Negotiate ==
    /\ spc = "negotiate" /\ back # <<>>
    /\ back' = Tail(back) /\ UNCHANGED <<up, serving, net>>
    /\ LET f == Head(back)
           resume == IF f.off > Size THEN Size ELSE f.off IN
         CASE f.kind = "INITACK" ->
                /\ offset' = resume /\ acked' = resume
                /\ spc' = "loop" /\ reader' = "read"
                /\ UNCHANGED <<notify, done, result>>
           [] f.kind = "COMPLETE" -> Return("refused")
           [] OTHER -> Return("unsupported")
    /\ Fine /\ UNCHANGED receiver

\* The read fails, or streamNegTimeout passes.
NegotiateError ==
    /\ spc = "negotiate" /\ ~up
    /\ Return("unsupported")
    /\ Fine /\ UNCHANGED <<receiver, link>>

NegotiateTimeout ==
    /\ spc = "negotiate"
    /\ Return("unsupported")
    /\ Loss /\ UNCHANGED <<receiver, link>>

\* Mutant of WindowOpen: one chunk more than the window.
WindowWide == offset >= acked /\ offset - acked <= Window

\* offset - acked < windowBytes, an unsigned subtraction.
WindowOpen == offset >= acked /\ offset - acked < Window

\* The loop condition and the window gate.
Gate ==
    /\ spc = "loop"
    /\ Goto(IF offset >= Size THEN "done"
            ELSE IF WindowOpen THEN "chunk" ELSE "wait")
    /\ Fine /\ UNCHANGED <<receiver, link>>

\* The select at the gate: look again, give up, or time out.
WaitNotified ==
    /\ spc = "wait" /\ notify
    /\ notify' = FALSE /\ spc' = "loop"
    /\ UNCHANGED <<offset, acked, done, reader, result>>
    /\ Fine /\ UNCHANGED <<receiver, link>>

WaitDone ==
    /\ spc = "wait" /\ done # None
    /\ done' = None /\ spc' = "ended" /\ result' = "failed"
    /\ UNCHANGED <<offset, acked, notify, reader>>
    /\ Fine /\ UNCHANGED <<receiver, link>>

WaitTimeout ==
    /\ spc = "wait"
    /\ Return("failed") /\ HangUp
    /\ Fault /\ UNCHANGED receiver

\* ReadFull and WriteFrame of the next chunk.
SendChunk ==
    /\ spc = "chunk"
    /\ Send(Frame("CHUNK", offset, "good"))
    /\ Goto("advance")
    /\ Fine /\ UNCHANGED receiver

\* The file has changed since it was hashed: other bytes, fewer, or more, so
\* that the last chunk is longer than what INIT declared.
SendChanged ==
    /\ spc = "chunk"
    /\ \/ \E b \in {"bad"} \cup (IF offset + 1 = Size THEN {"long"} ELSE {}) :
            Send(Frame("CHUNK", offset, b)) /\ Goto("advance")
       \/ Goto("done") /\ UNCHANGED link
    /\ Fault /\ UNCHANGED receiver

\* The offset moves after the frame is out: its ACK can be there already.
Advance ==
    /\ spc = "advance"
    /\ offset' = offset + 1 /\ spc' = "loop"
    /\ UNCHANGED <<acked, notify, done, reader, result>>
    /\ Fine /\ UNCHANGED <<receiver, link>>

SendDone ==
    /\ spc = "done"
    /\ Send(Frame("DONE", 0, "good"))
    /\ Goto("final")
    /\ Fine /\ UNCHANGED receiver

\* WriteFrame fails: the connection is known to be down.
SendFails ==
    /\ spc \in {"start", "chunk", "done"} /\ ~up
    /\ Return("failed")
    /\ Fine /\ UNCHANGED <<receiver, link>>

\* The file cannot be read.
ReadFails ==
    /\ spc = "chunk"
    /\ Return("failed")
    /\ Fault /\ UNCHANGED <<receiver, link>>

\* Mutant of FinalDone: a COMPLETE is a success, whatever its status.
FinalAnyComplete ==
    /\ spc = "final" /\ done # None
    /\ done' = None /\ spc' = "ended"
    /\ result' = IF done = "error" THEN "failed" ELSE "ok"
    /\ UNCHANGED <<offset, acked, notify, reader>>
    /\ Fine /\ UNCHANGED <<receiver, link>>

\* The terminal of the read loop decides the result.
FinalDone ==
    /\ spc = "final" /\ done # None
    /\ done' = None /\ spc' = "ended"
    /\ result' = IF done = "error" THEN "failed" ELSE done
    /\ UNCHANGED <<offset, acked, notify, reader>>
    /\ Fine /\ UNCHANGED <<receiver, link>>

FinalTimeout ==
    /\ spc = "final"
    /\ Return("failed") /\ HangUp
    /\ Fault /\ UNCHANGED receiver

-----------------------------------------------------------------------------
(* streamReadLoop *)

\* An ACK moves the mark, forward only.
ReadAck(f) ==
    /\ acked' = IF f.off > acked THEN f.off ELSE acked
    /\ reader' = "wake"
    /\ UNCHANGED done

\* COMPLETE and ABORT end the loop; a stray frame is ignored.
ReadAnswer ==
    /\ reader = "read" /\ back # <<>>
    /\ back' = Tail(back) /\ UNCHANGED <<up, serving, net>>
    /\ LET f == Head(back) IN
         CASE f.kind = "ACK" -> ReadAck(f)
           [] f.kind = "COMPLETE" ->
                /\ done' = IF f.ok THEN "ok" ELSE "refused"
                /\ reader' = "off" /\ UNCHANGED acked
           [] f.kind = "ABORT" ->
                done' = "error" /\ reader' = "off" /\ UNCHANGED acked
           [] OTHER -> UNCHANGED <<done, reader, acked>>
    /\ UNCHANGED <<spc, offset, notify, result>>
    /\ Fine /\ UNCHANGED receiver

\* Mutant of Wake: the gate is not told.
WakeNobody ==
    /\ reader = "wake" /\ reader' = "read"
    /\ UNCHANGED <<spc, offset, acked, notify, done, result>>
    /\ Fine /\ UNCHANGED <<receiver, link>>

\* The non-blocking send on notify.
Wake ==
    /\ reader = "wake" /\ reader' = "read"
    /\ notify' = TRUE
    /\ UNCHANGED <<spc, offset, acked, done, result>>
    /\ Fine /\ UNCHANGED <<receiver, link>>

ReadError ==
    /\ reader = "read" /\ ~up
    /\ done' = "error" /\ reader' = "off"
    /\ UNCHANGED <<spc, offset, acked, notify, result>>
    /\ Fine /\ UNCHANGED <<receiver, link>>

-----------------------------------------------------------------------------
(* The receiver: handleConn, and StreamReceiver.HandleFrame. *)

\* The next frame is of kind k; it is answered with a.
Handle(k, a) ==
    /\ serving /\ net # <<>> /\ Head(net).kind = k
    /\ net' = Tail(net)
    /\ back' = IF up THEN Append(back, a) ELSE back
    /\ UNCHANGED <<up, serving, sender>>

No == Answer("COMPLETE", 0, FALSE)

\* A receiver without TypeFileStream answers any frame with a text.
HandleLegacy ==
    /\ legacy
    /\ Handle("INIT", Answer("TEXT", 0, FALSE))
    /\ Fine /\ UNCHANGED receiver

\* handleInit: resume behind what the .partial holds.
HandleInit ==
    /\ ~legacy
    /\ Handle("INIT", Answer("INITACK", Len(part), FALSE))
    /\ cursor' = Len(part)
    /\ Fine /\ UNCHANGED <<part, saved>>

\* handleInit refuses: too many transfers, quota, disk space, the file.
HandleInitRefused ==
    /\ ~legacy
    /\ Handle("INIT", No)
    /\ Fault /\ UNCHANGED receiver

\* handleConn cannot make the directory: it says so in a text and hangs up.
HandleNoDir ==
    /\ ~legacy /\ cursor = None /\ up
    /\ serving /\ net # <<>> /\ Head(net).kind = "INIT"
    /\ net' = Tail(net) /\ back' = Append(back, Answer("TEXT", 0, FALSE))
    /\ up' = FALSE
    /\ UNCHANGED <<serving, sender, receiver>>
    /\ Loss

\* writePartialAt of block b at offset o.
Written(o, b) == [i \in 1 .. (IF o = Len(part) THEN o + 1 ELSE Len(part)) |->
                    IF i = o + 1 THEN b ELSE part[i]]

\* Mutant of HandleChunk: acknowledges what it has not written.
HandleChunkEager ==
    LET f == Head(net) IN
      /\ cursor # None
      /\ net # <<>> /\ f.off = cursor /\ f.blk # "long"
      /\ Handle("CHUNK", Answer("ACK", cursor + 2, FALSE))
      /\ part' = Written(f.off, f.blk) /\ cursor' = cursor + 1
      /\ Fine /\ UNCHANGED saved

\* handleChunk at the cursor: write it and acknowledge the new cursor.
HandleChunk ==
    LET f == Head(net) IN
      /\ cursor # None
      /\ net # <<>> /\ f.off = cursor /\ f.blk # "long"
      /\ Handle("CHUNK", Answer("ACK", cursor + 1, FALSE))
      /\ part' = Written(f.off, f.blk) /\ cursor' = cursor + 1
      /\ Fine /\ UNCHANGED saved

\* A chunk that exceeds the declared size is refused wherever it is.
HandleChunkLong ==
    /\ cursor # None
    /\ net # <<>> /\ Head(net).blk = "long"
    /\ Handle("CHUNK", No)
    /\ Fine /\ UNCHANGED receiver

\* A chunk elsewhere is buffered or dropped, the cursor acknowledged again;
\* without a transfer the answer is ABORT.
HandleChunkElsewhere ==
    /\ net # <<>> /\ Head(net).off # cursor
    /\ cursor = None \/ Head(net).blk # "long"
    /\ Handle("CHUNK", IF cursor = None THEN Answer("ABORT", 0, FALSE)
                       ELSE Answer("ACK", cursor, FALSE))
    /\ Fine /\ UNCHANGED receiver

\* The write fails, with the block on disk or not; or the disk is full and
\* the transfer is abandoned with its .partial.
HandleChunkFails ==
    LET f == Head(net) IN
      /\ cursor # None
      /\ net # <<>> /\ f.off = cursor /\ f.blk # "long"
      /\ Handle("CHUNK", No)
      /\ \/ part' \in {part, Written(f.off, f.blk)} /\ UNCHANGED cursor
         \/ part' = <<>> /\ cursor' = None
      /\ Fault /\ UNCHANGED saved

Verified == Len(part) = Size /\ \A i \in 1 .. Len(part) : part[i] = "good"

\* handleDone with all bytes there: the file is delivered if it is the one
\* that was hashed; otherwise the .partial stays and the transfer goes.
HandleDone ==
    /\ cursor = Size
    /\ Handle("DONE", Answer("COMPLETE", 0, Verified))
    /\ IF Verified THEN saved' = saved + 1 /\ part' = <<>>
                   ELSE UNCHANGED <<saved, part>>
    /\ cursor' = None
    /\ Fine

\* No transfer, or bytes are missing.
HandleDoneEarly ==
    /\ cursor # Size
    /\ Handle("DONE", No)
    /\ Fine /\ UNCHANGED receiver

\* fsync or the read for the hash fails; or the rename, and then the
\* transfer is forgotten.
HandleDoneFails ==
    /\ cursor = Size
    /\ Handle("DONE", No)
    /\ cursor' \in {cursor} \cup (IF Verified THEN {None} ELSE {})
    /\ Fault /\ UNCHANGED <<part, saved>>

\* handleConn's read fails: it returns and closes its transfers.
Teardown ==
    /\ serving /\ ~up
    /\ serving' = FALSE /\ cursor' = None /\ net' = <<>>
    /\ Fine /\ UNCHANGED <<sender, up, back, part, saved>>

-----------------------------------------------------------------------------
\* The connection breaks.
Break == up /\ HangUp /\ Loss /\ UNCHANGED <<sender, receiver>>

\* The caller closes the connection of a call that has returned.
CallerCloses ==
    /\ spc = "ended" /\ up
    /\ HangUp
    /\ Fine /\ UNCHANGED <<sender, receiver>>

\* The next attempt: on a new connection once the old one is gone on both
\* sides, or (Reuse) on the one on which the receiver refused.
Retry ==
    /\ spc = "ended" /\ result \in {"failed", "refused"} /\ reader = "off"
    /\ \/ ~up /\ ~serving
          /\ up' = TRUE /\ serving' = TRUE /\ net' = <<>> /\ back' = <<>>
       \/ Reuse /\ result = "refused" /\ up /\ UNCHANGED link
    /\ spc' = "start" /\ offset' = 0 /\ acked' = 0 /\ notify' = FALSE
    /\ done' = None /\ result' = "none" /\ saved' = 0 /\ lost' = FALSE
    /\ UNCHANGED <<reader, cursor, part, legacy, faults>>

Sender ==
    \/ SendInit \/ Negotiate \/ NegotiateError \/ Gate \/ WaitNotified
    \/ WaitDone \/ SendChunk \/ Advance \/ SendDone \/ SendFails \/ FinalDone

Timeout == NegotiateTimeout \/ WaitTimeout \/ FinalTimeout

ReadLoop == ReadAnswer \/ Wake \/ ReadError

Receiver ==
    \/ HandleLegacy \/ HandleInit \/ HandleChunk \/ HandleChunkLong
    \/ HandleChunkElsewhere \/ HandleDone \/ HandleDoneEarly \/ Teardown

ReceiverFault ==
    \/ HandleInitRefused \/ HandleNoDir \/ HandleChunkFails \/ HandleDoneFails

Next ==
    \/ Sender \/ Timeout \/ SendChanged \/ ReadFails \/ ReadLoop
    \/ Receiver \/ ReceiverFault \/ Break \/ CallerCloses \/ Retry

Spec == Init /\ [][Next]_vars

\* The goroutines are scheduled and the caller closes and retries; no timer
\* need fire and no fault need happen.
FairSpec ==
    /\ Spec
    /\ WF_vars(Sender) /\ WF_vars(ReadLoop) /\ WF_vars(Receiver)
    /\ WF_vars(CallerCloses) /\ WF_vars(Retry)

-----------------------------------------------------------------------------
TypeOK ==
    /\ legacy \in BOOLEAN
    /\ spc \in {"start", "negotiate", "loop", "wait", "chunk", "advance",
                "done", "final", "ended"}
    /\ offset \in Nat /\ acked \in Nat /\ notify \in BOOLEAN
    /\ done \in {None, "ok", "refused", "error"}
    /\ reader \in {"off", "read", "wake"}
    /\ result \in {"none", "ok", "refused", "failed", "unsupported"}
    /\ up \in BOOLEAN /\ serving \in BOOLEAN
    /\ net \in Seq(Frames) /\ back \in Seq(Answers)
    /\ cursor \in Nat \cup {None} /\ part \in Seq(Blocks) /\ saved \in Nat
    /\ lost \in BOOLEAN /\ faults \in Nat

\* The window test never wraps around: whenever the sender evaluates it, no
\* byte it has not sent is acknowledged, although an ACK can overtake the
\* update of offset (offset-acked.Load() in streamSendWithInit).
NoWrap == spc \in {"loop", "wait", "chunk", "done", "final"} => acked <= offset

\* No wake-up is lost between the load of acked and the select: a sender
\* that waits at an open window has a notification, or is about to get one.
NoLostWakeup == spc = "wait" /\ WindowOpen => notify \/ reader = "wake"

\* At most a window of chunks, INIT or DONE, and their answers are on the
\* way at any time, also after the read loop has ended and nobody reads the
\* answers: a connection that buffers that much never blocks the receiver's
\* WriteFrame, and with it the sender's, for which there is no timeout.
InFlightBounded == Len(net) + Len(back) <= Window + 1

\* What is acknowledged is in the .partial as long as the transfer lasts, so
\* a retry resumes at or behind the last ACK ("a dropped transfer resumes
\* from the last contiguous byte").
AckedIsStored == cursor # None => acked <= Len(part)

\* "Returns ErrStreamUnsupported if the peer never answers INIT with an
\* INIT-ACK within the negotiation window" (SendFileStream): only a receiver
\* that predates streams, or a fault, makes the caller fall back to SendFile.
UnsupportedIsTrue == result = "unsupported" => legacy \/ lost

\* SendFileStream keeps the promise of Delivery: it reports success only for
\* a file that is in the receiver's directory, a refusal only for one that
\* is not and that no frame still on the way can complete, and stores at
\* most one copy per call.
Promise == INSTANCE Delivery WITH
    stored <- saved,
    outcome <- IF result \in {"failed", "unsupported"} THEN "unknown" ELSE result

KeepsPromise == Promise!Spec

Poisoned == \E i \in 1 .. Len(part) : part[i] = "bad"

\* Repeated often enough, the transfer arrives once the faults are over, and
\* no timer has to fire for it: every attempt returns.  The exceptions are a
\* receiver taken for a legacy one and a .partial with bytes that do not
\* match the hash, which every retry resumes from and none repairs.
Arrives ==
    \/ <>(saved = 1 \/ result = "unsupported")
    \/ <>[]Poisoned
=============================================================================
