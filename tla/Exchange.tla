------------------------------ MODULE Exchange ------------------------------
(***************************************************************************)
(* One message sent with Client.Send (client.go) until the sender is       *)
(* satisfied: the calls, the connections they use, the service that        *)
(* listens, accepts and stops (service.go), and handleConn's way from a    *)
(* frame to its answer.                                                    *)
(*                                                                         *)
(* A frame is what the two ends tell apart: whether it is tagged (carries  *)
(* MessageID or ReplyTo in a TypeTagged wrapper, tagged.go) and its length *)
(* on the wire.  Its type, tags and size are those of `msg', chosen once.  *)
(* The receiver is this service, or one that predates TypeTagged and       *)
(* answers a tagged frame with "ACK UNKNOWN(10)" or "ERR UNKNOWN(10)"      *)
(* (client.go); such a receiver is not in the repository.                  *)
(*                                                                         *)
(* A call writes one frame and reads one answer before it writes again,    *)
(* and gives its connection up after an error, so a direction of a         *)
(* connection holds at most one frame.  The dedupe cache is Dedupe's, for  *)
(* the one key of `msg' and within its window: in flight, or stored.       *)
(***************************************************************************)
EXTENDS Naturals, Sequences, FiniteSets

CONSTANTS
    MaxFrameSize,  \* MaxFrameSize, of both ends
    Overhead,      \* what the wrapper adds to this message's frame
    MaxConns,      \* bound: connections dialled
    MaxCalls,      \* bound: calls
    MaxFaults,     \* bound: faults
    None           \* nil

ASSUME ExchangeAssumption ==
    /\ MaxFrameSize \in Nat /\ Overhead \in 1 .. MaxFrameSize
    /\ MaxConns \in Nat /\ MaxCalls \in Nat /\ MaxFaults \in Nat

VARIABLES
    msg,        \* the message
    peer,       \* "new", or which answer an older receiver gives
    cpc,        \* where the client is
    conn,       \* its connection, 0 before the first
    tagged,     \* sendAndAwaitAck's tagged
    result,     \* what the last Send returned, or None
    calls,      \* calls so far
    up,         \* connections that work
    net,        \* the frame on the way to the receiver, or None
    back,       \* the answer on the way back, or None
    hpc,        \* where each connection's handler is
    got,        \* the frame it handles
    ans,        \* the answer it has prepared
    inbox,      \* what has been stored, in order
    cache,      \* the entry of the message's key: "none", "flying", "stored"
    listening,  \* s.listener accepts connections
    cancelled,  \* the run context is over
    loop,       \* where acceptLoop is
    stop,       \* where Stop is, and what it returned
    forgot,     \* history: how often it was lost that a keyed frame is stored
    faults      \* faults so far

client == <<cpc, conn, tagged, result, calls>>
link == <<up, net, back>>
handler == <<hpc, got, ans>>
store == <<inbox, cache, forgot>>
service == <<listening, cancelled, loop, stop>>
fixed == <<msg, peer>>
vars == <<fixed, client, link, handler, store, service, faults>>

Conns == 1 .. MaxConns

\* Types, as the receiver tells them apart: "text" stands for what is stored
\* (text, JSON, binary, a named file); a TypeFile frame without a name; a name
\* parseFramePayload refuses; a trace; what handleConn refuses (a trace too
\* short, a type it does not know); and what WriteFrame does (name too long,
\* malformed ID).
Types == {"text", "nameless", "badname", "trace", "refused", "invalid"}
Tags == {"none", "reply", "id"}   \* "id": with or without ReplyTo
Lengths == {MaxFrameSize - Overhead, MaxFrameSize, MaxFrameSize + 1}

Messages == [type : Types, tags : Tags, len : Lengths]
Frames == [tagged : BOOLEAN, len : Nat, call : Nat]
Answers == [word : {"ACK", "ERR", "JSON"}, unknown : BOOLEAN, dup : BOOLEAN]
Results == [kind : {"ok", "rejected", "error"}, tagged : BOOLEAN, dup : BOOLEAN]

ASSUME NilAssumption == None \notin Frames \cup Answers \cup Results

HasTags == msg.tags # "none"

\* Mutant of FitsTagged: the wrapper is not counted.
FitsTaggedBare == msg.len <= MaxFrameSize

\* taggedWirePayload: the wrapped frame fits in MaxFrameSize.
FitsTagged == msg.len + Overhead <= MaxFrameSize

\* Older receivers differ only in what they do with tags.
Init ==
    /\ msg \in {m \in Messages :
                  /\ m.len # MaxFrameSize - Overhead => m.type = "text" /\ m.tags # "reply"
                  /\ m.tags = "reply" => m.type = "text"
                  /\ m.type \in {"badname", "invalid"} => m.tags = "none"}
    /\ peer \in IF msg.type = "text" /\ HasTags /\ FitsTagged
               THEN {"new", "ACK", "ERR"} ELSE {"new"}
    /\ cpc = "idle" /\ conn = 0 /\ tagged = FALSE /\ result = None /\ calls = 0
    /\ up = {} /\ net = [c \in Conns |-> None] /\ back = [c \in Conns |-> None]
    /\ hpc = [c \in Conns |-> "none"] /\ got = [c \in Conns |-> None]
    /\ ans = [c \in Conns |-> None]
    /\ inbox = <<>> /\ cache = "none"
    /\ listening = FALSE /\ cancelled = FALSE /\ loop = "off" /\ stop = "none"
    /\ forgot = 0 /\ faults = 0

Fault == faults < MaxFaults /\ faults' = faults + 1

-----------------------------------------------------------------------------
(* Frames *)

\* What WriteFrame writes: the original format, or the wrapper around it.
Wire(t, n) == [tagged |-> t, call |-> n,
               len |-> IF t THEN msg.len + Overhead ELSE msg.len]

\* ReadFrame and parseFramePayload return the frame.
Readable(f) == f.len <= MaxFrameSize /\ msg.type # "badname"

\* The frame carries a MessageID, and its type is stored as one unit
\* (dedupeCacheFor with the default configuration).
Keyed(f) ==
    /\ peer = "new" /\ f.tagged /\ msg.tags = "id"
    /\ msg.type \in {"text", "nameless"}

\* c's handler has stored a keyed frame and not yet finished its claim.
Unfinished(c) ==
    hpc[c] = "finish" /\ Keyed(got[c]) /\ ans[c].word # "ERR"

-----------------------------------------------------------------------------
(* The client *)

\* Dial.  The listener queues the connection; the last one is closed.
Dial ==
    /\ cpc \in {"idle", "posted"} /\ conn < MaxConns /\ calls < MaxCalls /\ listening
    /\ conn' = conn + 1 /\ cpc' = "idle"
    /\ up' = (up \ {conn}) \cup {conn + 1}
    /\ hpc' = [hpc EXCEPT ![conn + 1] = "queued"]
    /\ UNCHANGED <<fixed, tagged, result, calls, net, back, got, ans, store,
                   service, faults>>

\* sendAndAwaitAck up to the first read: tagged if the message has tags and
\* the wrapper leaves room for them.
Send ==
    /\ cpc = "idle" /\ conn \in up /\ calls < MaxCalls /\ msg.type # "invalid"
    /\ calls' = calls + 1 /\ cpc' = "await" /\ result' = None
    /\ tagged' = (HasTags /\ FitsTagged)
    /\ net' = [net EXCEPT ![conn] = Wire(HasTags /\ FitsTagged, calls + 1)]
    /\ UNCHANGED <<fixed, conn, up, back, handler, store, service, faults>>

\* SendText, SendJSON, SendBinary, SendFile and SendTrace: no tags, and the
\* answer is left for Recv.
Post ==
    /\ cpc = "idle" /\ conn \in up /\ calls < MaxCalls /\ msg.type # "invalid"
    /\ calls' = calls + 1 /\ cpc' = "posted" /\ result' = None
    /\ net' = [net EXCEPT ![conn] = Wire(FALSE, calls + 1)]
    /\ UNCHANGED <<fixed, conn, tagged, up, back, handler, store, service, faults>>

\* Recv takes the answer to a posted frame, or an error.
Recv ==
    /\ cpc = "posted"
    /\ back[conn] # None \/ conn \notin up \/ hpc[conn] = "end"
    /\ cpc' = "idle" /\ back' = [back EXCEPT ![conn] = None]
    /\ UNCHANGED <<fixed, conn, tagged, result, calls, up, net, handler, store,
                   service, faults>>

\* WriteFrame refuses the frame, or the connection does.
SendFails ==
    /\ cpc = "idle" /\ conn # 0 /\ calls < MaxCalls
    /\ msg.type = "invalid" \/ conn \notin up
    /\ calls' = calls + 1
    /\ result' = [kind |-> "error", tagged |-> FALSE, dup |-> FALSE]
    /\ UNCHANGED <<fixed, cpc, conn, tagged, link, handler, store, service, faults>>

\* Mutant of Predates: a success ACK is taken for an answer.
PredatesErr(a) == a.unknown /\ a.word = "ERR"

\* receiverPredatesTagged
Predates(a) == a.unknown

\* Mutant of Resend: still reported as tagged.
ResendTagged ==
    /\ cpc = "await" /\ back[conn] # None /\ tagged /\ Predates(back[conn])
    /\ conn \in up
    /\ cpc' = "reawait"
    /\ net' = [net EXCEPT ![conn] = Wire(FALSE, calls)]
    /\ back' = [back EXCEPT ![conn] = None]
    /\ UNCHANGED <<fixed, conn, tagged, result, calls, up, handler, store, service,
                   faults>>

\* The receiver does not know tags: the frame again without them, on the
\* same connection.
Resend ==
    /\ cpc = "await" /\ back[conn] # None /\ tagged /\ Predates(back[conn])
    /\ conn \in up
    /\ cpc' = "reawait" /\ tagged' = FALSE
    /\ net' = [net EXCEPT ![conn] = Wire(FALSE, calls)]
    /\ back' = [back EXCEPT ![conn] = None]
    /\ UNCHANGED <<fixed, conn, result, calls, up, handler, store, service, faults>>

\* Send returns with the answer.
Return ==
    /\ cpc \in {"await", "reawait"} /\ back[conn] # None
    /\ cpc = "await" /\ tagged => ~Predates(back[conn])
    /\ cpc' = "idle" /\ back' = [back EXCEPT ![conn] = None]
    /\ result' = [kind |-> IF back[conn].word = "ERR" THEN "rejected" ELSE "ok",
                  tagged |-> tagged, dup |-> back[conn].dup]
    /\ UNCHANGED <<fixed, conn, tagged, calls, up, net, handler, store, service,
                   faults>>

\* Reading the answer fails, or writing the frame again does.
ReadFails ==
    /\ cpc \in {"await", "reawait"}
    /\ \/ back[conn] = None /\ (conn \notin up \/ hpc[conn] = "end")
       \/ back[conn] # None /\ cpc = "await" /\ tagged /\ Predates(back[conn])
          /\ conn \notin up
    /\ cpc' = "idle"
    /\ result' = [kind |-> "error", tagged |-> FALSE, dup |-> FALSE]
    /\ up' = up \ {conn} /\ back' = [back EXCEPT ![conn] = None]
    /\ UNCHANGED <<fixed, conn, tagged, calls, net, handler, store, service,
                   faults>>

Client == Dial \/ Send \/ Post \/ Recv \/ SendFails \/ Resend \/ Return \/ ReadFails

-----------------------------------------------------------------------------
(* The service *)

\* Start.  (When Listen fails nothing has changed.)
Start ==
    /\ loop = "off" /\ stop = "none"
    /\ listening' = TRUE /\ loop' = "check"
    /\ UNCHANGED <<fixed, client, link, handler, store, cancelled, stop, faults>>

\* acceptLoop looks at the context, then calls Accept.
LoopCheck ==
    /\ loop = "check"
    /\ loop' = IF cancelled THEN "done" ELSE "accept"
    /\ UNCHANGED <<fixed, client, link, handler, store, listening, cancelled, stop,
                   faults>>

Accept(c) ==
    /\ loop = "accept" /\ listening /\ hpc[c] = "queued"
    /\ hpc' = [hpc EXCEPT ![c] = "read"] /\ loop' = "check"
    /\ UNCHANGED <<fixed, client, link, got, ans, store, listening, cancelled,
                   stop, faults>>

\* Accept returns an error once the listener is closed ...
AcceptClosed ==
    /\ loop = "accept" /\ ~listening
    /\ loop' = "done"
    /\ UNCHANGED <<fixed, client, link, handler, store, listening, cancelled, stop,
                   faults>>

\* ... or for another reason, or panics: the loop ends, the listener stays.
AcceptFails ==
    /\ loop = "accept" /\ listening /\ Fault
    /\ loop' = "done"
    /\ UNCHANGED <<fixed, client, link, handler, store, listening, cancelled, stop>>

\* Stop cancels the run context ...
StopCancel ==
    /\ stop = "none" /\ loop # "off"
    /\ stop' = "closing" /\ cancelled' = TRUE
    /\ UNCHANGED <<fixed, client, link, handler, store, listening, loop, faults>>

\* Mutant of StopClose: the listener stays open.
StopNoClose ==
    /\ stop = "closing"
    /\ stop' = "waiting"
    /\ UNCHANGED <<fixed, client, link, handler, store, listening, cancelled, loop,
                   faults>>

\* ... and closes the listener, which resets the connections it has queued;
\* the accept loop may run in between.
StopClose ==
    /\ stop = "closing"
    /\ stop' = "waiting" /\ listening' = FALSE
    /\ up' = {c \in up : hpc[c] # "queued"}
    /\ UNCHANGED <<fixed, client, net, back, handler, store, cancelled, loop, faults>>

Stop == StopCancel \/ StopClose

\* Stop of a service that was never started.
StopUnstarted ==
    /\ stop = "none" /\ loop = "off"
    /\ stop' = "nil"
    /\ UNCHANGED <<fixed, client, link, handler, store, listening, cancelled, loop,
                   faults>>

StopDone ==
    /\ stop = "waiting" /\ loop = "done"
    /\ stop' = "nil"
    /\ UNCHANGED <<fixed, client, link, handler, store, listening, cancelled, loop,
                   faults>>

\* The caller's context is over, perhaps already when Stop was called.
StopTimeout ==
    /\ stop = "waiting" /\ Fault
    /\ stop' = "error"
    /\ UNCHANGED <<fixed, client, link, handler, store, listening, cancelled, loop>>

\* The process ends, in order or not, and another is started.
Restart ==
    /\ loop # "off" /\ Fault
    /\ up' = {} /\ cache' = "none"
    /\ forgot' = IF cache = "stored" \/ \E c \in Conns : Unfinished(c)
                 THEN forgot + 1 ELSE forgot
    /\ hpc' = [c \in Conns |-> IF hpc[c] = "none" THEN "none" ELSE "end"]
    /\ got' = [c \in Conns |-> None] /\ ans' = [c \in Conns |-> None]
    /\ listening' = FALSE /\ cancelled' = FALSE /\ loop' = "off" /\ stop' = "none"
    /\ UNCHANGED <<fixed, client, net, back, inbox>>

Service ==
    \/ Start \/ LoopCheck \/ AcceptClosed \/ AcceptFails
    \/ Stop \/ StopUnstarted \/ StopDone \/ StopTimeout \/ Restart
    \/ \E c \in Conns : Accept(c)

-----------------------------------------------------------------------------
(* handleConn *)

End(c) ==
    /\ hpc' = [hpc EXCEPT ![c] = "end"]
    /\ got' = [got EXCEPT ![c] = None] /\ ans' = [ans EXCEPT ![c] = None]

Answer(w, u, d) == [word |-> w, unknown |-> u, dup |-> d]

\* ReadFrame returns a frame: one an older receiver does not know, one that
\* is subject to suppression, or one to be saved at once.
Read(c) ==
    /\ hpc[c] = "read" /\ net[c] # None /\ Readable(net[c])
    /\ net' = [net EXCEPT ![c] = None]
    /\ got' = [got EXCEPT ![c] = net[c]]
    /\ IF peer # "new" /\ net[c].tagged
       THEN /\ hpc' = [hpc EXCEPT ![c] = "ack"]
            /\ ans' = [ans EXCEPT ![c] = Answer(peer, TRUE, FALSE)]
       ELSE /\ hpc' = [hpc EXCEPT ![c] = IF Keyed(net[c]) THEN "claim" ELSE "save"]
            /\ UNCHANGED ans
    /\ UNCHANGED <<fixed, client, up, back, store, service, faults>>

\* ReadFrame fails: the frame is too large or malformed, or the connection
\* is over.
ReadEnds(c) ==
    /\ hpc[c] = "read"
    /\ IF net[c] = None THEN c \notin up ELSE ~Readable(net[c])
    /\ net' = [net EXCEPT ![c] = None]
    /\ End(c)
    /\ UNCHANGED <<fixed, client, up, back, store, service, faults>>

\* The read deadline passes.
IdleTimeout(c) ==
    /\ hpc[c] = "read" /\ Fault
    /\ End(c)
    /\ UNCHANGED <<fixed, client, link, store, service>>

\* Mutant of Claim: does not wait for a delivery in flight.
ClaimRacing(c) ==
    /\ hpc[c] = "claim"
    /\ IF cache # "stored" THEN cache' = "flying" /\ hpc' = [hpc EXCEPT ![c] = "save"]
       ELSE UNCHANGED cache /\ hpc' = [hpc EXCEPT ![c] = "wait"]
    /\ UNCHANGED <<fixed, client, link, got, ans, inbox, forgot, service, faults>>

\* deliveryDedupe.begin
Claim(c) ==
    /\ hpc[c] = "claim"
    /\ IF cache = "none" THEN cache' = "flying" /\ hpc' = [hpc EXCEPT ![c] = "save"]
       ELSE UNCHANGED cache /\ hpc' = [hpc EXCEPT ![c] = "wait"]
    /\ UNCHANGED <<fixed, client, link, got, ans, inbox, forgot, service, faults>>

\* The delivery waited for is over: stored, or to be tried again.
WaitDone(c) ==
    /\ hpc[c] = "wait" /\ cache # "flying"
    /\ IF cache = "stored"
       THEN /\ hpc' = [hpc EXCEPT ![c] = "ack"]
            /\ ans' = [ans EXCEPT ![c] = Answer("ACK", FALSE, TRUE)]
       ELSE hpc' = [hpc EXCEPT ![c] = "claim"] /\ UNCHANGED ans
    /\ UNCHANGED <<fixed, client, link, got, store, service, faults>>

WaitCancelled(c) ==
    /\ hpc[c] = "wait" /\ cancelled
    /\ End(c)
    /\ UNCHANGED <<fixed, client, link, store, service, faults>>

Prepared(c, w) ==
    /\ hpc' = [hpc EXCEPT ![c] = "finish"]
    /\ ans' = [ans EXCEPT ![c] = Answer(w, FALSE, FALSE)]

\* The frame is stored: a message, the message in a trace, or a file.
Save(c) ==
    /\ hpc[c] = "save" /\ msg.type \in {"text", "trace"}
    /\ inbox' = Append(inbox, [call |-> got[c].call, tagged |-> got[c].tagged])
    /\ Prepared(c, IF msg.type = "trace" THEN "JSON" ELSE "ACK")
    /\ UNCHANGED <<fixed, client, link, got, cache, forgot, service, faults>>

\* It cannot be stored.  The timing answer of a trace is the same.
SaveFails(c) ==
    /\ hpc[c] = "save" /\ msg.type \in {"text", "trace"} /\ Fault
    /\ Prepared(c, IF msg.type = "trace" THEN "JSON" ELSE "ERR")
    /\ UNCHANGED <<fixed, client, link, got, store, service>>

\* There is nothing to store.
SaveNothing(c) ==
    /\ hpc[c] = "save" /\ msg.type \in {"nameless", "refused"}
    /\ Prepared(c, IF msg.type = "nameless" THEN "ACK" ELSE "ERR")
    /\ UNCHANGED <<fixed, client, link, got, store, service, faults>>

\* The claim the handler holds, if any, is finished.
Release(c, outcome) ==
    cache' = IF Keyed(got[c]) THEN outcome ELSE cache

\* claim.finish: what was refused is forgotten.
Finish(c) ==
    /\ hpc[c] = "finish"
    /\ Release(c, IF ans[c].word = "ERR" THEN "none" ELSE "stored")
    /\ hpc' = [hpc EXCEPT ![c] = "ack"]
    /\ UNCHANGED <<fixed, client, link, got, ans, inbox, forgot, service, faults>>

\* Mutant of Panic: the claim is not released.
PanicHolding(c) ==
    /\ hpc[c] \in {"save", "finish"} /\ Fault
    /\ forgot' = IF Unfinished(c) THEN forgot + 1 ELSE forgot
    /\ End(c)
    /\ UNCHANGED <<fixed, client, link, inbox, cache, service>>

\* A panic, before or after the frame was stored (its event is published to
\* subscribers): the deferred finish releases the claim as not stored.
Panic(c) ==
    /\ hpc[c] \in {"save", "finish"} /\ Fault
    /\ Release(c, "none")
    /\ forgot' = IF Unfinished(c) THEN forgot + 1 ELSE forgot
    /\ End(c)
    /\ UNCHANGED <<fixed, client, link, inbox, service>>

\* The answer is written; if that fails the connection ends.
Ack(c) ==
    /\ hpc[c] = "ack"
    /\ IF c \in up
       THEN /\ back' = [back EXCEPT ![c] = ans[c]]
            /\ hpc' = [hpc EXCEPT ![c] = "read"]
            /\ got' = [got EXCEPT ![c] = None] /\ ans' = [ans EXCEPT ![c] = None]
       ELSE End(c) /\ UNCHANGED back
    /\ UNCHANGED <<fixed, client, up, net, store, service, faults>>

Handler(c) ==
    \/ Read(c) \/ ReadEnds(c) \/ Claim(c) \/ WaitDone(c) \/ WaitCancelled(c)
    \/ Save(c) \/ SaveNothing(c) \/ Finish(c) \/ Ack(c)

HandlerFault(c) == IdleTimeout(c) \/ SaveFails(c) \/ Panic(c)

\* The connection breaks; what is on the way arrives or does not.
Break(c) ==
    /\ c \in up /\ Fault
    /\ up' = up \ {c}
    /\ net' = net \/ net' = [net EXCEPT ![c] = None]
    /\ back' = back \/ back' = [back EXCEPT ![c] = None]
    /\ UNCHANGED <<fixed, client, handler, store, service>>

Next ==
    \/ Client \/ Service
    \/ \E c \in Conns : Handler(c) \/ HandlerFault(c) \/ Break(c)

Spec == Init /\ [][Next]_vars

\* The client, the accept loop, Stop and the handlers keep running; nothing
\* makes the client call again or the service start or stop.
FairSpec ==
    /\ Spec
    /\ WF_vars(Resend \/ Return \/ ReadFails)
    /\ WF_vars(LoopCheck \/ AcceptClosed) /\ WF_vars(StopClose \/ StopDone)
    /\ \A c \in Conns : WF_vars(Accept(c)) /\ WF_vars(Handler(c))

-----------------------------------------------------------------------------
(* Properties *)

TypeOK ==
    /\ msg \in Messages /\ peer \in {"new", "ACK", "ERR"}
    /\ cpc \in {"idle", "posted", "await", "reawait"} /\ conn \in 0 .. MaxConns
    /\ tagged \in BOOLEAN /\ result \in Results \cup {None} /\ calls \in 0 .. MaxCalls
    /\ up \subseteq Conns
    /\ net \in [Conns -> Frames \cup {None}] /\ back \in [Conns -> Answers \cup {None}]
    /\ hpc \in [Conns -> {"none", "queued", "read", "claim", "wait", "save",
                          "finish", "ack", "end"}]
    /\ got \in [Conns -> Frames \cup {None}] /\ ans \in [Conns -> Answers \cup {None}]
    /\ inbox \in Seq([call : Nat, tagged : BOOLEAN])
    /\ cache \in {"none", "flying", "stored"}
    /\ listening \in BOOLEAN /\ cancelled \in BOOLEAN
    /\ loop \in {"off", "check", "accept", "done"}
    /\ stop \in {"none", "closing", "waiting", "nil", "error"}
    /\ forgot \in 0 .. MaxFaults /\ faults \in 0 .. MaxFaults

Copies(n) == {i \in 1 .. Len(inbox) : inbox[i].call = n}

Storable == msg.type = "text"

\* What Send returns is true, whatever the receiver's version and whatever
\* earlier calls left behind: after success the call stored the message once,
\* or an earlier call had stored it and this one has not; after ErrRejected
\* the call has not stored it, and does not later.  (Success is read for what
\* is Storable: handleConn answers a trace with its timing also when saving
\* the message in it fails.)
AnswerIsTrue ==
    result # None =>
        /\ result.kind = "rejected" => Copies(calls) = {}
        /\ result.kind = "ok" /\ Storable =>
             IF result.dup THEN Copies(calls) = {} /\ inbox # <<>>
             ELSE Cardinality(Copies(calls)) = 1

\* SendResult.Tagged says whether the stored message has its MessageID and
\* ReplyTo, also when Send fell back to the untagged form.
TaggedIsTrue ==
    result # None /\ result.kind = "ok" =>
        \A i \in Copies(calls) : inbox[i].tagged = result.tagged

\* A call stores at most one copy, also when it writes the frame twice.  Of
\* the frames that carry the message's ID, all calls together store one, and
\* one more for each time the service lost that it had stored one: a panic
\* between the save and claim.finish, or a restart.  A panic before the save
\* costs no copy.  Frames without the ID (Post, no room for the wrapper, a
\* receiver that predates tags) are not suppressed: one copy for each call.
AtMostOnce ==
    /\ \A n \in 1 .. calls : Cardinality(Copies(n)) <= 1
    /\ msg.tags = "id" /\ Storable =>
         Cardinality({i \in 1 .. Len(inbox) : inbox[i].tagged}) <= 1 + forgot

\* Without a fault, and before Stop, a call for a message that fits in a
\* frame succeeds: with every receiver, and when only the tags do not fit.
FitsGetsThrough ==
    /\ result # None /\ Storable /\ msg.len <= MaxFrameSize
    /\ faults = 0 /\ ~cancelled
    => result.kind = "ok"

\* A call ends, though the client sets no deadline: it is answered, or its
\* connection ends.  Not so when the accept loop has ended by itself and left
\* the listener open.
SendReturns ==
    cpc \in {"await", "reawait"} ~> cpc \in {"idle", "posted"} \/ (loop = "done" /\ listening)

\* Stop returns, wherever the accept loop is when the context is cancelled and
\* when the listener is closed: before its look at the context, in Accept, or
\* with a connection just accepted.
StopReturns == stop = "closing" ~> stop \notin {"closing", "waiting"}

=============================================================================
