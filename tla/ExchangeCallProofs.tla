------------------------- MODULE ExchangeCallProofs -------------------------
(***************************************************************************)
(* Proofs about Exchange: what Send returns is true and a message is       *)
(* stored at most once, for any number of calls, connections and faults    *)
(* and any frame size.                                                     *)
(*                                                                         *)
(* The invariant follows a call's frame: it is on its way to the receiver, *)
(* or with one handler, or answered, and no other frame of the call is     *)
(* anywhere (Slots, Carriers).  Until a handler has saved it there is no   *)
(* copy of it (UnreadUnsaved, HeldUnsaved); then its answer says what was  *)
(* done (PreparedTrue, BackTrue, ResultTrue).                              *)
(* For a message with an ID the cache says how many copies there can be    *)
(* (ClaimsHeld, ClaimsCount).                                              *)
(***************************************************************************)
EXTENDS Exchange, TLAPS

Carries(c, n) ==
    (net[c] # None /\ net[c].call = n) \/ (got[c] # None /\ got[c].call = n)

\* What a handler holds goes with where it is.
HandlerOK(h, f, a) ==
    /\ f # None <=> h \in {"claim", "wait", "save", "finish", "ack"}
    /\ a # None <=> h \in {"finish", "ack"}
    /\ h = "finish" => ~a.dup /\ ~a.unknown

Handlers ==
    \A c \in Conns :
      /\ HandlerOK(hpc[c], got[c], ans[c])
      /\ c > conn => hpc[c] = "none" /\ net[c] = None /\ back[c] = None

\* A connection carries one frame or answer at a time, and an idle client
\* has left nothing on its connection.
OneFrame(n, g, b) == (n # None => g = None /\ b = None) /\ (g # None => b = None)

Slots ==
    /\ \A c \in Conns : OneFrame(net[c], got[c], back[c])
    /\ up \subseteq {conn} /\ 0 \notin up
    /\ cpc = "idle" /\ conn \in up =>
         /\ got[conn] = None /\ back[conn] = None
         /\ net[conn] = None \/ hpc[conn] = "end"
    /\ cpc # "idle" => conn # 0
    /\ cpc = "reawait" => ~tagged

\* Every frame belongs to one call, and the running call is on the client's
\* connection.
Carriers ==
    /\ \A c \in Conns : \A n \in Nat : Carries(c, n) => n \in 1 .. calls
    /\ \A c, d \in Conns : \A n \in Nat : Carries(c, n) /\ Carries(d, n) => c = d
    /\ cpc # "idle" =>
         /\ calls # 0 /\ result = None
         /\ \A c \in Conns : Carries(c, calls) => c = conn
         /\ \A n \in Nat : Carries(conn, n) => n = calls
    /\ cpc \in {"await", "reawait"} =>
         /\ net[conn] # None => net[conn].tagged = tagged
         /\ got[conn] # None => got[conn].tagged = tagged
    /\ result # None /\ result.kind # "error" =>
         \A c \in Conns : ~Carries(c, calls)

\* The copies of call n among what is stored, q.
CopiesIn(q, n) == {i \in 1 .. Len(q) : q[i].call = n}

\* A call is stored once at most ...
StoredOnce ==
    /\ \A i \in 1 .. Len(inbox) : inbox[i].call \in 1 .. calls
    /\ \A n \in Nat : CopiesIn(inbox, n) = {} \/ \E i \in Nat : CopiesIn(inbox, n) = {i}

\* ... and not before a handler has saved it.
UnreadUnsaved ==
    \A c \in Conns : net[c] # None => CopiesIn(inbox, net[c].call) = {}

HeldUnsaved ==
    \A c \in Conns : hpc[c] \in {"claim", "wait", "save"} =>
      CopiesIn(inbox, got[c].call) = {}

\* What the answer a to a frame of call n, tagged or not, says when q is
\* stored.
Means(a, n, t, q, storable) ==
    /\ a.unknown => t /\ CopiesIn(q, n) = {}
    /\ a.word = "ERR" => CopiesIn(q, n) = {}
    /\ a.dup => CopiesIn(q, n) = {} /\ (storable => q # <<>>)
    /\ ~a.unknown /\ ~a.dup /\ a.word # "ERR" /\ storable => CopiesIn(q, n) # {}
    /\ \A i \in CopiesIn(q, n) : q[i].tagged = t

PreparedTrue ==
    \A c \in Conns : hpc[c] \in {"finish", "ack"} =>
      Means(ans[c], got[c].call, got[c].tagged, inbox, Storable)

BackTrue ==
    cpc \in {"await", "reawait"} /\ back[conn] # None =>
      Means(back[conn], calls, tagged, inbox, Storable)

\* What Send's result r for call n says.
Holding(r, n, q, storable) ==
    /\ r.kind = "rejected" => CopiesIn(q, n) = {}
    /\ r.kind = "ok" /\ storable =>
         IF r.dup THEN CopiesIn(q, n) = {} /\ q # <<>> ELSE CopiesIn(q, n) # {}
    /\ \A i \in CopiesIn(q, n) : q[i].tagged = r.tagged

ResultTrue ==
    result # None /\ result.kind # "error" => Holding(result, calls, inbox, Storable)

\* A tagged frame of a message m that receiver p stores has a key.
KeyedIn(p, m, f) ==
    p = "new" /\ f.tagged /\ m.tags = "id" /\ m.type \in {"text", "nameless"}

\* The handler that holds the claim of the message's key.
Holds(c) == hpc[c] \in {"save", "finish"} /\ KeyedIn(peer, msg, got[c])

TagsIn(q) == {i \in 1 .. Len(q) : q[i].tagged}

\* One handler at a time holds the claim, the entry says so, and only frames
\* with a key wait for it.
ClaimsHeld ==
    /\ cache = "flying" <=> \E c \in Conns : Holds(c)
    /\ \A c, d \in Conns : Holds(c) /\ Holds(d) => c = d

KeyedWait ==
    /\ \A c \in Conns : hpc[c] \in {"claim", "wait"} => KeyedIn(peer, msg, got[c])
    /\ peer # "new" => \A c \in Conns :
         got[c] # None /\ got[c].tagged => hpc[c] = "ack"

ClaimsStored == cache = "stored" /\ Storable => inbox # <<>>

\* The copies of a message with an ID, as far as the entry and its holder
\* tell.
ClaimsCount ==
    /\ forgot <= faults
    /\ msg.tags = "id" /\ Storable =>
         /\ Cardinality(TagsIn(inbox)) <= 1 + forgot
         /\ cache = "none" => Cardinality(TagsIn(inbox)) <= forgot
         /\ \A c \in Conns :
              Holds(c) /\ (hpc[c] = "finish" => ans[c].word = "ERR")
                => Cardinality(TagsIn(inbox)) <= forgot

\* Without a fault, and before Stop, the client's connection works and only
\* an answer that leads to a second frame refuses one that fits.
Works == conn # 0 => conn \in up /\ hpc[conn] # "end"

Favours(a) == a = None \/ a.unknown \/ a.word # "ERR"

Clean ==
    Storable /\ msg.len <= MaxFrameSize /\ faults = 0 /\ ~cancelled =>
      /\ Works
      /\ \A c \in Conns : net[c] # None => net[c].len <= MaxFrameSize
      /\ \A c \in Conns : Favours(ans[c]) /\ Favours(back[c])
      /\ result # None => result.kind = "ok"

\* Stop has cancelled the context before it closes the listener.
CancelsFirst == stop = "closing" => cancelled

ExchangeInv ==
    /\ TypeOK /\ Handlers /\ Slots /\ Carriers
    /\ StoredOnce /\ UnreadUnsaved /\ HeldUnsaved
    /\ PreparedTrue /\ BackTrue /\ ResultTrue
    /\ ClaimsHeld /\ KeyedWait /\ ClaimsStored /\ ClaimsCount
    /\ Clean /\ CancelsFirst

-----------------------------------------------------------------------------
(* What the steps of each part leave alone *)

USE DEF client, link, handler, store, service, fixed

LEMMA ClientFrame ==
    ASSUME Client
    PROVE  /\ UNCHANGED <<fixed, got, ans, store, service, faults>>
           /\ ~Dial => UNCHANGED hpc
BY Zenon DEF Client, Dial, Send, Post, Recv, SendFails, Resend, Return, ReadFails

\* The steps of the service that end no handler and no connection.
Quiet ==
    \/ Start \/ LoopCheck \/ AcceptClosed \/ AcceptFails
    \/ StopUnstarted \/ StopDone \/ StopTimeout

LEMMA QuietFrame ==
    ASSUME Quiet
    PROVE  UNCHANGED <<fixed, client, link, handler, store, cancelled>>
BY DEF Quiet, Start, LoopCheck, AcceptClosed, AcceptFails, StopUnstarted,
       StopDone, StopTimeout

LEMMA ServiceFrame ==
    ASSUME Service
    PROVE  /\ UNCHANGED <<fixed, client, net, back, inbox>>
           /\ ~Restart => UNCHANGED <<got, ans, cache, forgot>>
BY QuietFrame DEF Service, Quiet, Stop, StopCancel, StopClose, Restart, Accept

LEMMA HandlerFrame ==
    ASSUME NEW c \in Conns, Handler(c) \/ HandlerFault(c)
    PROVE  /\ UNCHANGED <<fixed, client, up, service>>
           /\ ~Save(c) => UNCHANGED inbox
BY Zenon DEF Handler, HandlerFault, Read, ReadEnds, IdleTimeout, Claim, WaitDone,
       WaitCancelled, Save, SaveFails, SaveNothing, Finish, Panic, Ack

LEMMA BreakFrame ==
    ASSUME NEW c \in Conns, Break(c)
    PROVE  UNCHANGED <<fixed, client, handler, store, service>>
BY DEF Break

\* Save, SaveFails and SaveNothing prepare an answer.
LEMMA SaveSteps ==
    ASSUME NEW c \in Conns, Save(c) \/ SaveFails(c) \/ SaveNothing(c)
    PROVE  /\ UNCHANGED <<got, net, back, cache, forgot>>
           /\ hpc[c] = "save" /\ hpc' = [hpc EXCEPT ![c] = "finish"]
BY Zenon DEF Save, SaveFails, SaveNothing, Prepared

LEMMA AnswerPrepared ==
    ASSUME NEW c \in Conns, Save(c) \/ SaveFails(c) \/ SaveNothing(c)
    PROVE  \E w \in {"ACK", "ERR", "JSON"} :
             ans' = [ans EXCEPT ![c] = Answer(w, FALSE, FALSE)]
BY Zenon DEF Save, SaveFails, SaveNothing, Prepared

LEMMA AnswerShape ==
    ASSUME NEW w \in {"ACK", "ERR", "JSON"}, NEW u \in BOOLEAN, NEW d \in BOOLEAN
    PROVE  Answer(w, u, d) \in Answers /\ Answer(w, u, d) # None
<1>1. Answer(w, u, d) \in Answers
  BY DEF Answer, Answers
<1> QED
  BY <1>1, NilAssumption

LEMMA WireShape ==
    ASSUME TypeOK, NEW t \in BOOLEAN, NEW n \in Nat
    PROVE  /\ Wire(t, n) \in Frames /\ Wire(t, n) # None
           /\ Wire(t, n).call = n /\ Wire(t, n).tagged = t
<1>1. msg.len \in Nat /\ Overhead \in Nat
  BY ExchangeAssumption DEF TypeOK, Messages, Lengths
<1>2. Wire(t, n) \in Frames
  BY <1>1 DEF Wire, Frames
<1> QED
  BY <1>2, NilAssumption DEF Wire

LEMMA FramesOf ==
    ASSUME TypeOK
    PROVE  \A c \in Conns :
             /\ net[c] # None => net[c].call \in Nat /\ net[c].tagged \in BOOLEAN
             /\ got[c] # None => got[c].call \in Nat /\ got[c].tagged \in BOOLEAN
BY DEF TypeOK, Frames

\* What most steps need of the types.
Tables ==
    /\ DOMAIN net = Conns /\ DOMAIN back = Conns
    /\ DOMAIN hpc = Conns /\ DOMAIN got = Conns /\ DOMAIN ans = Conns
    /\ conn \in 0 .. MaxConns /\ calls \in Nat
    /\ tagged \in BOOLEAN

LEMMA TablesOK ==
    ASSUME TypeOK
    PROVE  Tables
BY ExchangeAssumption DEF TypeOK, Tables

\* A handler works on its own connection.
LEMMA HandlerLocal ==
    ASSUME TypeOK, NEW c \in Conns, Handler(c) \/ HandlerFault(c)
    PROVE  \A d \in Conns : d # c =>
             /\ hpc'[d] = hpc[d] /\ got'[d] = got[d] /\ ans'[d] = ans[d]
             /\ net'[d] = net[d] /\ back'[d] = back[d]
<1> DEFINE Local(f, g) == g = f \/ \E v : g = [f EXCEPT ![c] = v]
<1>1. Local(hpc, hpc') /\ Local(got, got') /\ Local(ans, ans')
      /\ Local(net, net') /\ Local(back, back')
  <2>1. CASE Read(c)
    BY <2>1, Zenon DEF Read
  <2>2. CASE WaitDone(c) \/ Claim(c) \/ Finish(c)
    BY <2>2, Zenon DEF WaitDone, Claim, Finish
  <2>3. CASE ReadEnds(c) \/ IdleTimeout(c) \/ WaitCancelled(c) \/ Panic(c)
    BY <2>3 DEF ReadEnds, IdleTimeout, WaitCancelled, Panic, End
  <2>4. CASE Save(c) \/ SaveFails(c) \/ SaveNothing(c)
    BY <2>4, SaveSteps, AnswerPrepared, Zenon
  <2>5. CASE Ack(c)
    BY <2>5 DEF Ack, End
  <2> QED
    BY <2>1, <2>2, <2>3, <2>4, <2>5 DEF Handler, HandlerFault
<1>2. ASSUME NEW f, NEW g, DOMAIN f = Conns, Local(f, g)
      PROVE  \A d \in Conns : d # c => g[d] = f[d]
  BY <1>2
<1> HIDE DEF Local
<1> QED
  BY <1>1, <1>2, TablesOK DEF Tables

-----------------------------------------------------------------------------
(* Types *)

ClientType ==
    /\ msg \in Messages /\ peer \in {"new", "ACK", "ERR"}
    /\ cpc \in {"idle", "posted", "await", "reawait"} /\ conn \in 0 .. MaxConns
    /\ tagged \in BOOLEAN /\ calls \in 0 .. MaxCalls
    /\ up \subseteq Conns

FrameType ==
    net \in [Conns -> Frames \cup {None}] /\ got \in [Conns -> Frames \cup {None}]

AnswerType ==
    /\ back \in [Conns -> Answers \cup {None}] /\ ans \in [Conns -> Answers \cup {None}]
    /\ result \in Results \cup {None}

StoreType ==
    /\ hpc \in [Conns -> {"none", "queued", "read", "claim", "wait", "save",
                          "finish", "ack", "end"}]
    /\ inbox \in Seq([call : Nat, tagged : BOOLEAN])

ServiceType ==
    /\ cache \in {"none", "flying", "stored"}
    /\ listening \in BOOLEAN /\ cancelled \in BOOLEAN
    /\ loop \in {"off", "check", "accept", "done"}
    /\ stop \in {"none", "closing", "waiting", "nil", "error"}
    /\ forgot \in 0 .. MaxFaults /\ faults \in 0 .. MaxFaults

LEMMA ClientTypeKept ==
    ASSUME TypeOK, Next
    PROVE  ClientType'
<1> USE DEF ClientType, TypeOK
<1>1. CASE Dial
  BY <1>1, ExchangeAssumption DEF Dial, Conns
<1>2. CASE Send
  BY <1>2, ExchangeAssumption DEF Send
<1>3. CASE Post
  BY <1>3, ExchangeAssumption DEF Post
<1>4. CASE Recv
  BY <1>4 DEF Recv
<1>5. CASE SendFails
  BY <1>5, ExchangeAssumption DEF SendFails
<1>6. CASE Resend
  BY <1>6, Zenon DEF Resend
<1>7. CASE Return
  BY <1>7 DEF Return
<1>8. CASE ReadFails
  BY <1>8 DEF ReadFails
<1>9. CASE Service
  BY <1>9, ServiceFrame, QuietFrame DEF Service, Quiet, Stop, StopCancel, StopClose, Restart, Accept
<1>10. ASSUME NEW c \in Conns, Handler(c) \/ HandlerFault(c) PROVE ClientType'
  BY <1>10, HandlerFrame
<1>11. ASSUME NEW c \in Conns, Break(c) PROVE ClientType'
  BY <1>11 DEF Break
<1> QED
  BY <1>1, <1>2, <1>3, <1>4, <1>5, <1>6, <1>7, <1>8, <1>9, <1>10, <1>11
  DEF Next, Client

LEMMA FrameTypeKept ==
    ASSUME TypeOK, Slots, Next
    PROVE  FrameType'
<1> USE DEF FrameType, TypeOK
<1>1. CASE Client
  <2>1. (HasTags /\ FitsTagged) \in BOOLEAN /\ calls \in Nat /\ calls + 1 \in Nat
    BY ExchangeAssumption DEF HasTags, FitsTagged
  <2>2. Wire(HasTags /\ FitsTagged, calls + 1) \in Frames /\ Wire(FALSE, calls) \in Frames
        /\ Wire(FALSE, calls + 1) \in Frames
    BY <2>1, WireShape, Zenon
  <2>3. CASE Send
    BY <2>2, <2>3, Zenon DEF Send
  <2>4. CASE Post
    BY <2>2, <2>4, Zenon DEF Post
  <2>5. CASE Resend
    BY <2>2, <2>5, Zenon DEF Resend
  <2>6. CASE Dial \/ Recv \/ SendFails \/ Return \/ ReadFails
    <3>1. net' = net /\ got' = got
      BY <2>6 DEF Dial, Recv, SendFails, Return, ReadFails
    <3> QED
      BY <3>1
  <2> QED
    BY <1>1, <2>3, <2>4, <2>5, <2>6 DEF Client
<1>2. CASE Service
  BY <1>2, ServiceFrame, Zenon DEF Restart
<1>3. ASSUME NEW c \in Conns, Handler(c) \/ HandlerFault(c) PROVE FrameType'
  BY <1>3, SaveSteps, Zenon
  DEF Handler, HandlerFault, End, Read, ReadEnds, IdleTimeout, Claim, WaitDone,
      WaitCancelled, Finish, Panic, Ack
<1>4. ASSUME NEW c \in Conns, Break(c) PROVE FrameType'
  BY <1>4 DEF Break
<1> QED
  BY <1>1, <1>2, <1>3, <1>4 DEF Next

LEMMA AnswerTypeKept ==
    ASSUME TypeOK, Slots, Next
    PROVE  AnswerType'
<1> USE DEF AnswerType, TypeOK
<1>1. CASE Return
  <2>1. conn \in Conns /\ back[conn] \in Answers
    BY <1>1, ExchangeAssumption DEF Return, Slots, Conns
  <2>2. result' \in Results
    BY <1>1, <2>1 DEF Return, Results, Answers
  <2> QED
    BY <1>1, <2>2, Zenon DEF Return
<1>2. CASE SendFails \/ ReadFails
  <2>1. [kind |-> "error", tagged |-> FALSE, dup |-> FALSE] \in Results
    BY DEF Results
  <2> QED
    BY <1>2, <2>1, Zenon DEF SendFails, ReadFails
<1>3. CASE Dial \/ Send \/ Post \/ Recv \/ Resend
  BY <1>3, Zenon DEF Dial, Send, Post, Recv, Resend
<1>4. CASE Service
  BY <1>4, ServiceFrame, Zenon DEF Restart
<1>5. ASSUME NEW c \in Conns, Handler(c) \/ HandlerFault(c) PROVE AnswerType'
  <2>1. \A w \in {"ACK", "ERR", "JSON"} : \A u, d \in BOOLEAN : Answer(w, u, d) \in Answers
    BY AnswerShape
  <2>2. CASE Read(c) \/ WaitDone(c)
    <3>1. Answer(peer, TRUE, FALSE) \in Answers \/ peer = "new"
      BY <2>1, Zenon
    <3>2. Answer("ACK", FALSE, TRUE) \in Answers
      BY <2>1, Zenon
    <3>3. CASE Read(c)
      <4>1. UNCHANGED <<back, result>>
        BY <3>3 DEF Read
      <4>2. ans' = ans \/ (peer # "new" /\ ans' = [ans EXCEPT ![c] = Answer(peer, TRUE, FALSE)])
        BY <3>3, Zenon DEF Read
      <4> QED
        BY <3>1, <4>1, <4>2, Zenon
    <3>4. CASE WaitDone(c)
      <4>1. UNCHANGED <<back, result>>
            /\ (ans' = ans \/ ans' = [ans EXCEPT ![c] = Answer("ACK", FALSE, TRUE)])
        BY <3>4, Zenon DEF WaitDone
      <4> QED
        BY <3>2, <4>1, Zenon
    <3> QED
      BY <2>2, <3>3, <3>4
  <2>3. CASE Save(c) \/ SaveFails(c) \/ SaveNothing(c)
    <3>1. PICK w \in {"ACK", "ERR", "JSON"} :
            ans' = [ans EXCEPT ![c] = Answer(w, FALSE, FALSE)]
      BY <2>3, AnswerPrepared, Zenon
    <3>2. UNCHANGED <<back, result>>
      BY <1>5, <2>3, SaveSteps, HandlerFrame
    <3>3. Answer(w, FALSE, FALSE) \in Answers
      BY <2>1, Zenon
    <3> QED
      BY <3>1, <3>2, <3>3, Zenon
  <2>4. CASE ReadEnds(c) \/ IdleTimeout(c) \/ Claim(c) \/ WaitCancelled(c)
             \/ Finish(c) \/ Panic(c) \/ Ack(c)
    BY <2>4, Zenon DEF End, ReadEnds, IdleTimeout, Claim, WaitCancelled, Finish, Panic, Ack
  <2> QED
    BY <1>5, <2>2, <2>3, <2>4 DEF Handler, HandlerFault
<1>6. ASSUME NEW c \in Conns, Break(c) PROVE AnswerType'
  BY <1>6 DEF Break
<1> QED
  BY <1>1, <1>2, <1>3, <1>4, <1>5, <1>6 DEF Next, Client

LEMMA StoreTypeKept ==
    ASSUME TypeOK, Handlers, Next
    PROVE  StoreType'
<1> USE DEF StoreType, TypeOK
<1>1. CASE Client
  BY <1>1, ClientFrame DEF Dial
<1>2. CASE Service
  BY <1>2, ServiceFrame, QuietFrame DEF Service, Quiet, Stop, StopCancel, StopClose, Restart, Accept
<1>3. ASSUME NEW c \in Conns, Handler(c) \/ HandlerFault(c) PROVE StoreType'
  <2>1. CASE Save(c)
    <3>1. [call |-> got[c].call, tagged |-> got[c].tagged] \in [call : Nat, tagged : BOOLEAN]
      BY <2>1, FramesOf DEF Save, Handlers, HandlerOK
    <3>2. inbox' \in Seq([call : Nat, tagged : BOOLEAN])
      BY <2>1, <3>1 DEF Save
    <3> QED
      BY <2>1, <3>2, SaveSteps, Zenon
  <2>2. CASE ~Save(c)
    BY <1>3, <2>2, HandlerFrame, SaveSteps, Zenon
    DEF Handler, HandlerFault, End, Read, ReadEnds, IdleTimeout, Claim, WaitDone,
        WaitCancelled, Finish, Panic, Ack
  <2> QED
    BY <2>1, <2>2
<1>4. ASSUME NEW c \in Conns, Break(c) PROVE StoreType'
  BY <1>4, BreakFrame
<1> QED
  BY <1>1, <1>2, <1>3, <1>4 DEF Next

LEMMA ServiceTypeKept ==
    ASSUME TypeOK, ClaimsCount, Next
    PROVE  ServiceType'
<1> USE DEF ServiceType, TypeOK
<1>1. CASE Client
  BY <1>1, ClientFrame
<1>2. CASE Service
  <2>1. CASE Restart
    <3>1. forgot' \in {forgot, forgot + 1} /\ faults' = faults + 1 /\ faults < MaxFaults
      BY <2>1 DEF Restart, Fault
    <3>2. forgot' \in 0 .. MaxFaults /\ faults' \in 0 .. MaxFaults
      BY <3>1, ExchangeAssumption DEF ClaimsCount
    <3>3. /\ cache' = "none" /\ listening' = FALSE /\ cancelled' = FALSE
          /\ loop' = "off" /\ stop' = "none"
      BY <2>1 DEF Restart
    <3> QED
      BY <3>2, <3>3, Zenon
  <2>2. CASE ~Restart
    <3>1. UNCHANGED <<cache, forgot>>
      BY <1>2, <2>2, ServiceFrame
    <3>2. faults' \in 0 .. MaxFaults
      BY <1>2, <2>2, ExchangeAssumption
      DEF Service, Start, LoopCheck, AcceptClosed, AcceptFails, Stop, StopCancel,
          StopClose, StopUnstarted, StopDone, StopTimeout, Accept, Fault
    <3>3. /\ listening' \in BOOLEAN /\ cancelled' \in BOOLEAN
          /\ loop' \in {"off", "check", "accept", "done"}
          /\ stop' \in {"none", "closing", "waiting", "nil", "error"}
      BY <1>2, <2>2, Zenon
      DEF Service, Start, LoopCheck, AcceptClosed, AcceptFails, Stop, StopCancel,
          StopClose, StopUnstarted, StopDone, StopTimeout, Accept
    <3> QED
      BY <3>1, <3>2, <3>3
  <2> QED
    BY <2>1, <2>2
<1>3. ASSUME NEW c \in Conns, Handler(c) \/ HandlerFault(c) PROVE ServiceType'
  <2>1. UNCHANGED service
    BY <1>3, HandlerFrame
  <2>2. cache' \in {"none", "flying", "stored"}
    BY <1>3, SaveSteps, Zenon
    DEF Handler, HandlerFault, Read, ReadEnds, IdleTimeout, Claim, WaitDone,
        WaitCancelled, Finish, Panic, Ack, Release
  <2>3. UNCHANGED <<forgot, faults>> \/ (Fault /\ forgot' \in {forgot, forgot + 1})
    BY <1>3, Zenon
    DEF Handler, HandlerFault, Read, ReadEnds, IdleTimeout, Claim, WaitDone,
        WaitCancelled, Save, SaveFails, SaveNothing, Finish, Panic, Ack
  <2>4. forgot' \in 0 .. MaxFaults /\ faults' \in 0 .. MaxFaults
    BY <2>3, ExchangeAssumption DEF Fault, ClaimsCount
  <2> QED
    BY <2>1, <2>2, <2>4
<1>4. ASSUME NEW c \in Conns, Break(c) PROVE ServiceType'
  BY <1>4, ExchangeAssumption DEF Break, Fault
<1> QED
  BY <1>1, <1>2, <1>3, <1>4 DEF Next

LEMMA TypeKept ==
    ASSUME TypeOK, Handlers, Slots, ClaimsCount, Next
    PROVE  TypeOK'
BY ClientTypeKept, FrameTypeKept, AnswerTypeKept, StoreTypeKept, ServiceTypeKept
DEF TypeOK, ClientType, FrameType, AnswerType, StoreType, ServiceType

-----------------------------------------------------------------------------
(* Connections *)

LEMMA HandlersKept ==
    ASSUME TypeOK, Handlers, Slots, Next
    PROVE  Handlers'
<1> USE TablesOK, ExchangeAssumption DEF Tables
<1>1. CASE Dial
  <2>1. /\ conn' = conn + 1 /\ UNCHANGED <<got, ans, net, back>>
        /\ hpc' = [hpc EXCEPT ![conn + 1] = "queued"]
    BY <1>1 DEF Dial
  <2>2. \A c \in Conns : c # conn' => hpc'[c] = hpc[c]
    BY <2>1
  <2>3. conn' \in Conns => hpc[conn'] = "none" /\ hpc'[conn'] = "queued"
    BY <2>1 DEF Handlers
  <2>4. \A c \in Conns : HandlerOK("none", got[c], ans[c])
                           => HandlerOK("queued", got[c], ans[c])
    BY DEF HandlerOK
  <2>5. \A c \in Conns : HandlerOK(hpc'[c], got'[c], ans'[c])
    BY <2>1, <2>2, <2>3, <2>4 DEF Handlers
  <2>6. \A c \in Conns : c > conn' => c > conn /\ c # conn'
    BY <2>1 DEF Conns
  <2> QED
    BY <2>1, <2>2, <2>5, <2>6 DEF Handlers
<1>2. CASE Client /\ ~Dial
  <2>1. UNCHANGED <<handler, conn>> /\ (conn # 0 \/ UNCHANGED <<net, back>>)
    BY <1>2, ClientFrame, Zenon
    DEF Slots, Client, Send, Post, Recv, SendFails, Resend, Return, ReadFails
  <2>2. \A c \in Conns : c > conn => net'[c] = net[c] /\ back'[c] = back[c]
    <3>1. /\ net' = net \/ \E v : net' = [net EXCEPT ![conn] = v]
          /\ back' = back \/ \E v : back' = [back EXCEPT ![conn] = v]
      BY <1>2, Zenon
      DEF Client, Send, Post, Recv, SendFails, Resend, Return, ReadFails
    <3>2. \A c \in Conns : c # conn => net'[c] = net[c] /\ back'[c] = back[c]
      BY <3>1
    <3> QED
      BY <3>2 DEF Conns
  <2> QED
    BY <2>1, <2>2 DEF Handlers
<1>3. CASE Quiet \/ Stop
  BY <1>3, QuietFrame, Zenon DEF Stop, StopCancel, StopClose, Handlers
<1>4. CASE Restart
  <2>1. HandlerOK("none", None, None) /\ HandlerOK("end", None, None)
    BY DEF HandlerOK
  <2> QED
    BY <1>4, <2>1 DEF Restart, Handlers
<1>5. ASSUME NEW c \in Conns, Accept(c) PROVE Handlers'
  <2>1. hpc' = [hpc EXCEPT ![c] = "read"] /\ UNCHANGED <<got, ans, net, back, conn>>
        /\ hpc[c] = "queued"
    BY <1>5 DEF Accept
  <2>2. HandlerOK("queued", got[c], ans[c]) => HandlerOK("read", got[c], ans[c])
    BY DEF HandlerOK
  <2> QED
    BY <2>1, <2>2 DEF Handlers
<1>6. ASSUME NEW c \in Conns, Handler(c) \/ HandlerFault(c) PROVE Handlers'
  <2>1. conn' = conn /\ HandlerOK(hpc[c], got[c], ans[c])
    BY <1>6, HandlerFrame DEF Handlers
  <2>2. hpc[c] # "none"
    BY <1>6, Zenon DEF Handler, HandlerFault, Read, ReadEnds, IdleTimeout, Claim, WaitDone,
       WaitCancelled, Save, SaveFails, SaveNothing, Finish, Panic, Ack
  <2>3. HandlerOK(hpc'[c], got'[c], ans'[c])
    <3>1. CASE Read(c)
      <4> peer \in {"new", "ACK", "ERR"}
        BY DEF TypeOK
      <4>1. peer # "new" => Answer(peer, TRUE, FALSE) # None
        BY AnswerShape, Zenon
      <4> QED
        BY <2>1, <3>1, <4>1, Zenon DEF Read, HandlerOK
    <3>2. CASE ReadEnds(c) \/ IdleTimeout(c) \/ WaitCancelled(c) \/ Panic(c)
      BY <3>2 DEF ReadEnds, IdleTimeout, WaitCancelled, Panic, End, HandlerOK
    <3>3. CASE Claim(c)
      BY <2>1, <3>3, Zenon DEF Claim, HandlerOK
    <3>4. CASE WaitDone(c)
      <4>1. Answer("ACK", FALSE, TRUE) # None
        BY AnswerShape, Zenon
      <4> QED
        BY <2>1, <3>4, <4>1, Zenon DEF WaitDone, HandlerOK
    <3>5. CASE Save(c) \/ SaveFails(c) \/ SaveNothing(c)
      <4>1. PICK w \in {"ACK", "ERR", "JSON"} :
              ans' = [ans EXCEPT ![c] = Answer(w, FALSE, FALSE)]
        BY <3>5, AnswerPrepared, Zenon
      <4>2. Answer(w, FALSE, FALSE) # None
        BY AnswerShape, Zenon
      <4>3. ~Answer(w, FALSE, FALSE).unknown /\ ~Answer(w, FALSE, FALSE).dup
        BY DEF Answer
      <4>4. hpc'[c] = "finish" /\ got'[c] = got[c] /\ hpc[c] = "save"
        BY <3>5, SaveSteps
      <4>5. ans'[c] = Answer(w, FALSE, FALSE)
        BY <4>1
      <4> QED
        BY <2>1, <4>2, <4>3, <4>4, <4>5, Zenon DEF HandlerOK
    <3>6. CASE Finish(c)
      BY <2>1, <3>6 DEF Finish, HandlerOK
    <3>7. CASE Ack(c)
      <4>1. got'[c] = None /\ ans'[c] = None /\ hpc'[c] \in {"read", "end"}
        BY <3>7 DEF Ack, End
      <4> QED
        BY <4>1 DEF HandlerOK
    <3> QED
      BY <1>6, <3>1, <3>2, <3>3, <3>4, <3>5, <3>6, <3>7, Zenon DEF Handler, HandlerFault
  <2> QED
    BY <1>6, <2>1, <2>2, <2>3, HandlerLocal DEF Handlers
<1>7. ASSUME NEW c \in Conns, Break(c) PROVE Handlers'
  <2>1. \A d \in Conns : net'[d] \in {net[d], None} /\ back'[d] \in {back[d], None}
    BY <1>7 DEF Break
  <2> QED
    BY <1>7, <2>1, BreakFrame DEF Handlers
<1> QED
  BY <1>1, <1>2, <1>3, <1>4, <1>5, <1>6, <1>7 DEF Next, Service, Quiet

LEMMA SlotsKept ==
    ASSUME TypeOK, Handlers, Slots, Next
    PROVE  Slots'
<1> USE TablesOK, ExchangeAssumption DEF Tables
<1>1. CASE Dial
  <2>1. conn' = conn + 1 /\ cpc' = "idle" /\ up' = {conn + 1} /\ conn + 1 \in Conns
        /\ UNCHANGED <<net, back, got, tagged>>
    BY <1>1 DEF Dial, Slots, Conns
  <2>2. /\ net[conn + 1] = None /\ back[conn + 1] = None
        /\ HandlerOK("none", got[conn + 1], ans[conn + 1])
    BY <2>1 DEF Handlers
  <2>3. got[conn + 1] = None
    BY <2>2 DEF HandlerOK
  <2> QED
    BY <2>1, <2>2, <2>3 DEF Slots
<1>2. CASE Client /\ ~Dial
  <2>1. UNCHANGED <<got, hpc, conn>>
    BY <1>2, ClientFrame, Zenon
    DEF Client, Send, Post, Recv, SendFails, Resend, Return, ReadFails
  <2>2. CASE SendFails
    BY <2>2 DEF SendFails, Slots
  <2>3. CASE ~SendFails
    <3>1. conn \in Conns /\ OneFrame(net[conn], got[conn], back[conn])
      <4>1. conn # 0
        BY <1>2, <2>3, Zenon
        DEF Client, Send, Post, Recv, Resend, Return, ReadFails, Slots
      <4>2. conn \in Conns
        BY <4>1 DEF Conns
      <4> QED
        BY <4>2 DEF Slots
    <3>2. /\ cpc' = "idle" /\ conn \in up' => got[conn] = None /\ back'[conn] = None
               /\ (net'[conn] = None \/ hpc[conn] = "end")
          /\ cpc' = "reawait" => ~tagged'
          /\ OneFrame(net'[conn], got[conn], back'[conn])
          /\ up' \subseteq up
      <4>1. CASE Send
        BY <3>1, <4>1 DEF Send, Slots, OneFrame
      <4>2. CASE Post
        BY <3>1, <4>2 DEF Post, Slots, OneFrame
      <4>3. CASE Recv
        BY <3>1, <4>3 DEF Recv, Slots, OneFrame, Handlers, HandlerOK
      <4>4. CASE Resend
        BY <3>1, <4>4, Zenon DEF Resend, Slots, OneFrame
      <4>5. CASE Return
        BY <3>1, <4>5 DEF Return, Slots, OneFrame
      <4>6. CASE ReadFails
        BY <3>1, <4>6 DEF ReadFails, Slots, OneFrame
      <4> QED
        BY <1>2, <2>3, <4>1, <4>2, <4>3, <4>4, <4>5, <4>6, Zenon DEF Client
    <3>3. \A c \in Conns : c # conn => net'[c] = net[c] /\ back'[c] = back[c]
      BY <1>2, <2>3, Zenon
      DEF Client, Send, Post, Recv, Resend, Return, ReadFails
    <3>4. conn # 0
      BY <3>1 DEF Conns
    <3> QED
      BY <2>1, <3>1, <3>2, <3>3, <3>4, Zenon DEF Slots
  <2> QED
    BY <2>2, <2>3
<1>3. CASE Quiet
  <2>1. UNCHANGED <<client, link, handler>>
    BY <1>3, QuietFrame, Zenon
  <2> QED
    BY <2>1 DEF Slots
<1>4. CASE Stop
  BY <1>4 DEF Stop, StopCancel, StopClose, Slots
<1>5. CASE Restart
  BY <1>5 DEF Restart, Slots, OneFrame
<1>6. ASSUME NEW c \in Conns, Accept(c) PROVE Slots'
  BY <1>6 DEF Accept, Slots
<1>7. ASSUME NEW c \in Conns, Handler(c) \/ HandlerFault(c) PROVE Slots'
  <2>1. UNCHANGED <<client, up>>
    BY <1>7, HandlerFrame, Zenon
  <2>2. OneFrame(net[c], got[c], back[c]) /\ HandlerOK(hpc[c], got[c], ans[c])
        /\ (cpc = "idle" /\ c = conn /\ conn \in up =>
              got[c] = None /\ back[c] = None /\ (net[c] = None \/ hpc[c] = "end"))
    BY DEF Slots, Handlers
  <2>3. OneFrame(net'[c], got'[c], back'[c])
        /\ (cpc = "idle" /\ c = conn /\ conn \in up =>
              got'[c] = None /\ back'[c] = None /\ (net'[c] = None \/ hpc'[c] = "end"))
    <3>1. CASE Read(c)
      BY <2>2, <3>1 DEF Read, OneFrame
    <3>2. CASE ReadEnds(c) \/ IdleTimeout(c) \/ WaitCancelled(c) \/ Panic(c)
      BY <2>2, <3>2 DEF ReadEnds, IdleTimeout, WaitCancelled, Panic, End, OneFrame
    <3>3. CASE Claim(c) \/ WaitDone(c) \/ Finish(c)
      BY <2>2, <3>3, Zenon DEF Claim, WaitDone, Finish, HandlerOK
    <3>4. CASE Save(c) \/ SaveFails(c) \/ SaveNothing(c)
      <4>1. UNCHANGED <<net, got, back>> /\ got[c] # None
        BY <2>2, <3>4, SaveSteps, Zenon DEF HandlerOK
      <4> QED
        BY <2>2, <4>1, Zenon
    <3>5. CASE Ack(c)
      BY <2>2, <3>5, Zenon DEF Ack, End, OneFrame, HandlerOK
    <3> QED
      BY <1>7, <3>1, <3>2, <3>3, <3>4, <3>5 DEF Handler, HandlerFault
  <2> QED
    <3>1. \A d \in Conns : OneFrame(net'[d], got'[d], back'[d])
      BY <1>7, <2>3, HandlerLocal DEF Slots
    <3>2. conn \in up => conn \in Conns
      BY DEF Slots, Conns
    <3>3. cpc = "idle" /\ conn \in up =>
            got'[conn] = None /\ back'[conn] = None
            /\ (net'[conn] = None \/ hpc'[conn] = "end")
      BY <1>7, <2>3, <3>2, HandlerLocal DEF Slots
    <3> QED
      BY <2>1, <3>1, <3>3 DEF Slots
<1>8. ASSUME NEW c \in Conns, Break(c) PROVE Slots'
  <2>1. /\ \A d \in Conns : net'[d] \in {net[d], None} /\ back'[d] \in {back[d], None}
        /\ up' \subseteq up /\ c \notin up' /\ c \in up
    BY <1>8 DEF Break
  <2>2. UNCHANGED <<got, client>>
    BY <1>8 DEF Break
  <2>3. conn \notin up'
    BY <2>1 DEF Slots
  <2> QED
    BY <2>1, <2>2, <2>3, Zenon DEF Slots, OneFrame
<1> QED
  BY <1>1, <1>2, <1>3, <1>4, <1>5, <1>6, <1>7, <1>8 DEF Next, Service, Quiet

-----------------------------------------------------------------------------
(* Calls and the frames that carry them *)

\* Frames only move: nothing carries a call that did not carry it.
LEMMA CarriersFewer ==
    ASSUME Carriers, UNCHANGED client,
           \A c \in Conns : \A n \in Nat : Carries(c, n)' => Carries(c, n),
           cpc \in {"await", "reawait"} =>
             /\ net'[conn] # None => net'[conn].tagged = tagged
             /\ got'[conn] # None => got'[conn].tagged = tagged,
           calls \in Nat, conn = 0 => cpc = "idle", conn \in Conns \cup {0}
    PROVE  Carriers'
BY DEF Carriers

\* The client puts a frame f of its call on its connection.
LEMMA CarriersSend ==
    ASSUME TypeOK, Carriers, conn \in Conns, got[conn] = None, UNCHANGED <<conn, got>>,
           NEW f, f # None, net' = [net EXCEPT ![conn] = f],
           f.call = calls', f.tagged = tagged' \/ cpc' = "posted",
           cpc' # "idle", result' = None,
           \/ calls' = calls + 1
           \/ calls' = calls /\ cpc # "idle" /\ calls # 0
    PROVE  Carriers'
<1>1. calls \in Nat /\ calls' \in Nat /\ DOMAIN net = Conns
  BY TablesOK DEF Tables
<1>2. /\ net'[conn] = f /\ got'[conn] = None
      /\ \A c \in Conns : c # conn => net'[c] = net[c] /\ got'[c] = got[c]
  BY <1>1
<1>3. \A n \in Nat : Carries(conn, n)' => n = calls'
  BY <1>2 DEF Carries
<1>4. \A c \in Conns : c # conn => \A n \in Nat : Carries(c, n)' => Carries(c, n)
  BY <1>2 DEF Carries
<1>5. \A c \in Conns : c # conn => ~Carries(c, calls)'
  <2> SUFFICES ASSUME NEW c \in Conns, c # conn, Carries(c, calls)' PROVE FALSE
    OBVIOUS
  <2>1. Carries(c, calls')
    BY <1>1, <1>2 DEF Carries
  <2>2. calls' \in 1 .. calls
    BY <1>1, <2>1 DEF Carriers
  <2>3. calls' = calls /\ cpc # "idle"
    BY <1>1, <2>2
  <2> QED
    BY <2>1, <2>3 DEF Carriers
<1>6. \A c \in Conns : \A n \in Nat : Carries(c, n)' => n \in 1 .. calls'
  BY <1>1, <1>3, <1>4 DEF Carriers
<1>7. \A c, d \in Conns : \A n \in Nat : Carries(c, n)' /\ Carries(d, n)' => c = d
  <2>1. \A c \in Conns : \A n \in Nat :
          c # conn /\ Carries(c, n)' => Carries(c, n) /\ ~Carries(conn, n)'
    BY <1>1, <1>3, <1>4, <1>5
  <2> QED
    BY <2>1 DEF Carriers
<1>8. calls' # 0
  BY <1>1
<1>9. \A c \in Conns : Carries(c, calls)' => c = conn
  BY <1>5
<1>10. cpc' \in {"await", "reawait"} => f.tagged = tagged'
  OBVIOUS
<1> QED
  BY <1>2, <1>3, <1>6, <1>7, <1>8, <1>9, <1>10 DEF Carriers

LEMMA CarriersKept ==
    ASSUME TypeOK, Handlers, Slots, Carriers, Next
    PROVE  Carriers'
<1>0. Tables /\ (conn \in Conns \/ conn = 0) /\ (conn = 0 => cpc = "idle")
  BY TablesOK, ExchangeAssumption DEF Tables, Conns, Slots
<1>1. CASE Dial
  <2>1. cpc' = "idle" /\ UNCHANGED <<calls, result, net, got>>
    BY <1>1 DEF Dial
  <2>2. \A c \in Conns : \A n \in Nat : Carries(c, n)' <=> Carries(c, n)
    BY <2>1 DEF Carries
  <2>3. calls \in Nat
    BY <1>0 DEF Tables
  <2> QED
    BY <2>1, <2>2, <2>3 DEF Carriers
<1>2. CASE Send
  <2>1. (HasTags /\ FitsTagged) \in BOOLEAN /\ calls + 1 \in Nat
    BY <1>0 DEF HasTags, FitsTagged, Tables
  <2> DEFINE f == Wire(HasTags /\ FitsTagged, calls + 1)
  <2>2. f # None /\ f.call = calls + 1 /\ f.tagged = (HasTags /\ FitsTagged)
    BY <2>1, WireShape, Zenon
  <2>3. conn \in Conns /\ got[conn] = None
    BY <1>0, <1>2 DEF Send, Slots
  <2>4. /\ UNCHANGED <<conn, got>> /\ net' = [net EXCEPT ![conn] = f]
        /\ calls' = calls + 1 /\ tagged' = (HasTags /\ FitsTagged)
        /\ cpc' = "await" /\ result' = None
    BY <1>2 DEF Send
  <2> HIDE DEF f
  <2> QED
    BY <2>2, <2>3, <2>4, CarriersSend, Zenon
<1>3. CASE Post
  <2>1. calls + 1 \in Nat
    BY <1>0 DEF Tables
  <2> DEFINE f == Wire(FALSE, calls + 1)
  <2>2. f # None /\ f.call = calls + 1
    BY <2>1, WireShape, Zenon
  <2>3. conn \in Conns /\ got[conn] = None
    BY <1>0, <1>3 DEF Post, Slots
  <2>4. /\ UNCHANGED <<conn, got>> /\ net' = [net EXCEPT ![conn] = f]
        /\ calls' = calls + 1 /\ cpc' = "posted" /\ result' = None
    BY <1>3 DEF Post
  <2> HIDE DEF f
  <2> QED
    BY <2>2, <2>3, <2>4, CarriersSend, Zenon
<1>4. CASE Resend
  <2>1. calls \in Nat
    BY <1>0 DEF Tables
  <2> DEFINE f == Wire(FALSE, calls)
  <2>2. f # None /\ f.call = calls /\ f.tagged = FALSE
    BY <2>1, WireShape, Zenon
  <2>3. conn \in Conns /\ got[conn] = None
    BY <1>0, <1>4 DEF Resend, Slots, OneFrame
  <2>4. /\ UNCHANGED <<conn, got, calls, result>> /\ net' = [net EXCEPT ![conn] = f]
        /\ tagged' = FALSE /\ cpc # "idle" /\ cpc' = "reawait"
    BY <1>4 DEF Resend
  <2>5. result = None /\ calls # 0
    BY <1>4 DEF Resend, Carriers
  <2> HIDE DEF f
  <2> QED
    BY <2>2, <2>3, <2>4, <2>5, CarriersSend, Zenon
<1>5. CASE Recv \/ ReadFails
  <2>1. cpc' = "idle" /\ UNCHANGED <<calls, net, got>>
        /\ (result' = None \/ result'.kind = "error")
    <3>1. CASE Recv
      BY <3>1 DEF Recv, Carriers
    <3>2. CASE ReadFails
      BY <3>2 DEF ReadFails
    <3> QED
      BY <1>5, <3>1, <3>2
  <2>2. \A c \in Conns : \A n \in Nat : Carries(c, n)' <=> Carries(c, n)
    BY <2>1 DEF Carries
  <2> QED
    BY <2>1, <2>2 DEF Carriers
<1>6. CASE SendFails
  <2>1. calls' = calls + 1 /\ result'.kind = "error" /\ cpc' = "idle" /\ UNCHANGED <<net, got>>
    BY <1>6 DEF SendFails
  <2>2. \A n \in 1 .. calls : n \in 1 .. calls'
    BY <1>0, <2>1 DEF Tables
  <2>3. \A c \in Conns : \A n \in Nat : Carries(c, n)' <=> Carries(c, n)
    BY <2>1 DEF Carries
  <2> QED
    BY <2>1, <2>2, <2>3 DEF Carriers
<1>7. CASE Return
  <2>1. cpc' = "idle" /\ UNCHANGED <<calls, net, got>> /\ cpc # "idle" /\ back[conn] # None
    BY <1>7 DEF Return
  <2>2. net[conn] = None /\ got[conn] = None
    BY <1>0, <2>1 DEF Slots, OneFrame
  <2>3. \A c \in Conns : ~Carries(c, calls)
    BY <2>1, <2>2 DEF Carriers, Carries
  <2>4. \A c \in Conns : \A n \in Nat : Carries(c, n)' <=> Carries(c, n)
    BY <2>1 DEF Carries
  <2>5. calls \in Nat
    BY <1>0 DEF Tables
  <2> QED
    BY <2>1, <2>3, <2>4, <2>5 DEF Carriers
<1>8. ASSUME UNCHANGED client,
             \A c \in Conns : /\ net'[c] \in {net[c], None}
                              /\ got'[c] \in {got[c], None}
                                 \/ (net'[c] = None /\ got'[c] = net[c])
      PROVE  Carriers'
  <2>1. \A c \in Conns : \A n \in Nat : Carries(c, n)' => Carries(c, n)
    BY <1>8 DEF Carries
  <2>2. cpc \in {"await", "reawait"} =>
          /\ net'[conn] # None => net'[conn].tagged = tagged
          /\ got'[conn] # None => got'[conn].tagged = tagged
    BY <1>0, <1>8 DEF Carriers
  <2> QED
    BY <1>0, <1>8, <2>1, <2>2, CarriersFewer DEF Tables
<1>9. CASE Service
  <2>1. UNCHANGED <<client, net>> /\ (~Restart => UNCHANGED got)
    BY <1>9, ServiceFrame
  <2>2. \A c \in Conns : got'[c] \in {got[c], None}
    BY <2>1 DEF Restart
  <2> QED
    BY <1>8, <2>1, <2>2
<1>10. ASSUME NEW c \in Conns, Handler(c) \/ HandlerFault(c) PROVE Carriers'
  <2>1. UNCHANGED client
    BY <1>10, HandlerFrame
  <2>2. /\ net'[c] \in {net[c], None}
        /\ got'[c] \in {got[c], None} \/ (net'[c] = None /\ got'[c] = net[c])
    <3>1. CASE Read(c)
      BY <1>0, <3>1 DEF Read, Tables
    <3>2. CASE Claim(c) \/ WaitDone(c) \/ Finish(c)
      BY <3>2, Zenon DEF Claim, WaitDone, Finish
    <3>3. CASE Save(c) \/ SaveFails(c) \/ SaveNothing(c)
      BY <3>3, SaveSteps, Zenon
    <3>4. CASE ReadEnds(c) \/ IdleTimeout(c) \/ WaitCancelled(c) \/ Panic(c) \/ Ack(c)
      BY <1>0, <3>4, Zenon DEF ReadEnds, IdleTimeout, WaitCancelled, Panic, Ack, End, Tables
    <3> QED
      BY <1>10, <3>1, <3>2, <3>3, <3>4, Zenon DEF Handler, HandlerFault
  <2> QED
    BY <1>8, <1>10, <2>1, <2>2, HandlerLocal
<1>11. ASSUME NEW c \in Conns, Break(c) PROVE Carriers'
  <2>1. \A d \in Conns : net'[d] \in {net[d], None}
    BY <1>0, <1>11 DEF Break, Tables
  <2> QED
    BY <1>8, <1>11, <2>1, BreakFrame
<1> QED
  BY <1>1, <1>2, <1>3, <1>4, <1>5, <1>6, <1>7, <1>9, <1>10, <1>11 DEF Next, Client

-----------------------------------------------------------------------------
(* What is stored *)

LEMMA SaveHolds ==
    ASSUME TypeOK, Handlers, NEW c \in Conns, Save(c)
    PROVE  got[c] # None /\ got[c].call \in Nat /\ got[c].tagged \in BOOLEAN
           /\ hpc[c] = "save"
BY FramesOf, Zenon DEF Handlers, HandlerOK, Save

LEMMA SaveAppends ==
    ASSUME TypeOK, NEW c \in Conns, Save(c)
    PROVE  /\ inbox' # <<>> /\ Len(inbox) \in Nat /\ Len(inbox') = Len(inbox) + 1
           /\ \A i \in 1 .. Len(inbox) : inbox'[i] = inbox[i]
           /\ inbox'[Len(inbox) + 1].call = got[c].call
           /\ inbox'[Len(inbox) + 1].tagged = got[c].tagged
<1> DEFINE e == [call |-> got[c].call, tagged |-> got[c].tagged]
<1>1. inbox \in Seq([call : Nat, tagged : BOOLEAN])
  BY DEF TypeOK
<1>2. inbox' = Append(inbox, e)
  BY DEF Save
<1>3. e.call = got[c].call /\ e.tagged = got[c].tagged
  OBVIOUS
<1> HIDE DEF e
<1>4. /\ inbox' # <<>> /\ Len(inbox') = Len(inbox) + 1
      /\ \A i \in 1 .. Len(inbox) : inbox'[i] = inbox[i]
      /\ inbox'[Len(inbox) + 1] = e /\ Len(inbox) \in Nat
  BY <1>1, <1>2
<1> QED
  BY <1>3, <1>4

LEMMA SaveCopies ==
    ASSUME TypeOK, NEW c \in Conns, Save(c)
    PROVE  /\ CopiesIn(inbox', got[c].call)
                = CopiesIn(inbox, got[c].call) \cup {Len(inbox) + 1}
           /\ \A n \in Nat : n # got[c].call => CopiesIn(inbox', n) = CopiesIn(inbox, n)
<1>1. CopiesIn(inbox', got[c].call) = CopiesIn(inbox, got[c].call) \cup {Len(inbox) + 1}
  BY SaveAppends DEF CopiesIn
<1>2. \A n \in Nat : n # got[c].call => CopiesIn(inbox', n) = CopiesIn(inbox, n)
  BY SaveAppends DEF CopiesIn
<1> QED
  BY <1>1, <1>2

\* Nothing is stored in any other step.
LEMMA InboxKept ==
    ASSUME Next, \A c \in Conns : ~Save(c)
    PROVE  inbox' = inbox
BY ClientFrame, ServiceFrame, HandlerFrame, BreakFrame DEF Next

LEMMA MessageKept ==
    ASSUME Next
    PROVE  msg' = msg /\ peer' = peer
BY ClientFrame, ServiceFrame, HandlerFrame, BreakFrame DEF Next

LEMMA SaveFrame ==
    ASSUME NEW c \in Conns, Save(c)
    PROVE  UNCHANGED <<fixed, client, up, service, got, net, back>>
BY SaveSteps DEF Save

LEMMA CallsGrow ==
    ASSUME TypeOK, Next
    PROVE  calls' \in {calls, calls + 1}
BY ServiceFrame, HandlerFrame, BreakFrame, Zenon
DEF Next, Client, Dial, Send, Post, Recv, SendFails, Resend, Return, ReadFails

\* A call that has not started has no copy.
LEMMA NotYetStored ==
    ASSUME TypeOK, StoredOnce
    PROVE  CopiesIn(inbox, calls + 1) = {}
<1>1. calls \in Nat
  BY TablesOK DEF Tables
<1> QED
  BY <1>1 DEF StoredOnce, CopiesIn

LEMMA StoredOnceKept ==
    ASSUME TypeOK, Handlers, Carriers, StoredOnce, HeldUnsaved, Next
    PROVE  StoredOnce'
<1>0. calls \in Nat /\ calls' \in Nat /\ calls <= calls'
  BY CallsGrow, TablesOK DEF Tables
<1>1. ASSUME NEW c \in Conns, Save(c) PROVE StoredOnce'
  <2>1. got[c].call \in 1 .. calls /\ calls' = calls
    BY <1>1, SaveHolds, SaveFrame, Zenon DEF Carriers, Carries
  <2>2. CopiesIn(inbox, got[c].call) = {}
    BY <1>1, SaveHolds DEF HeldUnsaved
  <2>3. /\ Len(inbox) \in Nat /\ Len(inbox') = Len(inbox) + 1
        /\ \A i \in 1 .. Len(inbox) : inbox'[i] = inbox[i]
        /\ inbox'[Len(inbox) + 1].call = got[c].call
    BY <1>1, SaveAppends
  <2>4. \A n \in Nat : CopiesIn(inbox', n) = {} \/ \E i \in Nat : CopiesIn(inbox', n) = {i}
    <3>1. Len(inbox) + 1 \in Nat
      BY <2>3
    <3>2. CopiesIn(inbox', got[c].call) = {Len(inbox) + 1}
      BY <1>1, <2>2, SaveCopies
    <3> QED
      BY <1>1, <3>1, <3>2, SaveCopies DEF StoredOnce
  <2>5. \A i \in 1 .. Len(inbox') : i \in 1 .. Len(inbox) \/ i = Len(inbox) + 1
    BY <2>3
  <2>6. \A i \in 1 .. Len(inbox') : inbox'[i].call \in 1 .. calls
    BY <2>1, <2>3, <2>5 DEF StoredOnce
  <2> QED
    BY <2>1, <2>4, <2>6 DEF StoredOnce
<1>2. CASE \A c \in Conns : ~Save(c)
  <2>1. inbox' = inbox /\ \A n \in 1 .. calls : n \in 1 .. calls'
    BY <1>0, <1>2, InboxKept
  <2> QED
    BY <2>1 DEF StoredOnce
<1> QED
  BY <1>1, <1>2

\* Saving the frame of one handler leaves other calls alone.
LEMMA SaveElsewhere ==
    ASSUME TypeOK, NEW c \in Conns, Save(c), NEW n \in Nat, n # got[c].call
    PROVE  CopiesIn(inbox', n) = CopiesIn(inbox, n)
BY SaveCopies

LEMMA UnreadKept ==
    ASSUME TypeOK, Handlers, Slots, Carriers, StoredOnce, UnreadUnsaved, BackTrue, Next
    PROVE  UnreadUnsaved'
<1>0. Tables /\ (conn \in Conns \/ conn = 0) /\ (cpc # "idle" => conn # 0)
  BY TablesOK, ExchangeAssumption DEF Tables, Conns, Slots
<1>1. ASSUME NEW c \in Conns, Save(c) PROVE UnreadUnsaved'
  <2> SUFFICES ASSUME NEW d \in Conns, net[d] # None
               PROVE  CopiesIn(inbox', net[d].call) = {}
    BY <1>1, SaveFrame DEF UnreadUnsaved
  <2>1. net[d].call \in Nat /\ got[c].call \in Nat /\ got[c] # None
    BY <1>1, FramesOf, SaveHolds
  <2>2. net[d].call # got[c].call
    <3>1. d # c
      BY <2>1 DEF Slots, OneFrame
    <3> QED
      BY <2>1, <3>1 DEF Carriers, Carries
  <2> QED
    BY <1>1, <2>1, <2>2, SaveElsewhere DEF UnreadUnsaved
<1>2. ASSUME inbox' = inbox, NEW f, f # None => CopiesIn(inbox, f.call) = {},
             net' = [net EXCEPT ![conn] = f] \/ net' = net
      PROVE  UnreadUnsaved'
  <2>1. \A d \in Conns : net'[d] = net[d] \/ net'[d] = f
    BY <1>0, <1>2 DEF Tables
  <2> QED
    BY <1>2, <2>1 DEF UnreadUnsaved
<1>3. CASE Send \/ Post
  <2>1. calls + 1 \in Nat /\ (HasTags /\ FitsTagged) \in BOOLEAN
    BY <1>0 DEF Tables, HasTags, FitsTagged
  <2>2. Wire(HasTags /\ FitsTagged, calls + 1).call = calls + 1
        /\ Wire(FALSE, calls + 1).call = calls + 1
    BY <2>1, WireShape, Zenon
  <2>3. inbox' = inbox
    BY <1>3, ClientFrame DEF Client
  <2>4. \/ net' = [net EXCEPT ![conn] = Wire(HasTags /\ FitsTagged, calls + 1)]
        \/ net' = [net EXCEPT ![conn] = Wire(FALSE, calls + 1)]
    BY <1>3, Zenon DEF Send, Post
  <2> QED
    BY <1>2, <2>2, <2>3, <2>4, NotYetStored, Zenon
<1>4. CASE Resend
  <2>1. calls \in Nat /\ conn \in Conns
    BY <1>0, <1>4 DEF Tables, Resend
  <2>2. Wire(FALSE, calls).call = calls
    BY <2>1, WireShape, Zenon
  <2>3. Means(back[conn], calls, tagged, inbox, Storable) /\ back[conn].unknown
    BY <1>4, Zenon DEF Resend, Predates, BackTrue
  <2>4. CopiesIn(inbox, calls) = {}
    BY <2>3 DEF Means
  <2>5. inbox' = inbox /\ net' = [net EXCEPT ![conn] = Wire(FALSE, calls)]
    BY <1>4 DEF Resend
  <2> QED
    BY <1>2, <2>2, <2>4, <2>5, Zenon
<1>5. CASE Dial \/ Recv \/ SendFails \/ Return \/ ReadFails
  BY <1>5, Zenon DEF Dial, Recv, SendFails, Return, ReadFails, UnreadUnsaved
<1>6. CASE Service
  BY <1>6, ServiceFrame DEF UnreadUnsaved
<1>7. ASSUME NEW c \in Conns, ~Save(c), Handler(c) \/ HandlerFault(c) \/ Break(c)
      PROVE  UnreadUnsaved'
  <2>1. inbox' = inbox
    BY <1>7, HandlerFrame, BreakFrame
  <2>2. net' = net \/ net' = [net EXCEPT ![c] = None]
    BY <1>7, SaveSteps, Zenon
    DEF Handler, HandlerFault, Read, ReadEnds, IdleTimeout, Claim, WaitDone,
        WaitCancelled, Finish, Panic, Ack, Break
  <2>3. \A d \in Conns : net'[d] \in {net[d], None}
    BY <1>0, <2>2 DEF Tables
  <2> QED
    BY <2>1, <2>3 DEF UnreadUnsaved
<1> QED
  BY <1>1, <1>3, <1>4, <1>5, <1>6, <1>7 DEF Next, Client, Handler

LEMMA HeldKept ==
    ASSUME TypeOK, Handlers, Slots, Carriers, UnreadUnsaved, HeldUnsaved, Next
    PROVE  HeldUnsaved'
<1>0. Tables
  BY TablesOK
<1>1. ASSUME NEW c \in Conns, Save(c) PROVE HeldUnsaved'
  <2>1. hpc' = [hpc EXCEPT ![c] = "finish"] /\ UNCHANGED got
    BY <1>1, SaveSteps
  <2> SUFFICES ASSUME NEW d \in Conns, hpc'[d] \in {"claim", "wait", "save"}
               PROVE  CopiesIn(inbox', got[d].call) = {}
    BY <2>1 DEF HeldUnsaved
  <2>2. d # c /\ hpc[d] \in {"claim", "wait", "save"}
    BY <1>0, <2>1 DEF Tables
  <2>3. got[d] # None /\ got[d].call \in Nat /\ got[c] # None /\ got[c].call \in Nat
    BY <1>1, <2>2, FramesOf, SaveHolds DEF Handlers, HandlerOK
  <2>4. got[d].call # got[c].call
    BY <2>2, <2>3 DEF Carriers, Carries
  <2> QED
    BY <1>1, <2>2, <2>3, <2>4, SaveElsewhere DEF HeldUnsaved
<1>2. CASE Client
  <2>1. UNCHANGED <<got, inbox>>
    BY <1>2, ClientFrame
  <2>2. \A d \in Conns : hpc'[d] = hpc[d] \/ hpc'[d] = "queued"
    BY <1>0, <1>2, ClientFrame DEF Dial, Tables
  <2> QED
    BY <2>1, <2>2 DEF HeldUnsaved
<1>3. CASE Quiet \/ Stop
  BY <1>3, QuietFrame DEF Stop, StopCancel, StopClose, HeldUnsaved
<1>4. CASE Restart
  BY <1>4 DEF Restart, HeldUnsaved
<1>5. ASSUME NEW c \in Conns, Accept(c) PROVE HeldUnsaved'
  BY <1>0, <1>5 DEF Accept, HeldUnsaved, Tables
<1>6. ASSUME NEW c \in Conns, ~Save(c), Handler(c) \/ HandlerFault(c) PROVE HeldUnsaved'
  <2>1. inbox' = inbox
    BY <1>6, HandlerFrame
  <2>2. hpc'[c] \in {"claim", "wait", "save"} => CopiesIn(inbox, got'[c].call) = {}
    <3>1. CASE Read(c)
      BY <1>0, <3>1, Zenon DEF Read, Tables, UnreadUnsaved
    <3>2. CASE Claim(c) \/ WaitDone(c)
      BY <3>2, Zenon DEF Claim, WaitDone, HeldUnsaved
    <3>3. CASE SaveFails(c) \/ SaveNothing(c)
      BY <1>0, <3>3, SaveSteps, Zenon DEF Tables
    <3>4. CASE ReadEnds(c) \/ IdleTimeout(c) \/ WaitCancelled(c) \/ Panic(c)
               \/ Finish(c) \/ Ack(c)
      BY <1>0, <3>4, Zenon
      DEF ReadEnds, IdleTimeout, WaitCancelled, Panic, Finish, Ack, End, Tables
    <3> QED
      BY <1>6, <3>1, <3>2, <3>3, <3>4, Zenon DEF Handler, HandlerFault
  <2> QED
    BY <1>6, <2>1, <2>2, HandlerLocal DEF HeldUnsaved
<1>7. ASSUME NEW c \in Conns, Break(c) PROVE HeldUnsaved'
  BY <1>7, BreakFrame, Zenon DEF HeldUnsaved
<1> QED
  BY <1>1, <1>2, <1>3, <1>4, <1>5, <1>6, <1>7 DEF Next, Service, Quiet, Handler

-----------------------------------------------------------------------------
(* What is answered *)

\* Storing another call's frame changes no answer's meaning.
LEMMA MeansKept ==
    ASSUME TypeOK, Handlers, NEW c \in Conns, Save(c),
           NEW n \in Nat, n # got[c].call, NEW a, NEW t, NEW s,
           Means(a, n, t, inbox, s)
    PROVE  Means(a, n, t, inbox', s)
<1>1. CopiesIn(inbox', n) = CopiesIn(inbox, n) /\ inbox' # <<>>
  BY SaveElsewhere, SaveAppends
<1>2. \A i \in CopiesIn(inbox, n) : inbox'[i] = inbox[i]
  BY SaveAppends DEF CopiesIn
<1> QED
  BY <1>1, <1>2, Zenon DEF Means

LEMMA PreparedKept ==
    ASSUME TypeOK, Handlers, Carriers, HeldUnsaved, UnreadUnsaved, PreparedTrue,
           ClaimsStored, Next
    PROVE  PreparedTrue'
<1>0. Tables /\ msg' = msg
  BY TablesOK, MessageKept
<1>1. CASE Client
  <2>1. UNCHANGED <<got, ans, inbox>>
    BY <1>1, ClientFrame
  <2>2. \A d \in Conns : hpc'[d] = hpc[d] \/ hpc'[d] = "queued"
    BY <1>0, <1>1, ClientFrame DEF Dial, Tables
  <2> QED
    BY <1>0, <2>1, <2>2, Zenon DEF PreparedTrue, Storable
<1>2. CASE Quiet \/ Stop
  BY <1>0, <1>2, QuietFrame DEF Stop, StopCancel, StopClose, PreparedTrue, Storable
<1>3. CASE Restart
  BY <1>3, Zenon DEF Restart, PreparedTrue
<1>4. ASSUME NEW c \in Conns, Accept(c) PROVE PreparedTrue'
  BY <1>0, <1>4 DEF Accept, PreparedTrue, Storable, Tables
<1>5. ASSUME NEW c \in Conns, Handler(c) \/ HandlerFault(c),
             hpc'[c] \in {"finish", "ack"} =>
               Means(ans'[c], got'[c].call, got'[c].tagged, inbox', Storable)
      PROVE  PreparedTrue'
  <2> SUFFICES ASSUME NEW d \in Conns, d # c, hpc[d] \in {"finish", "ack"}
               PROVE  Means(ans[d], got[d].call, got[d].tagged, inbox', Storable)
    BY <1>0, <1>5, HandlerLocal, Zenon DEF PreparedTrue, Storable
  <2>1. Means(ans[d], got[d].call, got[d].tagged, inbox, Storable)
    BY DEF PreparedTrue
  <2>2. CASE Save(c)
    <3>1. got[d] # None /\ got[d].call \in Nat /\ got[c] # None /\ got[c].call \in Nat
      BY <2>2, FramesOf, SaveHolds DEF Handlers, HandlerOK
    <3>2. got[d].call # got[c].call
      BY <3>1 DEF Carriers, Carries
    <3> QED
      BY <2>1, <2>2, <3>1, <3>2, MeansKept, Zenon
  <2>3. CASE ~Save(c)
    BY <1>5, <2>1, <2>3, HandlerFrame, Zenon
  <2> QED
    BY <2>2, <2>3
<1>6. ASSUME NEW c \in Conns, Read(c) PROVE PreparedTrue'
  <2>1. CASE peer # "new" /\ net[c].tagged
    <3> DEFINE a == Answer(peer, TRUE, FALSE)
    <3> peer \in {"new", "ACK", "ERR"}
      BY DEF TypeOK
    <3>1. a.unknown = TRUE /\ a.dup = FALSE
      BY DEF Answer
    <3>2. CopiesIn(inbox, net[c].call) = {} /\ inbox' = inbox
      BY <1>6 DEF Read, UnreadUnsaved
    <3>3. ans'[c] = a /\ got'[c] = net[c]
      BY <1>0, <1>6, <2>1 DEF Read, Tables
    <3> HIDE DEF a
    <3>4. Means(a, net[c].call, net[c].tagged, inbox, Storable)
      BY <2>1, <3>1, <3>2 DEF Means
    <3> QED
      BY <1>5, <1>6, <3>2, <3>3, <3>4, Zenon DEF Handler
  <2>2. CASE ~(peer # "new" /\ net[c].tagged)
    <3>1. hpc'[c] \in {"claim", "save"}
      BY <1>0, <1>6, <2>2, Zenon DEF Read, Tables
    <3> QED
      BY <1>5, <1>6, <3>1, Zenon DEF Handler
  <2> QED
    BY <2>1, <2>2
<1>7. ASSUME NEW c \in Conns, WaitDone(c) PROVE PreparedTrue'
  <2>1. CASE cache = "stored"
    <3> DEFINE a == Answer("ACK", FALSE, TRUE)
    <3>1. a.word = "ACK" /\ a.unknown = FALSE /\ a.dup = TRUE
      BY DEF Answer
    <3>2. CopiesIn(inbox, got[c].call) = {} /\ inbox' = inbox
      BY <1>7 DEF WaitDone, HeldUnsaved
    <3>3. ans'[c] = a /\ got'[c] = got[c]
      BY <1>0, <1>7, <2>1 DEF WaitDone, Tables
    <3> HIDE DEF a
    <3>4. Means(a, got[c].call, got[c].tagged, inbox, Storable)
      BY <2>1, <3>1, <3>2 DEF Means, ClaimsStored
    <3> QED
      BY <1>5, <1>7, <3>2, <3>3, <3>4, Zenon DEF Handler
  <2>2. CASE cache # "stored"
    <3>1. hpc'[c] = "claim"
      BY <1>0, <1>7, <2>2 DEF WaitDone, Tables
    <3> QED
      BY <1>5, <1>7, <3>1, Zenon DEF Handler
  <2> QED
    BY <2>1, <2>2
<1>8. ASSUME NEW c \in Conns, Save(c) PROVE PreparedTrue'
  <2>1. PICK w \in {"ACK", "JSON"} : ans' = [ans EXCEPT ![c] = Answer(w, FALSE, FALSE)]
    BY <1>8, Zenon DEF Save, Prepared
  <2> DEFINE a == Answer(w, FALSE, FALSE)
  <2>2. a.word = w /\ a.unknown = FALSE /\ a.dup = FALSE
    BY DEF Answer
  <2>3. CopiesIn(inbox, got[c].call) = {}
    BY <1>8, SaveHolds DEF HeldUnsaved
  <2>4. CopiesIn(inbox', got[c].call) = {Len(inbox) + 1}
    BY <1>8, <2>3, SaveCopies
  <2>5. inbox'[Len(inbox) + 1].tagged = got[c].tagged
    BY <1>8, SaveAppends
  <2>6. ans'[c] = a /\ got'[c] = got[c]
    BY <1>0, <1>8, <2>1, SaveFrame DEF Tables
  <2> HIDE DEF a
  <2>7. Means(a, got[c].call, got[c].tagged, inbox', Storable)
    BY <2>2, <2>4, <2>5 DEF Means
  <2> QED
    BY <1>5, <1>8, <2>6, <2>7, Zenon DEF Handler
<1>9. ASSUME NEW c \in Conns, SaveFails(c) \/ SaveNothing(c) PROVE PreparedTrue'
  <2>1. PICK w \in {"ACK", "ERR", "JSON"} :
          /\ ans' = [ans EXCEPT ![c] = Answer(w, FALSE, FALSE)]
          /\ Storable => w = "ERR"
    BY <1>9, Zenon DEF SaveFails, SaveNothing, Prepared, Storable
  <2> DEFINE a == Answer(w, FALSE, FALSE)
  <2>2. a.word = w /\ a.unknown = FALSE /\ a.dup = FALSE
    BY DEF Answer
  <2>3. CopiesIn(inbox, got[c].call) = {} /\ inbox' = inbox
    BY <1>9 DEF SaveFails, SaveNothing, HeldUnsaved
  <2>4. ans'[c] = a /\ got'[c] = got[c]
    BY <1>0, <1>9, <2>1, SaveSteps, Zenon DEF Tables
  <2> HIDE DEF a
  <2>5. Means(a, got[c].call, got[c].tagged, inbox, Storable)
    BY <2>1, <2>2, <2>3 DEF Means
  <2> QED
    BY <1>5, <1>9, <2>3, <2>4, <2>5, Zenon DEF Handler, HandlerFault
<1>10. ASSUME NEW c \in Conns, Finish(c) PROVE PreparedTrue'
  BY <1>0, <1>10 DEF Finish, PreparedTrue, Storable, Tables
<1>11. ASSUME NEW c \in Conns, ReadEnds(c) \/ IdleTimeout(c) \/ WaitCancelled(c)
                               \/ Panic(c) \/ Ack(c) \/ Claim(c)
       PROVE  PreparedTrue'
  <2>1. hpc'[c] \in {"end", "read", "save", "wait"}
    BY <1>0, <1>11, Zenon
    DEF ReadEnds, IdleTimeout, WaitCancelled, Panic, Ack, Claim, End, Tables
  <2> QED
    BY <1>5, <1>11, <2>1, Zenon DEF Handler, HandlerFault
<1>12. ASSUME NEW c \in Conns, Break(c) PROVE PreparedTrue'
  BY <1>0, <1>12, BreakFrame, Zenon DEF PreparedTrue, Storable
<1> QED
  BY <1>1, <1>2, <1>3, <1>4, <1>6, <1>7, <1>8, <1>9, <1>10, <1>11, <1>12
  DEF Next, Service, Quiet, Handler, HandlerFault

LEMMA BackKept ==
    ASSUME TypeOK, Handlers, Slots, Carriers, PreparedTrue, BackTrue, Next
    PROVE  BackTrue'
<1>0. Tables /\ msg' = msg /\ (cpc # "idle" => conn \in Conns)
  <2>1. Tables /\ msg' = msg
    BY TablesOK, MessageKept
  <2>2. cpc # "idle" => conn # 0
    BY DEF Slots
  <2>3. MaxConns \in Nat /\ conn \in 0 .. MaxConns
    BY <2>1, ExchangeAssumption DEF Tables
  <2>4. conn # 0 => conn \in Conns
    BY <2>3 DEF Conns
  <2> QED
    BY <2>1, <2>2, <2>4
<1>1. CASE Send \/ Resend
  <2>1. back'[conn'] = None
    BY <1>0, <1>1, Zenon DEF Send, Resend, Slots, Tables
  <2> QED
    BY <2>1 DEF BackTrue
<1>2. CASE Dial \/ Post \/ Recv \/ SendFails \/ Return \/ ReadFails
  BY <1>2, Zenon DEF Dial, Post, Recv, SendFails, Return, ReadFails, BackTrue
<1>3. CASE Service
  BY <1>3, ServiceFrame DEF BackTrue, Storable
<1>4. ASSUME NEW c \in Conns, Save(c) PROVE BackTrue'
  <2> SUFFICES ASSUME cpc \in {"await", "reawait"}, back[conn] # None
               PROVE  Means(back[conn], calls, tagged, inbox', Storable)
    BY <1>0, <1>4, SaveFrame DEF BackTrue, Storable
  <2>1. got[c] # None /\ got[c].call \in Nat /\ calls \in Nat
    BY <1>0, <1>4, SaveHolds DEF Tables
  <2>2. c # conn
    BY <1>0, <2>1 DEF Slots, OneFrame
  <2>3. got[c].call # calls
    BY <2>1, <2>2, Zenon DEF Carriers, Carries
  <2>4. Means(back[conn], calls, tagged, inbox, Storable)
    BY DEF BackTrue
  <2> QED
    BY <1>4, <2>1, <2>3, <2>4, MeansKept
<1>5. ASSUME NEW c \in Conns, Ack(c) PROVE BackTrue'
  <2>1. UNCHANGED <<client, inbox>>
    BY <1>5 DEF Ack
  <2>2. CASE c \in up /\ c = conn /\ cpc \in {"await", "reawait"}
    <3>1. hpc[c] = "ack" /\ back'[conn] = ans[c]
      BY <1>0, <1>5, <2>2 DEF Ack, Tables
    <3>2. got[c] # None /\ Means(ans[c], got[c].call, got[c].tagged, inbox, Storable)
      BY <3>1 DEF PreparedTrue, Handlers, HandlerOK
    <3>3. got[c].call \in Nat
      BY <3>2, FramesOf
    <3>4. got[c].call = calls /\ got[c].tagged = tagged
      BY <2>2, <3>2, <3>3, Zenon DEF Carriers, Carries
    <3> QED
      BY <1>0, <2>1, <3>1, <3>2, <3>4, Zenon DEF BackTrue, Storable
  <2>3. CASE ~(c \in up /\ c = conn /\ cpc \in {"await", "reawait"})
    <3>1. cpc \in {"await", "reawait"} => back'[conn] = back[conn]
      BY <1>0, <1>5, <2>3 DEF Ack, Tables
    <3> QED
      BY <1>0, <2>1, <3>1, Zenon DEF BackTrue, Storable
  <2> QED
    BY <2>2, <2>3
<1>6. ASSUME NEW c \in Conns, ~Save(c), ~Ack(c), Handler(c) \/ HandlerFault(c)
      PROVE  BackTrue'
  <2>1. UNCHANGED <<client, inbox>>
    BY <1>6, HandlerFrame
  <2>2. UNCHANGED back
    BY <1>6, Zenon
    DEF Handler, HandlerFault, Read, ReadEnds, IdleTimeout, Claim, WaitDone,
        WaitCancelled, SaveFails, SaveNothing, Finish, Panic
  <2> QED
    BY <1>0, <2>1, <2>2 DEF BackTrue, Storable
<1>7. ASSUME NEW c \in Conns, Break(c) PROVE BackTrue'
  <2>1. cpc \in {"await", "reawait"} => back'[conn] \in {back[conn], None}
    BY <1>0, <1>7 DEF Break, Tables
  <2> QED
    BY <1>7, <2>1, BreakFrame, Zenon DEF BackTrue, Storable
<1> QED
  BY <1>1, <1>2, <1>3, <1>4, <1>5, <1>6, <1>7 DEF Next, Client, Handler

LEMMA ResultKept ==
    ASSUME TypeOK, Handlers, Slots, Carriers, BackTrue, ResultTrue, Next
    PROVE  ResultTrue'
<1>0. Tables /\ msg' = msg /\ (cpc # "idle" => conn \in Conns)
  <2>1. Tables /\ msg' = msg
    BY TablesOK, MessageKept
  <2>2. cpc # "idle" => conn # 0
    BY DEF Slots
  <2>3. MaxConns \in Nat /\ conn \in 0 .. MaxConns
    BY <2>1, ExchangeAssumption DEF Tables
  <2>4. conn # 0 => conn \in Conns
    BY <2>3 DEF Conns
  <2> QED
    BY <2>1, <2>2, <2>4
<1>1. CASE Send \/ Post
  BY <1>1, Zenon DEF Send, Post, ResultTrue
<1>2. CASE SendFails \/ ReadFails
  <2>1. result' = [kind |-> "error", tagged |-> FALSE, dup |-> FALSE]
    BY <1>2 DEF SendFails, ReadFails
  <2>2. result'.kind = "error"
    BY <2>1
  <2> QED
    BY <2>2 DEF ResultTrue
<1>3. CASE Dial \/ Recv \/ Resend
  <2>1. UNCHANGED <<result, calls, inbox>>
    BY <1>3, Zenon DEF Dial, Recv, Resend
  <2> QED
    BY <1>0, <2>1 DEF ResultTrue, Storable
<1>4. CASE Return
  <2> DEFINE a == back[conn]
  <2>1. conn \in Conns /\ a # None
    BY <1>0, <1>4, Zenon DEF Return
  <2>2. a.unknown \in BOOLEAN /\ a.dup \in BOOLEAN
    BY <2>1 DEF TypeOK, Answers
  <2>3. Means(a, calls, tagged, inbox, Storable)
    BY <1>4, Zenon DEF Return, BackTrue
  <2>4. ~a.unknown
    <3>1. a.unknown => tagged
      BY <2>3 DEF Means
    <3> QED
      BY <1>0, <1>4, <3>1, Zenon DEF Return, Predates, Slots, Tables
  <2>5. /\ UNCHANGED <<calls, inbox>>
        /\ result' = [kind |-> IF a.word = "ERR" THEN "rejected" ELSE "ok",
                      tagged |-> tagged, dup |-> a.dup]
    BY <1>4, Zenon DEF Return
  <2> HIDE DEF a
  <2>6. /\ result'.kind = IF a.word = "ERR" THEN "rejected" ELSE "ok"
        /\ result'.tagged = tagged /\ result'.dup = a.dup
    BY <2>5
  <2>7. Holding(result', calls, inbox, Storable)
    BY <2>2, <2>3, <2>4, <2>6 DEF Means, Holding
  <2> QED
    BY <1>0, <2>5, <2>7 DEF ResultTrue, Storable
<1>5. CASE Service
  BY <1>5, ServiceFrame DEF ResultTrue, Storable
<1>6. ASSUME NEW c \in Conns, Save(c) PROVE ResultTrue'
  <2> SUFFICES ASSUME result # None, result.kind # "error"
               PROVE  Holding(result, calls, inbox', Storable)
    BY <1>0, <1>6, SaveFrame DEF ResultTrue, Storable
  <2>1. got[c] # None /\ got[c].call \in Nat /\ calls \in Nat
    BY <1>0, <1>6, SaveHolds DEF Tables
  <2>2. got[c].call # calls
    BY <2>1, Zenon DEF Carriers, Carries
  <2>3. CopiesIn(inbox', calls) = CopiesIn(inbox, calls) /\ inbox' # <<>>
    BY <1>6, <2>1, <2>2, SaveElsewhere, SaveAppends, Zenon
  <2>4. \A i \in CopiesIn(inbox, calls) : inbox'[i] = inbox[i]
    BY <1>6, SaveAppends DEF CopiesIn
  <2>5. Holding(result, calls, inbox, Storable)
    BY DEF ResultTrue
  <2> QED
    BY <2>3, <2>4, <2>5 DEF Holding
<1>7. ASSUME NEW c \in Conns, ~Save(c), Handler(c) \/ HandlerFault(c) PROVE ResultTrue'
  <2>1. UNCHANGED <<client, inbox>>
    BY <1>7, HandlerFrame
  <2> QED
    BY <1>0, <2>1 DEF ResultTrue, Storable
<1>8. ASSUME NEW c \in Conns, Break(c) PROVE ResultTrue'
  BY <1>8, BreakFrame DEF ResultTrue, Storable
<1> QED
  BY <1>1, <1>2, <1>3, <1>4, <1>5, <1>6, <1>7, <1>8 DEF Next, Client, Handler
=============================================================================
