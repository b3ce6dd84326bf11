--------------------------- MODULE ExchangeProofs ---------------------------
(***************************************************************************)
(* The part of Exchange's invariant about the claim of the message's key   *)
(* and about runs without faults, and the theorems.                        *)
(***************************************************************************)
EXTENDS ExchangeCallProofs, FiniteSetTheorems

USE DEF client, link, handler, store, service, fixed

-----------------------------------------------------------------------------
(* The claim of the message's key *)

LEMMA ClaimsHeldStep ==
    ASSUME ClaimsHeld, NEW c \in Conns,
           \A d \in Conns : d # c => (Holds(d)' <=> Holds(d)),
           \/ (Holds(c)' <=> Holds(c)) /\ cache' = cache
           \/ cache = "none" /\ cache' = "flying" /\ Holds(c)'
           \/ Holds(c) /\ ~Holds(c)' /\ cache' # "flying"
    PROVE  ClaimsHeld'
<1>1. CASE (Holds(c)' <=> Holds(c)) /\ cache' = cache
  <2>1. \A d \in Conns : Holds(d)' <=> Holds(d)
    BY <1>1
  <2> QED
    BY <1>1, <2>1 DEF ClaimsHeld
<1>2. CASE cache = "none" /\ cache' = "flying" /\ Holds(c)'
  <2>1. \A d \in Conns : ~Holds(d)
    BY <1>2 DEF ClaimsHeld
  <2>2. \A d \in Conns : Holds(d)' <=> d = c
    BY <1>2, <2>1
  <2> QED
    BY <1>2, <2>2 DEF ClaimsHeld
<1>3. CASE Holds(c) /\ ~Holds(c)' /\ cache' # "flying"
  <2>1. \A d \in Conns : ~Holds(d)'
    BY <1>3 DEF ClaimsHeld
  <2> QED
    BY <1>3, <2>1 DEF ClaimsHeld
<1> QED
  BY <1>1, <1>2, <1>3

\* Who holds the claim after a handler's step: as before, or c takes it, or
\* c lets it go.
LEMMA HandlerHolds ==
    ASSUME TypeOK, Handlers, KeyedWait, NEW c \in Conns, Handler(c) \/ HandlerFault(c)
    PROVE  /\ \A d \in Conns : d # c => (Holds(d)' <=> Holds(d))
           /\ \/ (Holds(c)' <=> Holds(c)) /\ cache' = cache
              \/ cache = "none" /\ cache' = "flying" /\ Holds(c)'
              \/ Holds(c) /\ ~Holds(c)' /\ cache' # "flying"
<1>0. Tables /\ msg' = msg /\ peer' = peer
  BY TablesOK, HandlerFrame
<1>1. \A d \in Conns : d # c => (Holds(d)' <=> Holds(d))
  BY <1>0, HandlerLocal DEF Holds
<1>2. CASE Read(c)
  <2>1. hpc'[c] = "save" => ~Keyed(net[c])
    BY <1>0, <1>2, Zenon DEF Read, Tables
  <2>2. hpc'[c] \in {"ack", "claim", "save"} /\ got'[c] = net[c] /\ cache' = cache
        /\ hpc[c] = "read"
    BY <1>0, <1>2, Zenon DEF Read, Tables
  <2>3. ~Holds(c)'
    BY <1>0, <2>1, <2>2 DEF Holds, Keyed, KeyedIn
  <2>4. ~Holds(c)
    BY <2>2 DEF Holds
  <2> QED
    BY <1>1, <2>2, <2>3, <2>4
<1>3. CASE Claim(c)
  <2>1. ~Holds(c) /\ KeyedIn(peer, msg, got[c]) /\ got'[c] = got[c]
    BY <1>3 DEF Claim, Holds, KeyedWait
  <2>2. \/ cache = "none" /\ cache' = "flying" /\ hpc'[c] = "save"
        \/ cache' = cache /\ hpc'[c] = "wait"
    BY <1>0, <1>3 DEF Claim, Tables
  <2> QED
    BY <1>0, <1>1, <2>1, <2>2 DEF Holds
<1>4. CASE Save(c) \/ SaveFails(c) \/ SaveNothing(c)
  <2>1. hpc[c] = "save" /\ hpc'[c] = "finish" /\ UNCHANGED <<got, cache>>
    BY <1>0, <1>4, SaveSteps DEF Tables
  <2> QED
    BY <1>0, <1>1, <2>1 DEF Holds
<1>5. CASE Finish(c) \/ Panic(c)
  <2>1. hpc[c] \in {"save", "finish"} /\ hpc'[c] \in {"ack", "end"}
    BY <1>0, <1>5 DEF Finish, Panic, End, Tables
  <2>2. /\ Keyed(got[c]) => cache' \in {"none", "stored"}
        /\ ~Keyed(got[c]) => cache' = cache
    BY <1>5 DEF Finish, Panic, Release
  <2>3. Holds(c) <=> Keyed(got[c])
    BY <2>1 DEF Holds, Keyed, KeyedIn
  <2>4. ~Holds(c)'
    BY <2>1 DEF Holds
  <2> QED
    BY <1>1, <2>2, <2>3, <2>4
<1>6. CASE ReadEnds(c) \/ IdleTimeout(c) \/ WaitDone(c) \/ WaitCancelled(c) \/ Ack(c)
  <2>1. hpc[c] \in {"read", "wait", "ack"} /\ hpc'[c] \in {"end", "ack", "claim", "read"}
        /\ cache' = cache
    BY <1>0, <1>6, Zenon DEF ReadEnds, IdleTimeout, WaitDone, WaitCancelled, Ack, End, Tables
  <2> QED
    BY <1>1, <2>1 DEF Holds
<1> QED
  BY <1>2, <1>3, <1>4, <1>5, <1>6 DEF Handler, HandlerFault

\* Outside the handlers only a restart touches the claim.
LEMMA OthersFrame ==
    ASSUME Next, ~Restart, \A c \in Conns : ~Handler(c) /\ ~HandlerFault(c)
    PROVE  UNCHANGED <<fixed, got, ans, store>>
<1>1. CASE Client
  BY <1>1, ClientFrame
<1>2. CASE Service
  BY <1>2, ServiceFrame
<1>3. ASSUME NEW c \in Conns, Break(c) PROVE UNCHANGED <<fixed, got, ans, store>>
  BY <1>3, BreakFrame
<1> QED
  BY <1>1, <1>2, <1>3 DEF Next

\* Outside the handlers, connections are queued and accepted.
Opens(h, g) == g = h \/ (h \in {"none", "queued"} /\ g \in {"queued", "read"})

LEMMA OthersOpen ==
    ASSUME TypeOK, Handlers, Next, ~Restart,
           \A c \in Conns : ~Handler(c) /\ ~HandlerFault(c)
    PROVE  \A c \in Conns : Opens(hpc[c], hpc'[c])
<1>0. Tables
  BY TablesOK
<1>1. ASSUME hpc' = hpc PROVE \A c \in Conns : Opens(hpc[c], hpc'[c])
  BY <1>1 DEF Opens
<1>2. ASSUME NEW d, d \in Conns => hpc[d] \in {"none", "queued"},
             NEW v \in {"queued", "read"}, hpc' = [hpc EXCEPT ![d] = v]
      PROVE  \A c \in Conns : Opens(hpc[c], hpc'[c])
  BY <1>0, <1>2 DEF Tables, Opens
<1>3. CASE Dial
  <2>1. hpc' = [hpc EXCEPT ![conn + 1] = "queued"]
    BY <1>3 DEF Dial
  <2>2. conn + 1 \in Conns => hpc[conn + 1] = "none"
    BY <1>0 DEF Handlers, Tables
  <2> QED
    BY <1>2, <2>1, <2>2, Zenon
<1>4. CASE Client /\ ~Dial
  BY <1>1, <1>4, ClientFrame
<1>5. CASE Quiet \/ Stop
  BY <1>1, <1>5, QuietFrame DEF Stop, StopCancel, StopClose
<1>6. ASSUME NEW d \in Conns, Accept(d) PROVE \A c \in Conns : Opens(hpc[c], hpc'[c])
  BY <1>2, <1>6, Zenon DEF Accept
<1>7. ASSUME NEW d \in Conns, Break(d) PROVE \A c \in Conns : Opens(hpc[c], hpc'[c])
  BY <1>1, <1>7, BreakFrame
<1> QED
  BY <1>3, <1>4, <1>5, <1>6, <1>7 DEF Next, Service, Quiet

LEMMA RestartForgets ==
    ASSUME Restart
    PROVE  /\ \A c \in Conns : hpc'[c] \in {"none", "end"} /\ got'[c] = None
           /\ cache' = "none" /\ faults' = faults + 1
           /\ forgot' = IF cache = "stored" \/ \E c \in Conns : Unfinished(c)
                        THEN forgot + 1 ELSE forgot
           /\ UNCHANGED <<fixed, inbox>>
BY DEF Restart, Fault

LEMMA ClaimsHeldKept ==
    ASSUME TypeOK, Handlers, KeyedWait, ClaimsHeld, Next
    PROVE  ClaimsHeld'
<1>1. ASSUME NEW c \in Conns, Handler(c) \/ HandlerFault(c) PROVE ClaimsHeld'
  BY <1>1, HandlerHolds, ClaimsHeldStep
<1>2. CASE Restart
  BY <1>2, RestartForgets DEF ClaimsHeld, Holds
<1>3. CASE ~Restart /\ \A c \in Conns : ~Handler(c) /\ ~HandlerFault(c)
  <2>1. \A c \in Conns : Holds(c)' <=> Holds(c)
    BY <1>3, OthersOpen, OthersFrame DEF Holds, Opens
  <2>2. cache' = cache
    BY <1>3, OthersFrame
  <2> QED
    BY <2>1, <2>2 DEF ClaimsHeld
<1> QED
  BY <1>1, <1>2, <1>3

LEMMA KeyedWaitKept ==
    ASSUME TypeOK, Handlers, KeyedWait, Next
    PROVE  KeyedWait'
<1>0. Tables /\ msg' = msg /\ peer' = peer
  BY TablesOK, MessageKept
<1>1. ASSUME NEW c \in Conns, Handler(c) \/ HandlerFault(c) PROVE KeyedWait'
  <2>1. /\ hpc[c] \in {"claim", "wait"} => KeyedIn(peer, msg, got[c])
        /\ peer # "new" /\ got[c] # None /\ got[c].tagged => hpc[c] = "ack"
        /\ HandlerOK(hpc[c], got[c], ans[c])
    BY DEF KeyedWait, Handlers
  <2>2. /\ hpc'[c] \in {"claim", "wait"} => KeyedIn(peer, msg, got'[c])
        /\ peer # "new" /\ got'[c] # None /\ got'[c].tagged => hpc'[c] = "ack"
    <3>1. CASE Read(c)
      <4>1. got'[c] = net[c]
            /\ hpc'[c] = IF peer # "new" /\ net[c].tagged THEN "ack"
                         ELSE IF Keyed(net[c]) THEN "claim" ELSE "save"
        BY <1>0, <3>1, Zenon DEF Read, Tables
      <4> QED
        BY <4>1 DEF Keyed, KeyedIn
    <3>2. CASE Claim(c)
      <4>1. hpc[c] = "claim" /\ got'[c] = got[c]
        BY <3>2 DEF Claim
      <4> QED
        BY <2>1, <4>1 DEF KeyedIn
    <3>3. CASE WaitDone(c)
      <4>1. hpc[c] = "wait" /\ got'[c] = got[c]
        BY <3>3 DEF WaitDone
      <4> QED
        BY <2>1, <4>1 DEF KeyedIn
    <3>4. CASE Save(c) \/ SaveFails(c) \/ SaveNothing(c)
      <4>1. hpc[c] = "save" /\ hpc'[c] = "finish" /\ got'[c] = got[c]
        BY <1>0, <3>4, SaveSteps DEF Tables
      <4> QED
        BY <2>1, <4>1
    <3>5. CASE Finish(c)
      BY <1>0, <3>5 DEF Finish, Tables
    <3>6. CASE ReadEnds(c) \/ IdleTimeout(c) \/ WaitCancelled(c) \/ Panic(c) \/ Ack(c)
      <4>1. got'[c] = None /\ hpc'[c] \in {"end", "read"}
        BY <1>0, <3>6 DEF ReadEnds, IdleTimeout, WaitCancelled, Panic, Ack, End, Tables
      <4> QED
        BY <4>1
    <3> QED
      BY <1>1, <3>1, <3>2, <3>3, <3>4, <3>5, <3>6 DEF Handler, HandlerFault
  <2> QED
    BY <1>0, <1>1, <2>2, HandlerLocal DEF KeyedWait
<1>2. CASE Restart
  BY <1>2, RestartForgets DEF KeyedWait
<1>3. CASE ~Restart /\ \A c \in Conns : ~Handler(c) /\ ~HandlerFault(c)
  <2>1. got' = got
    BY <1>3, OthersFrame
  <2> QED
    BY <1>0, <1>3, <2>1, OthersOpen DEF KeyedWait, Opens
<1> QED
  BY <1>1, <1>2, <1>3

LEMMA ClaimsStoredKept ==
    ASSUME TypeOK, Handlers, PreparedTrue, ClaimsStored, Next
    PROVE  ClaimsStored'
<1>0. msg' = msg
  BY MessageKept
<1>1. ASSUME NEW c \in Conns, Save(c) PROVE ClaimsStored'
  BY <1>1, SaveAppends DEF ClaimsStored
<1>2. ASSUME NEW c \in Conns, Finish(c) PROVE ClaimsStored'
  <2>1. inbox' = inbox /\ hpc[c] = "finish"
        /\ (cache' = cache \/ cache' = IF ans[c].word = "ERR" THEN "none" ELSE "stored")
    BY <1>2 DEF Finish, Release
  <2>2. ~ans[c].dup /\ ~ans[c].unknown
    BY <2>1 DEF Handlers, HandlerOK
  <2>3. Means(ans[c], got[c].call, got[c].tagged, inbox, Storable)
    BY <2>1 DEF PreparedTrue
  <2>4. ans[c].word # "ERR" /\ Storable => CopiesIn(inbox, got[c].call) # {}
    BY <2>2, <2>3 DEF Means
  <2>5. inbox = <<>> => CopiesIn(inbox, got[c].call) = {}
    BY DEF CopiesIn
  <2> QED
    BY <1>0, <2>1, <2>4, <2>5 DEF ClaimsStored, Storable
<1>3. ASSUME NEW c \in Conns, ~Save(c), ~Finish(c), Handler(c) \/ HandlerFault(c)
      PROVE  ClaimsStored'
  <2>1. inbox' = inbox /\ cache' \in {cache, "flying", "none"}
    BY <1>3, SaveSteps, Zenon
    DEF Handler, HandlerFault, Read, ReadEnds, IdleTimeout, Claim, WaitDone,
        WaitCancelled, SaveFails, SaveNothing, Panic, Ack, Release
  <2> QED
    BY <1>0, <2>1 DEF ClaimsStored, Storable
<1>4. CASE Restart
  BY <1>4, RestartForgets DEF ClaimsStored
<1>5. CASE ~Restart /\ \A c \in Conns : ~Handler(c) /\ ~HandlerFault(c)
  <2>1. UNCHANGED <<cache, inbox>>
    BY <1>5, OthersFrame
  <2> QED
    BY <1>0, <2>1 DEF ClaimsStored, Storable
<1> QED
  BY <1>1, <1>2, <1>3, <1>4, <1>5 DEF Handler
-----------------------------------------------------------------------------
(* Without faults *)

LEMMA CancelsFirstKept ==
    ASSUME CancelsFirst, Next
    PROVE  CancelsFirst'
<1>1. CASE Client
  BY <1>1, ClientFrame DEF CancelsFirst
<1>2. CASE Service
  BY <1>2, Zenon
  DEF CancelsFirst, Service, Start, LoopCheck, AcceptClosed, AcceptFails, Stop,
      StopCancel, StopClose, StopUnstarted, StopDone, StopTimeout, Restart, Accept
<1>3. ASSUME NEW c \in Conns, Handler(c) \/ HandlerFault(c) PROVE CancelsFirst'
  BY <1>3, HandlerFrame DEF CancelsFirst
<1>4. ASSUME NEW c \in Conns, Break(c) PROVE CancelsFirst'
  BY <1>4, BreakFrame DEF CancelsFirst
<1> QED
  BY <1>1, <1>2, <1>3, <1>4 DEF Next

LEMMA NoFaultSteps ==
    ASSUME TypeOK, CancelsFirst, Next, faults' = 0, ~cancelled'
    PROVE  /\ faults = 0 /\ ~cancelled
           /\ \/ Client \/ Quiet \/ \E c \in Conns : Accept(c) \/ Handler(c)
<1>0. faults \in Nat
  BY ExchangeAssumption DEF TypeOK
<1>1. ~Fault
  BY <1>0 DEF Fault
<1>2. CASE Client
  BY <1>2, ClientFrame
<1>3. CASE Service
  <2>1. ~Restart /\ ~Stop
    BY <1>1 DEF Restart, Stop, StopCancel, StopClose, CancelsFirst
  <2>2. CASE Quiet
    <3>1. cancelled' = cancelled
      BY <2>2, QuietFrame
    <3>2. faults' = faults
      BY <1>1, <2>2 DEF Quiet, Start, LoopCheck, AcceptClosed, AcceptFails,
         StopUnstarted, StopDone, StopTimeout
    <3> QED
      BY <2>2, <3>1, <3>2
  <2>3. ASSUME NEW c \in Conns, Accept(c) PROVE faults = 0 /\ ~cancelled
    BY <2>3 DEF Accept
  <2> QED
    BY <1>3, <2>1, <2>2, <2>3 DEF Service, Quiet
<1>4. ASSUME NEW c \in Conns, Handler(c) PROVE faults = 0 /\ ~cancelled
  <2>1. faults' = faults
    BY <1>4, Zenon DEF Handler, Read, ReadEnds, Claim, WaitDone, WaitCancelled, Save,
       SaveNothing, Finish, Ack
  <2> QED
    BY <1>4, <2>1, HandlerFrame
<1>5. ASSUME NEW c \in Conns, HandlerFault(c) \/ Break(c) PROVE FALSE
  BY <1>1, <1>5 DEF HandlerFault, IdleTimeout, SaveFails, Panic, Break
<1> QED
  BY <1>2, <1>3, <1>4, <1>5 DEF Next

\* A frame Send or Post writes is no longer than the message allows.
LEMMA WireFits ==
    ASSUME TypeOK, msg.len <= MaxFrameSize, NEW n, NEW t \in BOOLEAN, t => FitsTagged
    PROVE  Wire(t, n).len <= MaxFrameSize
BY DEF Wire, FitsTagged

LEMMA CleanKept ==
    ASSUME TypeOK, Handlers, Slots, BackTrue, Clean, CancelsFirst, Next
    PROVE  Clean'
<1> SUFFICES ASSUME Storable, msg.len <= MaxFrameSize, faults' = 0, ~cancelled'
             PROVE  /\ Works'
                    /\ \A c \in Conns : net'[c] # None => net'[c].len <= MaxFrameSize
                    /\ \A c \in Conns : Favours(ans'[c]) /\ Favours(back'[c])
                    /\ result' # None => result'.kind = "ok"
  BY MessageKept DEF Clean, Storable
<1>0. Tables /\ (cpc # "idle" => conn \in Conns) /\ Favours(None)
  BY TablesOK, ExchangeAssumption DEF Tables, Conns, Slots, Favours
<1>1. /\ Works
      /\ \A c \in Conns : net[c] # None => net[c].len <= MaxFrameSize
      /\ \A c \in Conns : Favours(ans[c]) /\ Favours(back[c])
      /\ result # None => result.kind = "ok"
  BY NoFaultSteps DEF Clean
<1>2. CASE Dial
  <2>1. conn' = conn + 1 /\ conn + 1 \in up' /\ conn + 1 \in Conns
        /\ hpc' = [hpc EXCEPT ![conn + 1] = "queued"]
        /\ UNCHANGED <<net, ans, back, result>>
    BY <1>0, <1>2, ExchangeAssumption DEF Dial, Tables, Conns
  <2>2. hpc'[conn + 1] = "queued"
    BY <1>0, <2>1 DEF Tables
  <2> QED
    BY <1>1, <2>1, <2>2 DEF Works
<1>3. ASSUME UNCHANGED <<conn, up, hpc, ans>>, result' = None \/ result' = result,
             NEW f, f # None => f.len <= MaxFrameSize, net' = [net EXCEPT ![conn] = f],
             back' = back \/ back' = [back EXCEPT ![conn] = None]
      PROVE  /\ Works'
             /\ \A c \in Conns : net'[c] # None => net'[c].len <= MaxFrameSize
             /\ \A c \in Conns : Favours(ans'[c]) /\ Favours(back'[c])
             /\ result' # None => result'.kind = "ok"
  <2>1. Works'
    BY <1>1, <1>3 DEF Works
  <2>2. \A c \in Conns : net'[c] \in {net[c], f} /\ back'[c] \in {back[c], None}
    BY <1>0, <1>3 DEF Tables
  <2>3. \A c \in Conns : net'[c] # None => net'[c].len <= MaxFrameSize
    BY <1>1, <1>3, <2>2
  <2>4. \A c \in Conns : Favours(ans'[c]) /\ Favours(back'[c])
    BY <1>0, <1>1, <1>3, <2>2
  <2> QED
    BY <1>1, <1>3, <2>1, <2>3, <2>4
<1>4. CASE Send
  <2> DEFINE f == Wire(HasTags /\ FitsTagged, calls + 1)
  <2>0. (HasTags /\ FitsTagged) \in BOOLEAN
    BY DEF HasTags, FitsTagged
  <2>1. f.len <= MaxFrameSize
    BY <2>0, WireFits, Zenon
  <2>2. UNCHANGED <<conn, up, hpc, ans, back>> /\ result' = None
        /\ net' = [net EXCEPT ![conn] = f]
    BY <1>4 DEF Send
  <2> HIDE DEF f
  <2> QED
    BY <1>3, <2>1, <2>2, Zenon
<1>5. CASE Post
  <2> DEFINE f == Wire(FALSE, calls + 1)
  <2>1. f.len <= MaxFrameSize
    BY WireFits, Zenon
  <2>2. UNCHANGED <<conn, up, hpc, ans, back>> /\ result' = None
        /\ net' = [net EXCEPT ![conn] = f]
    BY <1>5 DEF Post
  <2> HIDE DEF f
  <2> QED
    BY <1>3, <2>1, <2>2, Zenon
<1>6. CASE Resend
  <2> DEFINE f == Wire(FALSE, calls)
  <2>1. f.len <= MaxFrameSize
    BY WireFits, Zenon
  <2>2. UNCHANGED <<conn, up, hpc, ans, result>> /\ net' = [net EXCEPT ![conn] = f]
        /\ back' = [back EXCEPT ![conn] = None]
    BY <1>6 DEF Resend
  <2> HIDE DEF f
  <2> QED
    BY <1>3, <2>1, <2>2, Zenon
<1>7. CASE SendFails \/ ReadFails
  BY <1>1, <1>7 DEF SendFails, ReadFails, Works, Slots, Storable
<1>8. CASE Recv \/ Return
  <2>1. UNCHANGED <<conn, up, hpc, ans, net>> /\ back' = [back EXCEPT ![conn] = None]
    BY <1>8 DEF Recv, Return
  <2>2. \A c \in Conns : back'[c] \in {back[c], None}
    BY <1>0, <2>1 DEF Tables
  <2>3. result' = result \/ result'.kind = "ok"
    <3>1. CASE Return
      <4> DEFINE a == back[conn]
      <4>1. conn \in Conns /\ a # None
        BY <1>0, <3>1 DEF Return
      <4>2. Means(a, calls, tagged, inbox, Storable)
        BY <3>1, Zenon DEF Return, BackTrue
      <4>3. a.unknown => tagged
        BY <4>2 DEF Means
      <4>4. ~a.unknown
        BY <1>0, <3>1, <4>3 DEF Return, Predates, Slots, Tables
      <4>5. a.word # "ERR"
        BY <1>1, <4>1, <4>4 DEF Favours
      <4>6. result' = [kind |-> IF a.word = "ERR" THEN "rejected" ELSE "ok",
                       tagged |-> tagged, dup |-> a.dup]
        BY <3>1 DEF Return
      <4> HIDE DEF a
      <4> QED
        BY <4>5, <4>6
    <3>2. CASE Recv
      BY <3>2 DEF Recv
    <3> QED
      BY <1>8, <3>1, <3>2
  <2>4. Works'
    BY <1>1, <2>1 DEF Works
  <2>5. \A c \in Conns : Favours(ans'[c]) /\ Favours(back'[c])
    BY <1>0, <1>1, <2>1, <2>2
  <2> QED
    BY <1>1, <2>1, <2>3, <2>4, <2>5
<1>9. CASE Quiet
  <2>1. UNCHANGED <<client, link, handler>>
    BY <1>9, QuietFrame
  <2> QED
    BY <1>1, <2>1 DEF Works
<1>10. ASSUME NEW c \in Conns, Accept(c)
       PROVE  /\ Works'
              /\ \A d \in Conns : net'[d] # None => net'[d].len <= MaxFrameSize
              /\ \A d \in Conns : Favours(ans'[d]) /\ Favours(back'[d])
              /\ result' # None => result'.kind = "ok"
  <2>1. UNCHANGED <<conn, up, net, ans, back, result>>
        /\ hpc' = [hpc EXCEPT ![c] = "read"]
    BY <1>10 DEF Accept
  <2>2. conn # 0 => hpc'[conn] \in {hpc[conn], "read"}
    BY <1>0, <2>1 DEF Tables, Conns
  <2> QED
    BY <1>1, <2>1, <2>2 DEF Works
<1>11. ASSUME NEW c \in Conns, Handler(c)
       PROVE  /\ Works'
              /\ \A d \in Conns : net'[d] # None => net'[d].len <= MaxFrameSize
              /\ \A d \in Conns : Favours(ans'[d]) /\ Favours(back'[d])
              /\ result' # None => result'.kind = "ok"
  <2>0. /\ UNCHANGED <<client, up>>
        /\ Favours(ans[c]) /\ Favours(back[c])
        /\ c = conn => c \in up
    BY <1>1, <1>11, HandlerFrame DEF Works, Conns
  <2>1. /\ c = conn => hpc'[c] # "end"
        /\ net'[c] \in {net[c], None}
        /\ Favours(ans'[c]) /\ Favours(back'[c])
    <3>1. CASE Read(c)
      <4>1. hpc'[c] # "end" /\ net'[c] = None /\ back'[c] = back[c]
        BY <1>0, <3>1, Zenon DEF Read, Tables
      <4>2. ans'[c] = Answer(peer, TRUE, FALSE) \/ ans'[c] = ans[c]
        BY <1>0, <3>1, Zenon DEF Read, Tables
      <4>3. Favours(Answer(peer, TRUE, FALSE))
        BY DEF Favours, Answer
      <4> QED
        BY <2>0, <4>1, <4>2, <4>3, Zenon
    <3>2. CASE ReadEnds(c)
      <4>1. c # conn
        BY <1>1, <2>0, <3>2 DEF ReadEnds, Readable, Storable
      <4>2. net'[c] = None /\ ans'[c] = None /\ back'[c] = back[c]
        BY <1>0, <3>2 DEF ReadEnds, End, Tables
      <4> QED
        BY <1>0, <2>0, <4>1, <4>2
    <3>3. CASE Claim(c) \/ Finish(c)
      <4>1. hpc'[c] # "end" /\ UNCHANGED <<net, ans, back>>
        BY <1>0, <3>3 DEF Claim, Finish, Tables
      <4> QED
        BY <2>0, <4>1
    <3>4. CASE WaitDone(c)
      <4>1. hpc'[c] # "end" /\ UNCHANGED <<net, back>>
        BY <1>0, <3>4, Zenon DEF WaitDone, Tables
      <4>2. ans'[c] = Answer("ACK", FALSE, TRUE) \/ ans'[c] = ans[c]
        BY <1>0, <3>4, Zenon DEF WaitDone, Tables
      <4>3. Favours(Answer("ACK", FALSE, TRUE))
        BY DEF Favours, Answer
      <4> QED
        BY <2>0, <4>1, <4>2, <4>3, Zenon
    <3>5. CASE Save(c)
      <4>1. hpc'[c] # "end" /\ UNCHANGED <<net, back>>
        BY <1>0, <3>5, SaveSteps DEF Tables
      <4>2. ans'[c] = Answer("ACK", FALSE, FALSE)
        BY <1>0, <3>5 DEF Save, Prepared, Storable, Tables
      <4>3. Favours(Answer("ACK", FALSE, FALSE))
        BY DEF Favours, Answer
      <4> QED
        BY <2>0, <4>1, <4>2, <4>3, Zenon
    <3>6. CASE Ack(c)
      <4>1. CASE c \in up
        BY <1>0, <2>0, <3>6, <4>1 DEF Ack, Tables
      <4>2. CASE c \notin up
        BY <1>0, <2>0, <3>6, <4>2 DEF Ack, End, Tables
      <4> QED
        BY <4>1, <4>2
    <3>7. CASE WaitCancelled(c) \/ SaveNothing(c)
      BY <3>7, NoFaultSteps DEF WaitCancelled, SaveNothing, Storable
    <3> QED
      BY <1>11, <3>1, <3>2, <3>3, <3>4, <3>5, <3>6, <3>7 DEF Handler
  <2>2. \A d \in Conns : d # c => hpc'[d] = hpc[d] /\ net'[d] = net[d]
                                   /\ ans'[d] = ans[d] /\ back'[d] = back[d]
    BY <1>11, HandlerLocal
  <2>3. conn \in 0 .. MaxConns
    BY <1>0 DEF Tables
  <2>4. Works'
    <3>1. conn # 0 => conn \in Conns
      BY <2>3, ExchangeAssumption DEF Conns
    <3> QED
      BY <1>1, <2>0, <2>1, <2>2, <3>1 DEF Works
  <2> QED
    BY <1>1, <2>0, <2>1, <2>2, <2>4
<1> QED
  BY <1>2, <1>4, <1>5, <1>6, <1>7, <1>8, <1>9, <1>10, <1>11, NoFaultSteps, Zenon DEF Client
-----------------------------------------------------------------------------
(* How often a message with an ID is stored *)

LEMMA TagsFinite ==
    ASSUME TypeOK
    PROVE  IsFiniteSet(TagsIn(inbox)) /\ Cardinality(TagsIn(inbox)) \in Nat
<1>1. Len(inbox) \in Nat
  BY DEF TypeOK
<1>2. IsFiniteSet(1 .. Len(inbox)) /\ TagsIn(inbox) \subseteq 1 .. Len(inbox)
  BY <1>1, FS_Interval DEF TagsIn
<1> QED
  BY <1>2, FS_Subset, FS_CardinalityType

LEMMA SaveTags ==
    ASSUME TypeOK, Handlers, NEW c \in Conns, Save(c)
    PROVE  Cardinality(TagsIn(inbox'))
             = Cardinality(TagsIn(inbox)) + (IF got[c].tagged THEN 1 ELSE 0)
<1>1. /\ Len(inbox) \in Nat /\ Len(inbox') = Len(inbox) + 1
      /\ \A i \in 1 .. Len(inbox) : inbox'[i] = inbox[i]
      /\ inbox'[Len(inbox) + 1].tagged = got[c].tagged
  BY SaveAppends
<1>2. CASE got[c].tagged
  <2>1. TagsIn(inbox') = TagsIn(inbox) \cup {Len(inbox) + 1}
    <3> DEFINE k == Len(inbox) + 1
    <3>1. 1 .. Len(inbox') = (1 .. Len(inbox)) \cup {k} /\ k \notin 1 .. Len(inbox)
      BY <1>1
    <3>2. inbox'[k].tagged /\ \A i \in 1 .. Len(inbox) : inbox'[i] = inbox[i]
      BY <1>1, <1>2
    <3> HIDE DEF k
    <3>3. TagsIn(inbox') = TagsIn(inbox) \cup {k}
      BY <3>1, <3>2, Zenon DEF TagsIn
    <3> QED
      BY <3>3 DEF k
  <2>2. Len(inbox) + 1 \notin TagsIn(inbox)
    BY <1>1 DEF TagsIn
  <2> QED
    BY <1>2, <2>1, <2>2, TagsFinite, FS_AddElement, Zenon
<1>3. CASE ~got[c].tagged
  <2>1. TagsIn(inbox') = TagsIn(inbox)
    BY <1>1, <1>3 DEF TagsIn
  <2> QED
    BY <1>3, <2>1, TagsFinite
<1> QED
  BY <1>2, <1>3

LEMMA ForgotKept ==
    ASSUME TypeOK, ClaimsCount, Next
    PROVE  forgot' <= faults'
<1>0. forgot \in Nat /\ faults \in Nat /\ forgot <= faults
  BY ExchangeAssumption DEF TypeOK, ClaimsCount
<1>1. UNCHANGED <<forgot, faults>> \/ (Fault /\ forgot' \in {forgot, forgot + 1})
  <2>1. CASE Client
    BY <2>1, ClientFrame
  <2>2. CASE Service
    BY <2>2 DEF Service, Start, LoopCheck, AcceptClosed, AcceptFails, Stop, StopCancel,
       StopClose, StopUnstarted, StopDone, StopTimeout, Accept, Restart
  <2>3. ASSUME NEW c \in Conns, Handler(c)
        PROVE  UNCHANGED <<forgot, faults>>
    BY <2>3, Zenon DEF Handler, Read, ReadEnds, Claim, WaitDone, WaitCancelled, Save,
       SaveNothing, Finish, Ack
  <2>4. ASSUME NEW c \in Conns, HandlerFault(c) \/ Break(c)
        PROVE  Fault /\ forgot' \in {forgot, forgot + 1}
    BY <2>4 DEF HandlerFault, IdleTimeout, SaveFails, Panic, Break
  <2> QED
    BY <2>1, <2>2, <2>3, <2>4 DEF Next
<1> QED
  BY <1>0, <1>1 DEF Fault

\* A handler that has the claim and stored nothing yet.
Pending(c) == Holds(c) /\ (hpc[c] = "finish" => ans[c].word = "ERR")

LEMMA ClaimsCountKept ==
    ASSUME TypeOK, Handlers, KeyedWait, ClaimsHeld, ClaimsCount, Next
    PROVE  ClaimsCount'
<1> DEFINE N == Cardinality(TagsIn(inbox))
<1>0. Tables /\ msg' = msg /\ forgot' <= faults' /\ N \in Nat /\ forgot \in Nat
  <2>1. Tables /\ msg' = msg /\ forgot' <= faults' /\ N \in Nat
    BY TablesOK, MessageKept, ForgotKept, TagsFinite
  <2>2. MaxFaults \in Nat /\ forgot \in 0 .. MaxFaults
    BY ExchangeAssumption DEF TypeOK
  <2>3. forgot \in Nat
    BY <2>2
  <2> QED
    BY <2>1, <2>3
<1> SUFFICES ASSUME msg.tags = "id", Storable
             PROVE  /\ N' <= 1 + forgot'
                    /\ cache' = "none" => N' <= forgot'
                    /\ \A c \in Conns : Pending(c)' => N' <= forgot'
  BY <1>0 DEF ClaimsCount, Storable, Pending
<1>1. /\ N <= 1 + forgot
      /\ cache = "none" => N <= forgot
      /\ \A c \in Conns : Pending(c) => N <= forgot
  BY DEF ClaimsCount, Pending
<1> HIDE DEF N
<1>2. ASSUME N' = N, forgot' = forgot, cache' = "none" => N <= forgot,
             \A c \in Conns : Pending(c)' => N <= forgot
      PROVE  /\ N' <= 1 + forgot'
             /\ cache' = "none" => N' <= forgot'
             /\ \A c \in Conns : Pending(c)' => N' <= forgot'
  BY <1>1, <1>2
<1>3. ASSUME N' = N, forgot' = forgot + 1
      PROVE  /\ N' <= 1 + forgot'
             /\ cache' = "none" => N' <= forgot'
             /\ \A c \in Conns : Pending(c)' => N' <= forgot'
  <2>1. N' <= forgot' /\ N' <= 1 + forgot'
    BY <1>0, <1>1, <1>3
  <2> QED
    BY <2>1
<1>4. ASSUME NEW c \in Conns, Handler(c) \/ HandlerFault(c), ~Save(c)
      PROVE  N' = N
  BY <1>4, HandlerFrame DEF N
<1>5. ASSUME NEW c \in Conns, Handler(c) \/ HandlerFault(c)
      PROVE  \A d \in Conns : d # c => (Pending(d)' <=> Pending(d))
  BY <1>5, HandlerHolds, HandlerLocal DEF Pending
<1>6. ASSUME NEW c \in Conns, Save(c)
      PROVE  /\ N' <= 1 + forgot'
             /\ cache' = "none" => N' <= forgot'
             /\ \A d \in Conns : Pending(d)' => N' <= forgot'
  <2>1. got[c] # None /\ got[c].tagged \in BOOLEAN /\ hpc[c] = "save"
    BY <1>6, SaveHolds
  <2>2. UNCHANGED <<got, cache, forgot>> /\ hpc'[c] = "finish"
    BY <1>0, <1>6, SaveSteps DEF Tables
  <2>3. Handler(c)
    BY <1>6 DEF Handler
  <2>4. CASE got[c].tagged
    <3>1. Holds(c)
      BY <2>1, <2>4 DEF KeyedWait, Holds, KeyedIn, Storable
    <3>2. N' = N + 1
      BY <1>6, <2>4, SaveTags DEF N
    <3>3. N <= forgot
      BY <1>1, <2>1, <3>1 DEF Pending
    <3>4. cache = "flying"
      BY <3>1 DEF ClaimsHeld
    <3>5. ans'[c].word = "ACK"
      BY <1>0, <1>6 DEF Save, Prepared, Storable, Answer, Tables
    <3>6. \A d \in Conns : ~Pending(d)'
      <4>1. ~Pending(c)'
        BY <2>2, <3>5 DEF Pending
      <4>2. \A d \in Conns : d # c => ~Pending(d)
        BY <3>1 DEF Pending, ClaimsHeld
      <4> QED
        BY <1>5, <2>3, <4>1, <4>2
    <3>7. N' <= 1 + forgot
      BY <1>0, <3>2, <3>3
    <3> QED
      BY <2>2, <3>4, <3>6, <3>7
  <2>5. CASE ~got[c].tagged
    <3>1. N' = N
      BY <1>0, <1>6, <2>5, SaveTags DEF N
    <3>2. ~Holds(c)'
      BY <2>2, <2>5 DEF Holds, KeyedIn
    <3>3. \A d \in Conns : Pending(d)' => Pending(d)
      BY <1>5, <2>3, <3>2 DEF Pending
    <3> QED
      BY <1>1, <1>2, <2>2, <3>1, <3>3
  <2> QED
    BY <2>4, <2>5
<1>7. ASSUME NEW c \in Conns, SaveFails(c) \/ SaveNothing(c)
      PROVE  /\ N' <= 1 + forgot'
             /\ cache' = "none" => N' <= forgot'
             /\ \A d \in Conns : Pending(d)' => N' <= forgot'
  <2>1. Handler(c) \/ HandlerFault(c)
    BY <1>7 DEF Handler, HandlerFault
  <2>2. hpc[c] = "save" /\ hpc'[c] = "finish" /\ UNCHANGED <<got, cache, forgot>>
    BY <1>0, <1>7, SaveSteps DEF Tables
  <2>3. UNCHANGED <<inbox, fixed>>
    BY <1>7 DEF SaveFails, SaveNothing
  <2>4. Pending(c)' => Pending(c)
    BY <2>2, <2>3 DEF Pending, Holds
  <2>5. N' = N
    BY <2>3 DEF N
  <2> QED
    BY <1>1, <1>2, <1>5, <2>1, <2>2, <2>4, <2>5
<1>8. ASSUME NEW c \in Conns, Claim(c)
      PROVE  /\ N' <= 1 + forgot'
             /\ cache' = "none" => N' <= forgot'
             /\ \A d \in Conns : Pending(d)' => N' <= forgot'
  <2>1. Handler(c) /\ ~Save(c)
    BY <1>8 DEF Handler, Claim, Save
  <2>2. forgot' = forgot
        /\ \/ cache = "none" /\ cache' = "flying"
           \/ cache' = cache /\ hpc'[c] = "wait"
    BY <1>0, <1>8, Zenon DEF Claim, Tables
  <2>3. N' = N
    BY <1>4, <2>1
  <2>4. CASE cache = "none"
    BY <1>1, <1>2, <2>2, <2>3, <2>4
  <2>5. CASE cache # "none"
    <3>1. cache' = cache /\ ~Pending(c)'
      BY <2>2, <2>5 DEF Pending, Holds
    <3> QED
      BY <1>1, <1>2, <1>5, <2>1, <2>2, <2>3, <3>1
  <2> QED
    BY <2>4, <2>5
<1>9. ASSUME NEW c \in Conns, Finish(c)
      PROVE  /\ N' <= 1 + forgot'
             /\ cache' = "none" => N' <= forgot'
             /\ \A d \in Conns : Pending(d)' => N' <= forgot'
  <2>1. Handler(c) /\ ~Save(c)
    BY <1>9, Zenon DEF Handler, Finish, Save
  <2>2. hpc[c] = "finish" /\ hpc'[c] = "ack" /\ forgot' = forgot
    BY <1>0, <1>9, Zenon DEF Finish, Tables
  <2>3. N' = N
    BY <1>4, <2>1
  <2>4. ~Pending(c)'
    BY <2>2 DEF Pending, Holds
  <2>5. cache' = cache \/ (Keyed(got[c]) /\ (cache' = "none" => ans[c].word = "ERR"))
    BY <1>9, Zenon DEF Finish, Release
  <2>6. cache' = "none" => N <= forgot
    BY <1>1, <2>2, <2>5 DEF Pending, Holds, Keyed, KeyedIn
  <2> QED
    BY <1>1, <1>2, <1>5, <2>1, <2>2, <2>3, <2>4, <2>6
<1>10. ASSUME NEW c \in Conns, Panic(c)
       PROVE  /\ N' <= 1 + forgot'
              /\ cache' = "none" => N' <= forgot'
              /\ \A d \in Conns : Pending(d)' => N' <= forgot'
  <2>0. HandlerFault(c)
    BY <1>10 DEF HandlerFault
  <2>1. /\ inbox' = inbox /\ hpc[c] \in {"save", "finish"}
        /\ forgot' = IF Unfinished(c) THEN forgot + 1 ELSE forgot
        /\ cache' = IF Keyed(got[c]) THEN "none" ELSE cache
    BY <1>10, Zenon DEF Panic, Release
  <2>2. N' = N
    BY <2>1 DEF N
  <2>3. ~Pending(c)'
    <3>1. hpc'[c] = "end"
      BY <1>0, <1>10 DEF Panic, End, Tables
    <3> QED
      BY <3>1 DEF Pending, Holds
  <2>4. CASE Unfinished(c)
    BY <1>3, <2>1, <2>2, <2>4
  <2>5. CASE ~Unfinished(c)
    <3>1. Keyed(got[c]) => Pending(c)
      BY <2>1, <2>5 DEF Pending, Holds, Keyed, KeyedIn, Unfinished
    <3>2. cache' = "none" => N <= forgot
      BY <1>1, <2>1, <3>1, Zenon
    <3>3. \A d \in Conns : Pending(d)' => N <= forgot
      BY <1>1, <1>5, <2>0, <2>3
    <3>4. forgot' = forgot
      BY <2>1, <2>5, Zenon
    <3> QED
      BY <1>2, <2>2, <3>2, <3>3, <3>4
  <2> QED
    BY <2>4, <2>5
<1>11. ASSUME NEW c \in Conns, Read(c) \/ ReadEnds(c) \/ IdleTimeout(c) \/ WaitDone(c)
                               \/ WaitCancelled(c) \/ Ack(c)
       PROVE  /\ N' <= 1 + forgot'
              /\ cache' = "none" => N' <= forgot'
              /\ \A d \in Conns : Pending(d)' => N' <= forgot'
  <2>1. Handler(c) \/ HandlerFault(c)
    BY <1>11 DEF Handler, HandlerFault
  <2>2. UNCHANGED <<inbox, cache, forgot>> /\ hpc[c] \in {"read", "wait", "ack"}
    BY <1>11, Zenon DEF Read, ReadEnds, IdleTimeout, WaitDone, WaitCancelled, Ack
  <2>3. N' = N
    BY <2>2 DEF N
  <2>4. ~Holds(c)'
    <3>1. ~Holds(c)
      BY <2>2 DEF Holds
    <3>2. cache = "none" /\ cache' = "flying" => FALSE
      BY <2>2
    <3> QED
      BY <2>1, <3>1, <3>2, HandlerHolds
  <2>5. ~Pending(c)'
    BY <2>4 DEF Pending
  <2> QED
    BY <1>1, <1>2, <1>5, <2>1, <2>2, <2>3, <2>5
<1>12. CASE Restart
  <2>1. /\ inbox' = inbox
        /\ forgot' = IF cache = "stored" \/ \E c \in Conns : Unfinished(c)
                     THEN forgot + 1 ELSE forgot
        /\ \A c \in Conns : hpc'[c] \in {"none", "end"}
    BY <1>12, RestartForgets
  <2>2. N' = N
    BY <2>1 DEF N
  <2>3. CASE cache = "stored" \/ \E c \in Conns : Unfinished(c)
    BY <1>3, <2>1, <2>2, <2>3
  <2>4. CASE cache # "stored" /\ \A c \in Conns : ~Unfinished(c)
    <3>1. cache \in {"none", "flying"}
      BY <2>4 DEF TypeOK
    <3>2. ASSUME cache = "flying" PROVE N <= forgot
      <4>1. PICK c \in Conns : Holds(c)
        BY <3>2 DEF ClaimsHeld
      <4>2. Pending(c)
        BY <2>4, <4>1 DEF Pending, Holds, Unfinished, Keyed, KeyedIn
      <4> QED
        BY <1>1, <4>2
    <3>3. N <= forgot
      BY <1>1, <3>1, <3>2
    <3> QED
      BY <1>2, <2>1, <2>2, <2>4, <3>3
  <2> QED
    BY <2>3, <2>4
<1>13. CASE ~Restart /\ \A c \in Conns : ~Handler(c) /\ ~HandlerFault(c)
  <2>1. UNCHANGED <<fixed, got, ans, inbox, cache, forgot>>
    BY <1>13, OthersFrame
  <2>2. \A c \in Conns : Pending(c)' => Pending(c)
    BY <1>13, <2>1, OthersOpen DEF Pending, Holds, Opens
  <2>3. N' = N
    BY <2>1 DEF N
  <2> QED
    BY <1>1, <1>2, <2>1, <2>2, <2>3
<1> QED
  BY <1>6, <1>7, <1>8, <1>9, <1>10, <1>11, <1>12, <1>13 DEF Handler, HandlerFault

-----------------------------------------------------------------------------
(* The invariant, and what follows from it *)

LEMMA InitOK ==
    ASSUME Init
    PROVE  ExchangeInv
<1>0. /\ msg \in Messages /\ peer \in {"new", "ACK", "ERR"}
      /\ cpc = "idle" /\ conn = 0 /\ tagged = FALSE /\ result = None /\ calls = 0
      /\ up = {} /\ net = [c \in Conns |-> None] /\ back = [c \in Conns |-> None]
      /\ hpc = [c \in Conns |-> "none"] /\ got = [c \in Conns |-> None]
      /\ ans = [c \in Conns |-> None]
      /\ inbox = <<>> /\ cache = "none"
      /\ listening = FALSE /\ cancelled = FALSE /\ loop = "off" /\ stop = "none"
      /\ forgot = 0 /\ faults = 0
  BY DEF Init
<1>1. TypeOK
  <2>1. /\ net \in [Conns -> Frames \cup {None}] /\ back \in [Conns -> Answers \cup {None}]
        /\ got \in [Conns -> Frames \cup {None}] /\ ans \in [Conns -> Answers \cup {None}]
        /\ hpc \in [Conns -> {"none", "queued", "read", "claim", "wait", "save",
                              "finish", "ack", "end"}]
    BY <1>0
  <2>2. inbox \in Seq([call : Nat, tagged : BOOLEAN])
    BY <1>0
  <2>3. /\ conn \in 0 .. MaxConns /\ calls \in 0 .. MaxCalls
        /\ forgot \in 0 .. MaxFaults /\ faults \in 0 .. MaxFaults
    BY <1>0, ExchangeAssumption
  <2> QED
    BY <1>0, <2>1, <2>2, <2>3, Zenon DEF TypeOK
<1>2. Handlers /\ Slots
  BY <1>0 DEF Handlers, HandlerOK, Slots, OneFrame
<1>3. Carriers
  BY <1>0 DEF Carriers, Carries
<1>4. Len(inbox) = 0 /\ TagsIn(inbox) = {} /\ \A n : CopiesIn(inbox, n) = {}
  BY <1>0 DEF TagsIn, CopiesIn
<1>5. StoredOnce /\ UnreadUnsaved /\ HeldUnsaved
  BY <1>0, <1>4 DEF StoredOnce, UnreadUnsaved, HeldUnsaved
<1>6. PreparedTrue /\ BackTrue /\ ResultTrue
  BY <1>0 DEF PreparedTrue, BackTrue, ResultTrue
<1>7. ClaimsHeld /\ KeyedWait /\ ClaimsStored
  BY <1>0 DEF ClaimsHeld, Holds, KeyedWait, ClaimsStored
<1>8. ClaimsCount
  <2>1. Cardinality(TagsIn(inbox)) = 0
    BY <1>4, FS_EmptySet
  <2> QED
    BY <1>0, <2>1 DEF ClaimsCount
<1>9. Clean /\ CancelsFirst
  BY <1>0 DEF Clean, Works, Favours, CancelsFirst
<1> QED
  BY <1>1, <1>2, <1>3, <1>5, <1>6, <1>7, <1>8, <1>9 DEF ExchangeInv

LEMMA StepOK ==
    ASSUME ExchangeInv, Next
    PROVE  ExchangeInv'
<1> USE DEF ExchangeInv
<1>1. TypeOK'
  BY TypeKept
<1>2. Handlers' /\ Slots' /\ Carriers'
  BY HandlersKept, SlotsKept, CarriersKept
<1>3. StoredOnce' /\ UnreadUnsaved' /\ HeldUnsaved'
  BY StoredOnceKept, UnreadKept, HeldKept
<1>4. PreparedTrue' /\ BackTrue' /\ ResultTrue'
  BY PreparedKept, BackKept, ResultKept
<1>5. ClaimsHeld' /\ KeyedWait' /\ ClaimsStored' /\ ClaimsCount'
  BY ClaimsHeldKept, KeyedWaitKept, ClaimsStoredKept, ClaimsCountKept
<1>6. Clean' /\ CancelsFirst'
  BY CleanKept, CancelsFirstKept
<1> QED
  BY <1>1, <1>2, <1>3, <1>4, <1>5, <1>6

LEMMA StutterOK ==
    ASSUME ExchangeInv, UNCHANGED vars
    PROVE  ExchangeInv'
<1>0. UNCHANGED <<fixed, client, link, handler, store, service, faults>>
  BY DEF vars
<1> USE DEF ExchangeInv
<1>1. TypeOK'
  <2>1. ClientType /\ FrameType /\ AnswerType /\ StoreType /\ ServiceType
    BY DEF TypeOK, ClientType, FrameType, AnswerType, StoreType, ServiceType
  <2>2. ClientType' /\ FrameType'
    BY <1>0, <2>1 DEF ClientType, FrameType
  <2>3. AnswerType' /\ StoreType'
    BY <1>0, <2>1 DEF AnswerType, StoreType
  <2>4. ServiceType'
    BY <1>0, <2>1 DEF ServiceType
  <2> QED
    BY <2>2, <2>3, <2>4
    DEF TypeOK, ClientType, FrameType, AnswerType, StoreType, ServiceType
<1>2. Handlers' /\ Slots'
  BY <1>0, Zenon DEF Handlers, Slots
<1>3. Carriers'
  BY <1>0, Zenon DEF Carriers, Carries
<1>4. StoredOnce' /\ UnreadUnsaved' /\ HeldUnsaved'
  BY <1>0, Zenon DEF StoredOnce, UnreadUnsaved, HeldUnsaved
<1>5. PreparedTrue' /\ BackTrue' /\ ResultTrue'
  BY <1>0, Zenon DEF PreparedTrue, BackTrue, ResultTrue, Storable
<1>6. ClaimsHeld' /\ KeyedWait' /\ ClaimsStored'
  BY <1>0, Zenon DEF ClaimsHeld, Holds, KeyedWait, ClaimsStored, Storable
<1>7. ClaimsCount'
  BY <1>0, Zenon DEF ClaimsCount, Holds, Storable
<1>8. Clean' /\ CancelsFirst'
  BY <1>0, Zenon DEF Clean, Works, Storable, CancelsFirst
<1> QED
  BY <1>1, <1>2, <1>3, <1>4, <1>5, <1>6, <1>7, <1>8

\* The invariant holds in every state of the client, the connections and the
\* service.
THEOREM Invariance == Spec => []ExchangeInv
<1>1. Init => ExchangeInv
  BY InitOK
<1>2. ExchangeInv /\ [Next]_vars => ExchangeInv'
  BY StepOK, StutterOK
<1> QED
  BY <1>1, <1>2, PTL DEF Spec

\* Every variable keeps its type, through faults and restarts of the service.
THEOREM TypeCorrect == Spec => []TypeOK
<1>1. ExchangeInv => TypeOK
  BY DEF ExchangeInv
<1> QED
  BY <1>1, Invariance, PTL

\* What Send returns is true of what handleConn has stored: nothing of a call
\* that was rejected, one copy of a call that was acknowledged, and none of one
\* that was acknowledged as a duplicate of a message that is stored.
THEOREM AnswersAreTrue == Spec => []AnswerIsTrue
<1>1. ExchangeInv => AnswerIsTrue
  <2> SUFFICES ASSUME ExchangeInv, result # None PROVE
        /\ result.kind = "rejected" => Copies(calls) = {}
        /\ result.kind = "ok" /\ Storable =>
             IF result.dup THEN Copies(calls) = {} /\ inbox # <<>>
             ELSE Cardinality(Copies(calls)) = 1
    BY DEF AnswerIsTrue
  <2>1. result.kind # "error" => Holding(result, calls, inbox, Storable)
    BY DEF ExchangeInv, ResultTrue
  <2>2. Copies(calls) = CopiesIn(inbox, calls)
    BY DEF Copies, CopiesIn
  <2>3. Copies(calls) = {} \/ \E i \in Nat : Copies(calls) = {i}
    BY <2>2, TablesOK DEF ExchangeInv, StoredOnce, Tables
  <2>4. Copies(calls) # {} => Cardinality(Copies(calls)) = 1
    BY <2>3, FS_Singleton
  <2> QED
    BY <2>1, <2>2, <2>4 DEF Holding
<1> QED
  BY <1>1, Invariance, PTL

\* Send's result says whether the copies it stored carry the tags, also when
\* the call fell back to a plain frame.
THEOREM TagsAreTrue == Spec => []TaggedIsTrue
<1>1. ExchangeInv => TaggedIsTrue
  <2>1. Copies(calls) = CopiesIn(inbox, calls)
    BY DEF Copies, CopiesIn
  <2> QED
    BY <2>1 DEF ExchangeInv, ResultTrue, Holding, TaggedIsTrue
<1> QED
  BY <1>1, Invariance, PTL

\* A call is stored at most once.  The tagged copies of a message with an ID
\* are one for all calls, and one more for each panic between the save and
\* claim.finish and each restart that lost a stored delivery.
THEOREM StoredAtMostOnce == Spec => []AtMostOnce
<1>1. ExchangeInv => AtMostOnce
  <2> SUFFICES ASSUME ExchangeInv PROVE AtMostOnce
    OBVIOUS
  <2>1. calls \in Nat
    BY TablesOK DEF ExchangeInv, Tables
  <2>2. ASSUME NEW n \in 1 .. calls PROVE Cardinality(Copies(n)) <= 1
    <3>1. Copies(n) = {} \/ \E i \in Nat : Copies(n) = {i}
      BY <2>1 DEF ExchangeInv, StoredOnce, Copies, CopiesIn
    <3>2. Cardinality(Copies(n)) \in {0, 1}
      BY <3>1, FS_Singleton, FS_EmptySet, Zenon
    <3> QED
      BY <3>2
  <2>3. TagsIn(inbox) = {i \in 1 .. Len(inbox) : inbox[i].tagged}
    BY DEF TagsIn
  <2> QED
    BY <2>2, <2>3 DEF AtMostOnce, ExchangeInv, ClaimsCount
<1> QED
  BY <1>1, Invariance, PTL

\* Without faults, and before Stop, Send does not fail for a message whose
\* plain frame fits into MaxFrameSize, even if its tagged frame does not.
THEOREM FitsAlwaysGetsThrough == Spec => []FitsGetsThrough
<1>1. ExchangeInv => FitsGetsThrough
  BY DEF ExchangeInv, Clean, FitsGetsThrough
<1> QED
  BY <1>1, Invariance, PTL
=============================================================================
