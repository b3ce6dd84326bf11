------------------------------- MODULE Dedupe -------------------------------
(***************************************************************************)
(* Duplicate suppression on the receive side (dedupe.go) and the part of   *)
(* handleConn (service.go) that uses it.                                   *)
(*                                                                         *)
(* Several connections deliver frames; a frame is represented by its key   *)
(* (the hash of sender, type, names and payload, deliveryKeyFor).  Every   *)
(* critical section of the cache's mutex is one step.  A connection        *)
(* handles one frame at a time and holds at most one claim.  A delivery is *)
(* saved, or fails, or its handler panics before or after the save; a      *)
(* panic releases the claim as not stored (the deferred finish) and ends   *)
(* the connection.  What an ACK says is a function of the frame, so an ACK *)
(* text is represented by the key too.                                     *)
(*                                                                         *)
(* dedupeByID and dedupeByContent are two independent instances of this    *)
(* cache.  The consumed prefix of d.order (d.head and its compaction) is   *)
(* left out: `order' is d.order[d.head:].                                  *)
(***************************************************************************)
EXTENDS Naturals, Sequences, FiniteSets

CONSTANTS
    Conns,       \* connections
    Keys,        \* distinct deliveries
    Entries,     \* *dedupeEntry objects (reused once unreachable)
    Window,      \* d.window
    MaxEntries,  \* d.max
    MaxNow,      \* bound: largest clock value
    MaxStores,   \* bound: stored deliveries, those being handled included
    None         \* nil

ASSUME DedupeAssumption ==
    /\ Window \in Nat /\ MaxEntries \in Nat \ {0}
    /\ MaxNow \in Nat /\ MaxStores \in Nat
    /\ None \notin Entries \cup Keys

VARIABLES
    entries,  \* d.entries: the entry remembered for each key, or None
    order,    \* d.order[d.head:], oldest first
    done,     \* entries whose done channel is closed
    ack,      \* entry.ack
    expires,  \* entry.expires
    now,      \* the clock
    stopped,  \* the service's context has ended
    pc,       \* where each connection's handler is
    key,      \* the key of the frame it handles
    entry,    \* the entry it has claimed or waits for
    hist      \* history: the stored deliveries with their time

cache == <<entries, order, done, ack, expires>>
vars == <<cache, now, stopped, pc, key, entry, hist>>

Ordered == [key : Keys, entry : Entries]
Stored == [key : Keys, at : Nat]

Init ==
    /\ entries = [k \in Keys |-> None]
    /\ order = <<>>
    /\ done = {}
    /\ ack = [e \in Entries |-> None]
    /\ expires = [e \in Entries |-> 0]
    /\ now = 0
    /\ stopped = FALSE
    /\ pc = [c \in Conns |-> "idle"]
    /\ key = [c \in Conns |-> None]
    /\ entry = [c \in Conns |-> None]
    /\ hist = <<>>

-----------------------------------------------------------------------------
(* The cache. *)

\* Objects that can be allocated: nothing refers to them any more.
FreshEntries ==
    Entries \ ( {entries[k] : k \in Keys} \cup {entry[c] : c \in Conns}
                \cup {order[i].entry : i \in 1 .. Len(order)} )

\* The object a &dedupeEntry{} allocates; it does not matter which.
NewEntry == IF FreshEntries = {} THEN {} ELSE {CHOOSE e \in FreshEntries : TRUE}

\* d.order and d.entries after popLocked has run n times on q.
Popped(q, n) == SubSeq(q, n + 1, Len(q))

WithoutPopped(q, n) ==
    [k \in Keys |-> IF \E i \in 1 .. n : q[i].key = k /\ q[i].entry = entries[k]
                    THEN None ELSE entries[k]]

\* expireLocked pops n entries: the leading ones whose time has come.
Expired(n) ==
    /\ \A i \in 1 .. n : expires[order[i].entry] <= now
    /\ n < Len(order) => now < expires[order[n + 1].entry]

-----------------------------------------------------------------------------
(* handleConn *)

\* The frame is dealt with: the claim is cleared (dedupeClaim.finish), the
\* loop goes on or the connection ends.
Return(c) ==
    /\ pc' = [pc EXCEPT ![c] = "idle"]
    /\ key' = [key EXCEPT ![c] = None]
    /\ entry' = [entry EXCEPT ![c] = None]

\* ReadFrame returns a frame that is subject to suppression.
Read(c) ==
    /\ pc[c] = "idle"
    /\ Len(hist) + Cardinality({d \in Conns : pc[d] # "idle"}) < MaxStores
    /\ pc' = [pc EXCEPT ![c] = "begin"]
    /\ \E k \in Keys : key' = [key EXCEPT ![c] = k]
    /\ UNCHANGED <<cache, now, stopped, entry, hist>>

\* Mutant of Begin: does not forget expired deliveries.
BeginNoExpiry(c) ==
    /\ pc[c] = "begin"
    /\ IF entries[key[c]] # None
       THEN /\ entry' = [entry EXCEPT ![c] = entries[key[c]]]
            /\ pc' = [pc EXCEPT ![c] = "wait"]
            /\ UNCHANGED <<entries, done, ack>>
       ELSE \E e \in NewEntry :
              /\ entries' = [entries EXCEPT ![key[c]] = e]
              /\ done' = done \ {e}
              /\ ack' = [ack EXCEPT ![e] = None]
              /\ entry' = [entry EXCEPT ![c] = e]
              /\ pc' = [pc EXCEPT ![c] = "save"]
    /\ UNCHANGED <<order, expires, now, stopped, key, hist>>

\* begin: forget what has expired; wait for the entry of an identical
\* delivery, or create one and process this delivery.
Begin(c) ==
    /\ pc[c] = "begin"
    /\ \E n \in 0 .. Len(order) :
         /\ Expired(n)
         /\ order' = Popped(order, n)
         /\ LET known == WithoutPopped(order, n) IN
              IF known[key[c]] # None
              THEN /\ entries' = known
                   /\ entry' = [entry EXCEPT ![c] = known[key[c]]]
                   /\ pc' = [pc EXCEPT ![c] = "wait"]
                   /\ UNCHANGED <<done, ack>>
              ELSE \E e \in NewEntry :
                     /\ entries' = [known EXCEPT ![key[c]] = e]
                     /\ done' = done \ {e}
                     /\ ack' = [ack EXCEPT ![e] = None]
                     /\ entry' = [entry EXCEPT ![c] = e]
                     /\ pc' = [pc EXCEPT ![c] = "save"]
    /\ UNCHANGED <<expires, now, stopped, key, hist>>

\* Mutant of Check: processes the delivery itself once the first has failed.
CheckTakesOver(c) ==
    /\ pc[c] = "wait"
    /\ entry[c] \in done
    /\ pc' = [pc EXCEPT ![c] = IF entries[key[c]] = entry[c]
                             THEN "duplicate" ELSE "save"]
    /\ UNCHANGED <<cache, now, stopped, key, entry, hist>>

\* The other delivery has finished: a duplicate if it is still remembered,
\* otherwise try again.
Check(c) ==
    /\ pc[c] = "wait"
    /\ entry[c] \in done
    /\ IF entries[key[c]] = entry[c]
       THEN pc' = [pc EXCEPT ![c] = "duplicate"] /\ UNCHANGED entry
       ELSE /\ pc' = [pc EXCEPT ![c] = "begin"]
            /\ entry' = [entry EXCEPT ![c] = None]
    /\ UNCHANGED <<cache, now, stopped, key, hist>>

\* The context ends while waiting: the connection is closed, no ACK.
Cancelled(c) ==
    /\ pc[c] = "wait"
    /\ stopped
    /\ Return(c)
    /\ UNCHANGED <<cache, now, stopped, hist>>

\* The duplicate is acknowledged with the first delivery's text.
AckDuplicate(c) ==
    /\ pc[c] = "duplicate"
    /\ Return(c)
    /\ UNCHANGED <<cache, now, stopped, hist>>

\* The switch on frame.Type: the frame is saved, or its save fails.
Save(c) ==
    /\ pc[c] = "save"
    /\ \E outcome \in {"stored", "failed"} : pc' = [pc EXCEPT ![c] = outcome]
    /\ UNCHANGED <<cache, now, stopped, key, entry, hist>>

\* Mutant of Remember: keeps one entry fewer than the cache holds.
RememberFewer(c) ==
    LET e == entry[c]
        q == Append(order, [key |-> key[c], entry |-> e])
        n == IF Len(q) >= MaxEntries THEN Len(q) - MaxEntries + 1 ELSE 0 IN
      /\ ack' = [ack EXCEPT ![e] = key[c]]
      /\ expires' = [expires EXCEPT ![e] = now + Window]
      /\ order' = Popped(q, n)
      /\ entries' = WithoutPopped(q, n)
      /\ done' = done \cup {e}

\* Mutant of Remember: the entry expires at once.
RememberNoWindow(c) ==
    LET e == entry[c]
        q == Append(order, [key |-> key[c], entry |-> e])
        n == IF Len(q) > MaxEntries THEN Len(q) - MaxEntries ELSE 0 IN
      /\ ack' = [ack EXCEPT ![e] = key[c]]
      /\ expires' = [expires EXCEPT ![e] = now]
      /\ order' = Popped(q, n)
      /\ entries' = WithoutPopped(q, n)
      /\ done' = done \cup {e}

\* Mutant of Remember: the oldest deliveries are never dropped.
RememberAll(c) ==
    LET e == entry[c] IN
      /\ ack' = [ack EXCEPT ![e] = key[c]]
      /\ expires' = [expires EXCEPT ![e] = now + Window]
      /\ order' = Append(order, [key |-> key[c], entry |-> e])
      /\ done' = done \cup {e}
      /\ UNCHANGED entries

\* finish(stored = true): remember the delivery, dropping the oldest ones
\* above the limit.
Remember(c) ==
    LET e == entry[c]
        q == Append(order, [key |-> key[c], entry |-> e])
        n == IF Len(q) > MaxEntries THEN Len(q) - MaxEntries ELSE 0 IN
      /\ ack' = [ack EXCEPT ![e] = key[c]]
      /\ expires' = [expires EXCEPT ![e] = now + Window]
      /\ order' = Popped(q, n)
      /\ entries' = WithoutPopped(q, n)
      /\ done' = done \cup {e}

\* Mutant of Forget: leaves the entry of a failed delivery in the table.
ForgetKept(c) ==
    /\ done' = done \cup {entry[c]}
    /\ UNCHANGED <<entries, order, ack, expires>>

\* Mutant of Forget: does not wake up the deliveries that wait.
ForgetSilent(c) ==
    /\ entries' = IF entries[key[c]] = entry[c]
                  THEN [entries EXCEPT ![key[c]] = None] ELSE entries
    /\ UNCHANGED <<done, order, ack, expires>>

\* finish(stored = false): forget the delivery.
Forget(c) ==
    /\ entries' = IF entries[key[c]] = entry[c]
                  THEN [entries EXCEPT ![key[c]] = None] ELSE entries
    /\ done' = done \cup {entry[c]}
    /\ UNCHANGED <<order, ack, expires>>

FinishStored(c) ==
    /\ pc[c] = "stored"
    /\ Remember(c)
    /\ hist' = Append(hist, [key |-> key[c], at |-> now])
    /\ Return(c)
    /\ UNCHANGED <<now, stopped>>

FinishFailed(c) ==
    /\ pc[c] = "failed"
    /\ Forget(c)
    /\ Return(c)
    /\ UNCHANGED <<now, stopped, hist>>

\* The handler panics while it saves or reports the delivery.
Panic(c) ==
    /\ pc[c] \in {"save", "stored", "failed"}
    /\ Forget(c)
    /\ Return(c)
    /\ UNCHANGED <<now, stopped, hist>>

\* Service.Stop cancels the context; it does not wait for the connections.
Stop ==
    /\ ~stopped
    /\ stopped' = TRUE
    /\ UNCHANGED <<cache, now, pc, key, entry, hist>>

Tick ==
    /\ now < MaxNow
    /\ now' = now + 1
    /\ UNCHANGED <<cache, stopped, pc, key, entry, hist>>

Finish(c) == FinishStored(c) \/ FinishFailed(c) \/ Panic(c)

Handle(c) == Begin(c) \/ Check(c) \/ AckDuplicate(c) \/ Save(c) \/ Finish(c)

Next ==
    \/ \E c \in Conns : Read(c) \/ Handle(c) \/ Cancelled(c)
    \/ Stop
    \/ Tick

Spec == Init /\ [][Next]_vars

\* A connection's goroutine is scheduled as long as it has something to do;
\* frames need not arrive, the service need not stop.
FairSpec == Spec /\ \A c \in Conns : WF_vars(Handle(c))

-----------------------------------------------------------------------------
Working(c) == pc[c] \in {"save", "stored", "failed"}

TypeOK ==
    /\ entries \in [Keys -> Entries \cup {None}]
    /\ order \in Seq(Ordered)
    /\ done \in SUBSET Entries
    /\ ack \in [Entries -> Keys \cup {None}]
    /\ expires \in [Entries -> Nat]
    /\ now \in Nat
    /\ stopped \in BOOLEAN
    /\ pc \in [Conns -> {"idle", "begin", "wait", "duplicate",
                         "save", "stored", "failed"}]
    /\ key \in [Conns -> Keys \cup {None}]
    /\ entry \in [Conns -> Entries \cup {None}]
    /\ hist \in Seq(Stored)
    /\ \A c \in Conns : (key[c] = None) = (pc[c] = "idle")
    /\ \A c \in Conns : (entry[c] = None) = (pc[c] \in {"idle", "begin"})

\* Identical deliveries never race: two handlers that process a delivery
\* process different ones, though entries expire, fail and are evicted while
\* they work ("a concurrent identical delivery ... waits for the first
\* instead of racing it", deliveryDedupe).
NoRace ==
    \A c, d \in Conns : Working(c) /\ Working(d) /\ key[c] = key[d] => c = d

\* A delivery is answered as a duplicate only if an identical one was stored
\* and finished, and the answer is that one's ACK, even if the remembered
\* delivery was forgotten and replaced between the wait and the look-up.
DuplicateWasStored ==
    \A c \in Conns : pc[c] = "duplicate" =>
      /\ ack[entry[c]] = key[c]
      /\ \E i \in 1 .. Len(hist) : hist[i].key = key[c]

\* The latest MaxEntries stored deliveries are remembered for the whole
\* window, however many others are in flight or have failed.
Remembered ==
    \A i \in 1 .. Len(hist) :
      i + MaxEntries > Len(hist) /\ now < hist[i].at + Window =>
        /\ entries[hist[i].key] \in done
        /\ ack[entries[hist[i].key]] = hist[i].key

\* The cache is bounded: the remembered deliveries and one entry for each
\* connection that is processing one.
Bounded ==
    /\ Len(order) <= MaxEntries
    /\ Cardinality({k \in Keys : entries[k] # None})
         <= MaxEntries + Cardinality({c \in Conns : Working(c)})

\* A delivery is not stored again within the window of an identical stored
\* one, unless MaxEntries others were stored since: a lost ACK and a retry on
\* another connection do not duplicate a message.
NotStoredTwice ==
    [][ \A c \in Conns : pc[c] = "begin" /\ pc'[c] = "save" =>
          \A i \in 1 .. Len(hist) :
            hist[i].key = key[c] /\ i + MaxEntries > Len(hist)
              => now >= hist[i].at + Window ]_vars

\* The window also ends: a delivery that repeats a stored one after the
\* window does not wait for it, and so is not answered as its duplicate.
WindowEnds ==
    [][ \A c \in Conns :
          pc[c] = "begin" /\ pc'[c] = "wait" /\ entry'[c] \in done
            => now < expires[entry'[c]] ]_vars

\* No delivery waits for ever: whatever happens to the one it waits for
\* (stored, failed, panicked, evicted), it goes on.
WaitEnds == \A c \in Conns : pc[c] = "wait" ~> pc[c] # "wait"
=============================================================================
