---------------------------- MODULE DedupeProofs ----------------------------
(***************************************************************************)
(* Theorems about Dedupe, for any number of connections, keys and entries, *)
(* every window and every size of the cache.                               *)
(*                                                                         *)
(* The inductive invariant has two parts.  TableInv relates d.entries to   *)
(* the handlers and to d.order: an entry whose channel is open belongs to  *)
(* one handler, one whose channel is closed is in d.order, and everything  *)
(* in d.order is still in the table.  TimeInv relates d.order to what was  *)
(* stored: it is the latest part of that history, in order of time, and    *)
(* what it lacks has expired or was pushed out.                            *)
(***************************************************************************)
EXTENDS Dedupe, TLAPS

(***************************************************************************)
(* What the provers need to know of sequences.                             *)
(***************************************************************************)
LEMMA SeqLen ==
    ASSUME NEW S, NEW s \in Seq(S)
    PROVE  Len(s) \in Nat /\ \A i \in 1 .. Len(s) : s[i] \in S
  OBVIOUS

\* The entries in the queue q are finished, remembered for their keys, and
\* distinct.
Queued(tab, q, dn, ak) ==
    \A i \in 1 .. Len(q) :
      /\ q[i].entry \in dn
      /\ tab[q[i].key] = q[i].entry
      /\ ak[q[i].entry] = q[i].key

Distinct(q) ==
    \A i, j \in 1 .. Len(q) : q[i].entry = q[j].entry => i = j

\* Every finished entry of the table is in the queue.
InQueue(tab, q, dn) ==
    \A k \in Keys : tab[k] \in dn =>
      \E i \in 1 .. Len(q) : q[i].key = k /\ q[i].entry = tab[k]

\* A handler at work has an open entry, in the table under its key.
Owned ==
    \A c \in Conns : Working(c) =>
      entry[c] \notin done /\ entries[key[c]] = entry[c]

OneOwner ==
    \A c, d \in Conns : Working(c) /\ Working(d) /\ entry[c] = entry[d] => c = d

OneKey ==
    \A k, l \in Keys : entries[k] = entries[l] /\ entries[k] # None => k = l

TableInv ==
    /\ Queued(entries, order, done, ack) /\ Distinct(order)
    /\ InQueue(entries, order, done)
    /\ Owned /\ OneOwner /\ OneKey

\* The queue q is the latest part of the history h.
Aligned(q, ex, h) ==
    /\ Len(q) <= Len(h)
    /\ \A i \in 1 .. Len(q) :
         /\ q[i].key = h[Len(h) - Len(q) + i].key
         /\ ex[q[i].entry] = h[Len(h) - Len(q) + i].at + Window

\* What is no longer queued was pushed out or has expired.
Dropped(q, h) ==
    \A i \in 1 .. Len(h) - Len(q) :
      i + MaxEntries <= Len(h) \/ h[i].at + Window <= now

Chronological(h) ==
    \A i, j \in 1 .. Len(h) : i <= j => h[i].at <= h[j].at /\ h[j].at <= now

TimeInv ==
    /\ Aligned(order, expires, hist) /\ Dropped(order, hist)
    /\ Chronological(hist) /\ Len(order) <= MaxEntries

\* A duplicate's entry is finished, so that nothing writes to it any more.
DuplicateDone == \A c \in Conns : pc[c] = "duplicate" => entry[c] \in done

DedupeInv ==
    TypeOK /\ TableInv /\ TimeInv /\ DuplicateDone /\ DuplicateWasStored

-----------------------------------------------------------------------------
(* Helpers *)

\* A new object is one that nothing refers to.
LEMMA NewIsFresh == NewEntry \subseteq FreshEntries
<1>1. ASSUME FreshEntries # {}
      PROVE  (CHOOSE e \in FreshEntries : TRUE) \in FreshEntries
  BY <1>1
<1> QED BY <1>1 DEF NewEntry

\* What is left of a queue after popLocked has run n times.
LEMMA PoppedShape ==
    ASSUME NEW q \in Seq(Ordered), NEW n \in 0 .. Len(q)
    PROVE  /\ Popped(q, n) \in Seq(Ordered)
           /\ Len(Popped(q, n)) = Len(q) - n
           /\ \A i \in 1 .. Len(q) - n : Popped(q, n)[i] = q[n + i]
<1>1. n + 1 \in 1 .. Len(q) + 1 /\ Len(q) \in Nat
  BY SeqLen
<1>2. \A i \in n + 1 .. Len(q) : q[i] \in Ordered
  BY <1>1, SeqLen
<1> QED BY <1>1, <1>2 DEF Popped

LEMMA OrderShape ==
    ASSUME TypeOK
    PROVE  /\ order \in Seq(Ordered) /\ Len(order) \in Nat
           /\ \A i \in 1 .. Len(order) : order[i].key \in Keys /\ order[i].entry \in Entries
<1>1. order \in Seq(Ordered)
  BY DEF TypeOK
<1>2. Len(order) \in Nat /\ \A i \in 1 .. Len(order) : order[i] \in Ordered
  BY <1>1, SeqLen
<1> QED BY <1>1, <1>2 DEF Ordered

LEMMA HistShape ==
    ASSUME TypeOK
    PROVE  /\ hist \in Seq(Stored) /\ Len(hist) \in Nat
           /\ \A i \in 1 .. Len(hist) : hist[i].key \in Keys /\ hist[i].at \in Nat
<1>1. hist \in Seq(Stored)
  BY DEF TypeOK
<1>2. Len(hist) \in Nat /\ \A i \in 1 .. Len(hist) : hist[i] \in Stored
  BY <1>1, SeqLen
<1> QED BY <1>1, <1>2 DEF Stored

LEMMA PopOrder ==
    ASSUME TypeOK, NEW n \in 0 .. Len(order), order' = Popped(order, n)
    PROVE  /\ Len(order') = Len(order) - n /\ order' \in Seq(Ordered)
           /\ \A i \in 1 .. Len(order) - n : order'[i] = order[n + i]
           /\ Len(order) \in Nat
<1>1. order \in Seq(Ordered)
  BY DEF TypeOK
<1> QED BY <1>1, PoppedShape, SeqLen

\* popLocked keeps the table in step with the queue, and never drops an
\* entry whose channel is open.
LEMMA PopKeeps ==
    ASSUME NEW q \in Seq(Ordered), NEW n \in 0 .. Len(q),
           NEW dn \in SUBSET Entries, NEW ak, TypeOK,
           Queued(entries, q, dn, ak), Distinct(q), InQueue(entries, q, dn)
    PROVE  LET w == WithoutPopped(q, n)
               r == Popped(q, n) IN
           /\ w \in [Keys -> Entries \cup {None}]
           /\ \A k \in Keys : w[k] = entries[k] \/ w[k] = None
           /\ \A k \in Keys : entries[k] \notin dn => w[k] = entries[k]
           /\ Queued(w, r, dn, ak) /\ Distinct(r) /\ InQueue(w, r, dn)
<1> DEFINE w == WithoutPopped(q, n)
           r == Popped(q, n)
<1> USE DedupeAssumption
<1>1. /\ Len(r) = Len(q) - n /\ r \in Seq(Ordered)
      /\ \A i \in 1 .. Len(q) - n : r[i] = q[n + i]
  BY PoppedShape
<1>2. Len(q) \in Nat /\ \A i \in 1 .. Len(q) : q[i] \in Ordered
  BY SeqLen
<1>3. \A i \in 1 .. Len(q) : q[i].key \in Keys /\ q[i].entry \in Entries
  BY <1>2 DEF Ordered
<1>4. /\ w = [k \in Keys |-> IF \E i \in 1 .. n : q[i].key = k /\ q[i].entry = entries[k]
                             THEN None ELSE entries[k]]
      /\ entries \in [Keys -> Entries \cup {None}]
  BY DEF WithoutPopped, TypeOK
<1>5. w \in [Keys -> Entries \cup {None}]
  BY <1>4
<1>6. \A k \in Keys : w[k] = entries[k] \/ w[k] = None
  BY <1>4
<1>7. ASSUME NEW k \in Keys, entries[k] \notin dn PROVE w[k] = entries[k]
  <2>1. \A i \in 1 .. n : i \in 1 .. Len(q)
    BY <1>2
  <2>2. ~\E i \in 1 .. n : q[i].key = k /\ q[i].entry = entries[k]
    BY <1>7, <2>1 DEF Queued
  <2> QED BY <2>2, <1>4
<1>8. ASSUME NEW i \in 1 .. Len(r)
      PROVE  /\ r[i].entry \in dn /\ w[r[i].key] = r[i].entry
             /\ ak[r[i].entry] = r[i].key
  <2>1. n + i \in 1 .. Len(q) /\ r[i] = q[n + i]
    BY <1>1, <1>2
  <2>2. /\ r[i].entry \in dn /\ entries[r[i].key] = r[i].entry
        /\ ak[r[i].entry] = r[i].key /\ r[i].key \in Keys
    BY <2>1, <1>3 DEF Queued
  <2>3. ASSUME NEW j \in 1 .. n, q[j].key = r[i].key, q[j].entry = entries[r[i].key]
        PROVE  FALSE
    <3>1. j \in 1 .. Len(q) /\ j # n + i
      BY <1>2, <2>1
    <3>2. q[j].entry = q[n + i].entry
      BY <2>1, <2>2, <2>3
    <3> QED BY <3>1, <3>2, <2>1 DEF Distinct
  <2> QED BY <2>2, <2>3, <1>4
<1>9. Distinct(r)
  <2> SUFFICES ASSUME NEW i \in 1 .. Len(r), NEW j \in 1 .. Len(r), r[i].entry = r[j].entry
               PROVE  i = j
    BY DEF Distinct
  <2>1. n + i \in 1 .. Len(q) /\ r[i] = q[n + i] /\ n + j \in 1 .. Len(q) /\ r[j] = q[n + j]
    BY <1>1, <1>2
  <2>2. n + i = n + j
    BY <2>1 DEF Distinct
  <2> QED BY <2>2, <1>1, <1>2
<1>10. ASSUME NEW k \in Keys, w[k] \in dn
       PROVE  \E i \in 1 .. Len(r) : r[i].key = k /\ r[i].entry = w[k]
  <2>1. w[k] = entries[k] /\ ~\E i \in 1 .. n : q[i].key = k /\ q[i].entry = entries[k]
    BY <1>10, <1>4
  <2>2. PICK j \in 1 .. Len(q) : q[j].key = k /\ q[j].entry = entries[k]
    BY <2>1, <1>10 DEF InQueue
  <2>3. j \notin 1 .. n
    BY <2>1, <2>2
  <2>4. j - n \in 1 .. Len(r) /\ r[j - n] = q[j]
    BY <2>3, <1>1, <1>2
  <2> QED BY <2>1, <2>2, <2>4
<1>11. Queued(w, r, dn, ak) /\ InQueue(w, r, dn)
  <2> HIDE DEF w, r
  <2> QED BY <1>8, <1>10 DEF Queued, InQueue
<1> QED BY <1>5, <1>6, <1>7, <1>9, <1>11

-----------------------------------------------------------------------------
(* Types *)

\* A handler that is past ReadFrame has a key, one past begin an entry.
LEMMA Held ==
    ASSUME TypeOK, NEW c \in Conns
    PROVE  /\ pc[c] # "idle" => key[c] \in Keys
           /\ pc[c] \notin {"idle", "begin"} => entry[c] \in Entries
  BY DedupeAssumption DEF TypeOK

LEMMA WithoutType ==
    ASSUME TypeOK, NEW q, NEW n
    PROVE  WithoutPopped(q, n) \in [Keys -> Entries \cup {None}]
  BY DEF TypeOK, WithoutPopped

\* The queue after a delivery was remembered, before the oldest are dropped.
LEMMA Remembering ==
    ASSUME TypeOK, NEW c \in Conns, pc[c] = "stored",
           NEW q, q = Append(order, [key |-> key[c], entry |-> entry[c]]),
           NEW n, n = IF Len(q) > MaxEntries THEN Len(q) - MaxEntries ELSE 0
    PROVE  /\ q \in Seq(Ordered) /\ n \in 0 .. Len(q)
           /\ Len(q) = Len(order) + 1 /\ Len(order) \in Nat
           /\ \A i \in 1 .. Len(order) : q[i] = order[i]
           /\ q[Len(q)] = [key |-> key[c], entry |-> entry[c]]
<1>1. order \in Seq(Ordered) /\ [key |-> key[c], entry |-> entry[c]] \in Ordered
  BY Held DEF TypeOK, Ordered
<1>2. /\ q \in Seq(Ordered) /\ Len(q) = Len(order) + 1 /\ Len(order) \in Nat
      /\ \A i \in 1 .. Len(order) : q[i] = order[i]
      /\ q[Len(order) + 1] = [key |-> key[c], entry |-> entry[c]]
  BY <1>1, SeqLen
<1> QED BY <1>2, DedupeAssumption

LEMMA TypeReturn ==
    ASSUME TypeOK, NEW c \in Conns, Return(c)
    PROVE  /\ pc' \in [Conns -> {"idle", "begin", "wait", "duplicate",
                                 "save", "stored", "failed"}]
           /\ key' \in [Conns -> Keys \cup {None}]
           /\ entry' \in [Conns -> Entries \cup {None}]
           /\ \A d \in Conns : (key'[d] = None) = (pc'[d] = "idle")
           /\ \A d \in Conns : (entry'[d] = None) = (pc'[d] \in {"idle", "begin"})
  BY DEF TypeOK, Return

LEMMA TypeBegin ==
    ASSUME TypeOK, NEW c \in Conns, Begin(c)
    PROVE  TypeOK'
<1> USE DedupeAssumption
<1>1. PICK n \in 0 .. Len(order) :
        /\ order' = Popped(order, n)
        /\ LET known == WithoutPopped(order, n) IN
             IF known[key[c]] # None
             THEN /\ entries' = known
                  /\ entry' = [entry EXCEPT ![c] = known[key[c]]]
                  /\ pc' = [pc EXCEPT ![c] = "wait"]
                  /\ UNCHANGED <<done, ack>>
             ELSE \E e \in NewEntry :
                    /\ entries' = [known EXCEPT ![key[c]] = e]
                    /\ done' = done \ {e}
                    /\ ack' = [ack EXCEPT ![e] = None]
                    /\ entry' = [entry EXCEPT ![c] = e]
                    /\ pc' = [pc EXCEPT ![c] = "save"]
  BY DEF Begin
<1> DEFINE known == WithoutPopped(order, n)
<1>2. known \in [Keys -> Entries \cup {None}] /\ key[c] \in Keys
  BY WithoutType, Held DEF Begin
<1>3. order' \in Seq(Ordered)
  BY <1>1, PoppedShape DEF TypeOK
<1>4. pc[c] = "begin" /\ UNCHANGED <<expires, now, stopped, key, hist>>
  BY DEF Begin
<1> HIDE DEF known
<1>5. CASE known[key[c]] # None
  <2>1. /\ entries' = known /\ entry' = [entry EXCEPT ![c] = known[key[c]]]
        /\ pc' = [pc EXCEPT ![c] = "wait"] /\ UNCHANGED <<done, ack>>
    BY <1>1, <1>5 DEF known
  <2>2. known[key[c]] \in Entries
    BY <1>2, <1>5
  <2> QED BY <2>1, <2>2, <1>2, <1>3, <1>4 DEF TypeOK
<1>6. CASE known[key[c]] = None
  <2>1. PICK e \in NewEntry :
          /\ entries' = [known EXCEPT ![key[c]] = e] /\ done' = done \ {e}
          /\ ack' = [ack EXCEPT ![e] = None] /\ entry' = [entry EXCEPT ![c] = e]
          /\ pc' = [pc EXCEPT ![c] = "save"]
    BY <1>1, <1>6 DEF known
  <2>2. e \in Entries
    BY NewIsFresh DEF FreshEntries
  <2> QED BY <2>1, <2>2, <1>2, <1>3, <1>4 DEF TypeOK
<1> QED BY <1>5, <1>6

\* Every step keeps the types.
LEMMA TypeStep == TypeOK /\ [Next]_vars => TypeOK'
<1> SUFFICES ASSUME TypeOK, [Next]_vars PROVE TypeOK'
  OBVIOUS
<1> USE DedupeAssumption
<1>1. ASSUME NEW c \in Conns, Read(c) PROVE TypeOK'
  BY <1>1 DEF TypeOK, Read, cache
<1>2. ASSUME NEW c \in Conns, Begin(c) PROVE TypeOK'
  BY <1>2, TypeBegin
<1>3. ASSUME NEW c \in Conns, Check(c) PROVE TypeOK'
  <2>1. UNCHANGED <<entries, order, done, ack, expires, now, stopped, key, hist>>
        /\ key[c] # None
    BY <1>3 DEF Check, cache, TypeOK
  <2>2. CASE /\ pc' = [pc EXCEPT ![c] = "duplicate"] /\ UNCHANGED entry
             /\ pc[c] = "wait"
    BY <2>1, <2>2 DEF TypeOK
  <2>3. CASE /\ pc' = [pc EXCEPT ![c] = "begin"]
             /\ entry' = [entry EXCEPT ![c] = None] /\ pc[c] = "wait"
    BY <2>1, <2>3 DEF TypeOK
  <2> QED BY <1>3, <2>2, <2>3 DEF Check
<1>4. ASSUME NEW c \in Conns, AckDuplicate(c) \/ Cancelled(c) PROVE TypeOK'
  <2>1. Return(c) /\ UNCHANGED <<cache, now, stopped, hist>>
    BY <1>4 DEF AckDuplicate, Cancelled
  <2> QED BY <2>1, TypeReturn DEF TypeOK, cache
<1>5. ASSUME NEW c \in Conns, Save(c) PROVE TypeOK'
  BY <1>5 DEF TypeOK, Save, cache
<1>6. ASSUME NEW c \in Conns, FinishStored(c) PROVE TypeOK'
  <2> DEFINE q == Append(order, [key |-> key[c], entry |-> entry[c]])
             n == IF Len(q) > MaxEntries THEN Len(q) - MaxEntries ELSE 0
  <2>1. pc[c] = "stored" /\ Remember(c) /\ Return(c) /\ UNCHANGED <<now, stopped>>
        /\ hist' = Append(hist, [key |-> key[c], at |-> now])
    BY <1>6 DEF FinishStored
  <2>2. key[c] \in Keys /\ entry[c] \in Entries
    BY <2>1, Held
  <2>3. q \in Seq(Ordered) /\ n \in 0 .. Len(q)
    BY <2>1, Remembering
  <2>4. /\ ack' = [ack EXCEPT ![entry[c]] = key[c]]
        /\ expires' = [expires EXCEPT ![entry[c]] = now + Window]
        /\ order' = Popped(q, n) /\ entries' = WithoutPopped(q, n)
        /\ done' = done \cup {entry[c]}
    BY <2>1 DEF Remember
  <2> HIDE DEF q, n
  <2>5. order' \in Seq(Ordered)
    BY <2>3, <2>4, PoppedShape
  <2>6. entries' \in [Keys -> Entries \cup {None}]
    BY <2>4, WithoutType
  <2>7. [key |-> key[c], at |-> now] \in Stored
    BY <2>2 DEF Stored, TypeOK
  <2>8. hist' \in Seq(Stored)
    BY <2>1, <2>7 DEF TypeOK
  <2>9. ack' \in [Entries -> Keys \cup {None}] /\ expires' \in [Entries -> Nat]
        /\ done' \in SUBSET Entries /\ now' \in Nat
    BY <2>1, <2>2, <2>4 DEF TypeOK
  <2>10. stopped' \in BOOLEAN
    BY <2>1 DEF TypeOK
  <2> QED BY <2>1, <2>5, <2>6, <2>8, <2>9, <2>10, TypeReturn DEF TypeOK
<1>7. ASSUME NEW c \in Conns, FinishFailed(c) \/ Panic(c) PROVE TypeOK'
  <2>1. /\ pc[c] \in {"save", "stored", "failed"} /\ Forget(c) /\ Return(c)
        /\ UNCHANGED <<now, stopped, hist>>
    BY <1>7 DEF FinishFailed, Panic
  <2>2. key[c] \in Keys /\ entry[c] \in Entries
    BY <2>1, Held
  <2>3. entries' \in [Keys -> Entries \cup {None}] /\ done' \in SUBSET Entries
        /\ UNCHANGED <<order, ack, expires>>
    BY <2>1, <2>2 DEF Forget, TypeOK
  <2> QED BY <2>1, <2>3, TypeReturn DEF TypeOK
<1>8. CASE Stop
  BY <1>8 DEF TypeOK, Stop, cache
<1>9. CASE Tick
  BY <1>9 DEF TypeOK, Tick, cache
<1>10. CASE UNCHANGED vars
  BY <1>10 DEF TypeOK, vars, cache
<1> QED
  BY <1>1, <1>2, <1>3, <1>4, <1>5, <1>6, <1>7, <1>8, <1>9, <1>10
  DEF Next, Handle, Finish

-----------------------------------------------------------------------------
(* The table *)

\* A step that leaves the cache alone and starts no work keeps TableInv.
LEMMA QuietTable ==
    ASSUME TableInv, UNCHANGED <<entries, order, done, ack>>,
           \A c \in Conns : Working(c)' =>
             Working(c) /\ key'[c] = key[c] /\ entry'[c] = entry[c]
    PROVE  TableInv'
<1>1. /\ Queued(entries, order, done, ack)' /\ Distinct(order)'
      /\ InQueue(entries, order, done)'
  BY DEF TableInv, Queued, Distinct, InQueue
<1>2. Owned' /\ OneOwner' /\ OneKey'
  BY DEF TableInv, Owned, OneOwner, OneKey
<1> QED BY <1>1, <1>2 DEF TableInv

\* begin finds the key after popLocked has run n times.
LEMMA TableKnown ==
    ASSUME DedupeInv, NEW c \in Conns, pc[c] = "begin",
           NEW n \in 0 .. Len(order),
           order' = Popped(order, n), entries' = WithoutPopped(order, n),
           pc' = [pc EXCEPT ![c] = "wait"],
           \E e \in Entries : entry' = [entry EXCEPT ![c] = e],
           UNCHANGED <<done, ack, key>>
    PROVE  TableInv'
<1>1. TypeOK /\ TableInv
  BY DEF DedupeInv
<1>2. order \in Seq(Ordered) /\ done \in SUBSET Entries
  BY <1>1 DEF TypeOK
<1>3. /\ \A k \in Keys : entries'[k] = entries[k] \/ entries'[k] = None
      /\ \A k \in Keys : entries[k] \notin done => entries'[k] = entries[k]
      /\ Queued(entries', order', done, ack) /\ Distinct(order')
      /\ InQueue(entries', order', done)
  BY <1>1, <1>2, PopKeeps DEF TableInv
<1>4. ASSUME NEW d \in Conns, Working(d)'
      PROVE  /\ d # c /\ Working(d) /\ entry'[d] = entry[d] /\ key'[d] = key[d]
             /\ key[d] \in Keys
  BY <1>1, <1>4, Held DEF Working, TypeOK
<1>5. Owned' /\ OneOwner'
  BY <1>1, <1>3, <1>4 DEF TableInv, Owned, OneOwner
<1>6. OneKey'
  BY <1>1, <1>3 DEF TableInv, OneKey
<1>7. /\ Queued(entries, order, done, ack)' /\ Distinct(order)'
      /\ InQueue(entries, order, done)'
  BY <1>3 DEF Queued, Distinct, InQueue
<1> QED BY <1>5, <1>6, <1>7 DEF TableInv

\* begin creates an entry.
LEMMA TableNew ==
    ASSUME DedupeInv, NEW c \in Conns, pc[c] = "begin",
           NEW n \in 0 .. Len(order), NEW e \in FreshEntries,
           WithoutPopped(order, n)[key[c]] = None,
           order' = Popped(order, n),
           entries' = [WithoutPopped(order, n) EXCEPT ![key[c]] = e],
           done' = done \ {e}, ack' = [ack EXCEPT ![e] = None],
           entry' = [entry EXCEPT ![c] = e],
           pc' = [pc EXCEPT ![c] = "save"], key' = key
    PROVE  TableInv'
<1> DEFINE w == WithoutPopped(order, n)
<1> USE DedupeAssumption
<1>1. TypeOK /\ TableInv
  BY DEF DedupeInv
<1>2. /\ order \in Seq(Ordered) /\ done \in SUBSET Entries /\ key[c] \in Keys
      /\ ack \in [Entries -> Keys \cup {None}]
  BY <1>1, Held DEF TypeOK
<1>3. /\ e \in Entries /\ \A k \in Keys : entries[k] # e
      /\ \A d \in Conns : entry[d] # e
      /\ \A i \in 1 .. Len(order) : order[i].entry # e
  BY DEF FreshEntries
<1>4. /\ Len(order') = Len(order) - n /\ order' \in Seq(Ordered)
      /\ \A i \in 1 .. Len(order) - n : order'[i] = order[n + i]
      /\ Len(order) \in Nat
  BY <1>1, PopOrder
<1>5. /\ w \in [Keys -> Entries \cup {None}]
      /\ \A k \in Keys : w[k] = entries[k] \/ w[k] = None
      /\ \A k \in Keys : entries[k] \notin done => w[k] = entries[k]
      /\ Queued(w, order', done, ack) /\ Distinct(order')
      /\ InQueue(w, order', done)
  BY <1>1, <1>2, PopKeeps DEF TableInv
<1>6. entries' = [w EXCEPT ![key[c]] = e] /\ w[key[c]] = None
  OBVIOUS
<1> HIDE DEF w
<1>7. \A i \in 1 .. Len(order') : order'[i] \in Ordered
  BY <1>4, SeqLen
<1>8. Queued(entries, order, done, ack)'
  <2> SUFFICES ASSUME NEW i \in 1 .. Len(order')
               PROVE  /\ order'[i].entry \in done'
                      /\ entries'[order'[i].key] = order'[i].entry
                      /\ ack'[order'[i].entry] = order'[i].key
    BY DEF Queued
  <2>1. order'[i].entry # e
    <3>1. i \in 1 .. Len(order) - n /\ n + i \in 1 .. Len(order)
      BY <1>4
    <3> QED BY <3>1, <1>3, <1>4
  <2>2. order'[i].key \in Keys /\ order'[i].entry \in Entries
    BY <1>7 DEF Ordered
  <2>3. order'[i].key # key[c]
    BY <1>5, <1>6, <2>2 DEF Queued
  <2> QED BY <1>2, <1>5, <1>6, <2>1, <2>2, <2>3 DEF Queued
<1>9. InQueue(entries, order, done)' /\ Distinct(order)'
  BY <1>2, <1>5, <1>6 DEF InQueue, Distinct
<1>10. ASSUME NEW d \in Conns, d # c, Working(d)'
       PROVE  /\ Working(d) /\ entry'[d] = entry[d] /\ key'[d] = key[d]
              /\ key[d] \in Keys /\ entry[d] \in Entries
  BY <1>1, <1>10, Held DEF Working, TypeOK
<1>11. entry'[c] = e /\ key'[c] = key[c]
  BY <1>1 DEF TypeOK
<1>12. Owned'
  <2>1. entry'[c] \notin done' /\ entries'[key'[c]] = entry'[c]
    BY <1>2, <1>5, <1>6, <1>11
  <2>2. ASSUME NEW d \in Conns, d # c, Working(d)'
        PROVE  entry'[d] \notin done' /\ entries'[key'[d]] = entry'[d]
    <3>1. entry[d] \notin done /\ entries[key[d]] = entry[d]
      BY <1>1, <1>10, <2>2 DEF TableInv, Owned
    <3>2. key[d] \in Keys /\ entry[d] \in Entries /\ entry'[d] = entry[d]
          /\ key'[d] = key[d]
      BY <1>10, <2>2
    <3>3. w[key[d]] = entry[d] /\ key[d] # key[c]
      BY <3>1, <3>2, <1>5, <1>6
    <3> QED BY <3>1, <3>2, <3>3, <1>5, <1>6
  <2> QED BY <2>1, <2>2 DEF Owned
<1>13. OneOwner'
  <2>1. ASSUME NEW d \in Conns, d # c, Working(d)' PROVE entry'[d] # e
    BY <1>3, <1>10, <2>1
  <2>2. ASSUME NEW d \in Conns, NEW b \in Conns, d # c, b # c, Working(d)',
               Working(b)', entry'[d] = entry'[b]
        PROVE  d = b
    BY <1>1, <1>10, <2>2 DEF TableInv, OneOwner
  <2> QED BY <1>11, <2>1, <2>2 DEF OneOwner
<1>14. OneKey'
  BY <1>1, <1>2, <1>3, <1>5, <1>6 DEF TableInv, OneKey
<1> QED BY <1>8, <1>9, <1>12, <1>13, <1>14 DEF TableInv

\* What Return leaves: the other handlers.
LEMMA OthersWork ==
    ASSUME TypeOK, NEW c \in Conns, Return(c), NEW d \in Conns, Working(d)'
    PROVE  /\ d # c /\ Working(d) /\ entry'[d] = entry[d] /\ key'[d] = key[d]
           /\ key[d] \in Keys /\ entry[d] \in Entries
<1>1. d # c
  BY DEF TypeOK, Return, Working
<1> QED BY <1>1, Held DEF TypeOK, Return, Working

\* A handler at work holds an open entry that nobody else works on and that
\* is not queued.
LEMMA OwnEntry ==
    ASSUME DedupeInv, NEW c \in Conns, Working(c)
    PROVE  /\ key[c] \in Keys /\ entry[c] \in Entries
           /\ entry[c] \notin done /\ entries[key[c]] = entry[c]
           /\ \A d \in Conns : Working(d) /\ d # c => entry[d] # entry[c]
           /\ \A k \in Keys : entries[k] = entry[c] => k = key[c]
           /\ \A i \in 1 .. Len(order) : order[i].entry # entry[c]
<1>1. TypeOK /\ TableInv
  BY DEF DedupeInv
<1>2. key[c] \in Keys /\ entry[c] \in Entries
  BY <1>1, Held DEF Working
<1>3. entry[c] \notin done /\ entries[key[c]] = entry[c]
  BY <1>1 DEF TableInv, Owned
<1>4. \A d \in Conns : Working(d) /\ d # c => entry[d] # entry[c]
  BY <1>1 DEF TableInv, OneOwner
<1>5. \A k \in Keys : entries[k] = entry[c] => k = key[c]
  BY <1>1, <1>2, <1>3, DedupeAssumption DEF TableInv, OneKey
<1>6. \A i \in 1 .. Len(order) : order[i].entry # entry[c]
  BY <1>1, <1>3 DEF TableInv, Queued
<1> QED BY <1>2, <1>3, <1>4, <1>5, <1>6

\* finish(stored = true)
LEMMA TableRemember ==
    ASSUME DedupeInv, NEW c \in Conns, pc[c] = "stored", Remember(c), Return(c)
    PROVE  TableInv'
<1> DEFINE q == Append(order, [key |-> key[c], entry |-> entry[c]])
           n == IF Len(q) > MaxEntries THEN Len(q) - MaxEntries ELSE 0
           dn == done \cup {entry[c]}
           ak == [ack EXCEPT ![entry[c]] = key[c]]
<1>1. TypeOK /\ TableInv /\ Working(c)
  BY DEF DedupeInv, Working
<1>2. /\ q \in Seq(Ordered) /\ n \in 0 .. Len(q)
      /\ Len(q) = Len(order) + 1 /\ Len(order) \in Nat
      /\ \A i \in 1 .. Len(order) : q[i] = order[i]
      /\ q[Len(q)] = [key |-> key[c], entry |-> entry[c]]
  BY <1>1, Remembering
<1>3. /\ order' = Popped(q, n) /\ entries' = WithoutPopped(q, n)
      /\ done' = dn /\ ack' = ak
  BY DEF Remember
<1>4. /\ key[c] \in Keys /\ entry[c] \in Entries
      /\ entry[c] \notin done /\ entries[key[c]] = entry[c]
      /\ \A d \in Conns : Working(d) /\ d # c => entry[d] # entry[c]
      /\ \A k \in Keys : entries[k] = entry[c] => k = key[c]
      /\ \A i \in 1 .. Len(order) : order[i].entry # entry[c]
  BY <1>1, OwnEntry
<1>5. dn \in SUBSET Entries /\ \A e \in Entries : e # entry[c] => ak[e] = ack[e]
  BY <1>1, <1>4 DEF TypeOK
<1>6. ak[entry[c]] = key[c]
  BY <1>1, <1>4 DEF TypeOK
<1>7. \A i \in 1 .. Len(q) : i = Len(q) \/ i \in 1 .. Len(order)
  BY <1>2
<1> HIDE DEF q, n, ak
<1>8. /\ q[Len(q)].key = key[c] /\ q[Len(q)].entry = entry[c]
      /\ Len(q) \in 1 .. Len(q)
  BY <1>2
<1>9. Queued(entries, q, dn, ak)
  <2>1. ASSUME NEW i \in 1 .. Len(order)
        PROVE  /\ q[i].entry \in dn /\ entries[q[i].key] = q[i].entry
               /\ ak[q[i].entry] = q[i].key
    <3>1. /\ order[i].entry \in done /\ entries[order[i].key] = order[i].entry
          /\ ack[order[i].entry] = order[i].key
      BY <1>1 DEF TableInv, Queued
    <3>2. order[i].entry # entry[c] /\ order[i].entry \in Entries
      BY <3>1, <1>1, <1>4 DEF TypeOK
    <3>3. ak[order[i].entry] = ack[order[i].entry]
      BY <3>2, <1>5
    <3> QED BY <3>1, <3>3, <1>2
  <2> QED BY <2>1, <1>4, <1>6, <1>7, <1>8 DEF Queued
<1>10. Distinct(q)
  BY <1>1, <1>2, <1>4, <1>7, <1>8 DEF Distinct, TableInv
<1>11. InQueue(entries, q, dn)
  <2> SUFFICES ASSUME NEW k \in Keys, entries[k] \in dn
               PROVE  \E i \in 1 .. Len(q) : q[i].key = k /\ q[i].entry = entries[k]
    BY DEF InQueue
  <2>1. CASE entries[k] = entry[c]
    BY <2>1, <1>4, <1>8
  <2>2. CASE entries[k] \in done
    <3>1. PICK i \in 1 .. Len(order) : order[i].key = k /\ order[i].entry = entries[k]
      BY <2>2, <1>1 DEF TableInv, InQueue
    <3>2. i \in 1 .. Len(q)
      BY <1>2
    <3> QED BY <3>1, <3>2, <1>2
  <2> QED BY <2>1, <2>2
<1> HIDE DEF dn
<1>12. /\ entries' \in [Keys -> Entries \cup {None}]
       /\ \A k \in Keys : entries'[k] = entries[k] \/ entries'[k] = None
       /\ \A k \in Keys : entries[k] \notin dn => entries'[k] = entries[k]
       /\ Queued(entries', order', done', ack') /\ Distinct(order')
       /\ InQueue(entries', order', done')
  BY <1>1, <1>2, <1>3, <1>5, <1>9, <1>10, <1>11, PopKeeps
<1>13. /\ Queued(entries, order, done, ack)' /\ Distinct(order)'
       /\ InQueue(entries, order, done)'
  BY <1>12 DEF Queued, Distinct, InQueue
<1>14. ASSUME NEW d \in Conns, Working(d)'
       PROVE  entry'[d] \notin done' /\ entries'[key'[d]] = entry'[d]
  <2>1. /\ d # c /\ Working(d) /\ entry'[d] = entry[d] /\ key'[d] = key[d]
        /\ key[d] \in Keys
    BY <1>1, <1>14, OthersWork
  <2>2. entry[d] \notin done /\ entries[key[d]] = entry[d] /\ entry[d] # entry[c]
    BY <2>1, <1>1, <1>4 DEF TableInv, Owned
  <2>3. entry[d] \notin dn
    BY <2>2 DEF dn
  <2> QED BY <2>1, <2>2, <2>3, <1>3, <1>12
<1>15. OneOwner'
  BY <1>1, OthersWork DEF TableInv, OneOwner
<1>16. OneKey'
  BY <1>1, <1>12 DEF TableInv, OneKey
<1> QED BY <1>13, <1>14, <1>15, <1>16 DEF TableInv, Owned

\* finish(stored = false)
LEMMA TableForget ==
    ASSUME DedupeInv, NEW c \in Conns, Working(c), Forget(c), Return(c)
    PROVE  TableInv'
<1>1. TypeOK /\ TableInv
  BY DEF DedupeInv
<1>2. /\ key[c] \in Keys /\ entry[c] \in Entries
      /\ entry[c] \notin done /\ entries[key[c]] = entry[c]
      /\ \A d \in Conns : Working(d) /\ d # c => entry[d] # entry[c]
      /\ \A k \in Keys : entries[k] = entry[c] => k = key[c]
      /\ \A i \in 1 .. Len(order) : order[i].entry # entry[c]
  BY OwnEntry
<1>3. /\ entries' = [entries EXCEPT ![key[c]] = None]
      /\ done' = done \cup {entry[c]} /\ UNCHANGED <<order, ack>>
  BY <1>2 DEF Forget
<1>4. /\ entries'[key[c]] = None
      /\ \A k \in Keys : k # key[c] => entries'[k] = entries[k]
      /\ None \notin done'
  BY <1>1, <1>2, <1>3, DedupeAssumption DEF TypeOK
<1>5. order \in Seq(Ordered) /\ \A i \in 1 .. Len(order) : order[i].key \in Keys
  BY <1>1, OrderShape
<1>6. Queued(entries, order, done, ack)' /\ Distinct(order)'
  <2>1. ASSUME NEW i \in 1 .. Len(order)
        PROVE  /\ order[i].entry \in done' /\ entries'[order[i].key] = order[i].entry
               /\ ack[order[i].entry] = order[i].key
    <3>1. /\ order[i].entry \in done /\ entries[order[i].key] = order[i].entry
          /\ ack[order[i].entry] = order[i].key
      BY <1>1 DEF TableInv, Queued
    <3>2. order[i].key # key[c] /\ order[i].key \in Keys
      BY <3>1, <1>2, <1>5
    <3> QED BY <3>1, <3>2, <1>3, <1>4
  <2>2. order' = order /\ ack' = ack
    BY <1>3
  <2>3. Distinct(order)'
    BY <1>1, <2>2 DEF TableInv, Distinct
  <2> QED BY <2>1, <2>2, <2>3 DEF Queued
<1>7. InQueue(entries, order, done)'
  BY <1>1, <1>2, <1>3, <1>4 DEF TableInv, InQueue
<1>8. ASSUME NEW d \in Conns, Working(d)'
      PROVE  entry'[d] \notin done' /\ entries'[key'[d]] = entry'[d]
  <2>1. /\ d # c /\ Working(d) /\ entry'[d] = entry[d] /\ key'[d] = key[d]
        /\ key[d] \in Keys
    BY <1>1, <1>8, OthersWork
  <2>2. entry[d] \notin done /\ entries[key[d]] = entry[d] /\ entry[d] # entry[c]
    BY <2>1, <1>1, <1>2 DEF TableInv, Owned
  <2> QED BY <2>1, <2>2, <1>2, <1>3, <1>4
<1>9. OneOwner'
  BY <1>1, OthersWork DEF TableInv, OneOwner
<1>10. OneKey'
  BY <1>1, <1>4 DEF TableInv, OneKey
<1> QED BY <1>6, <1>7, <1>8, <1>9, <1>10 DEF TableInv, Owned

-----------------------------------------------------------------------------
(* Time *)

\* Popping the oldest keeps the queue the latest part of the history.
LEMMA AlignedPop ==
    ASSUME NEW q \in Seq(Ordered), NEW n \in 0 .. Len(q), NEW ex,
           NEW h \in Seq(Stored), Aligned(q, ex, h)
    PROVE  Aligned(Popped(q, n), ex, h)
<1> DEFINE r == Popped(q, n)
<1>1. /\ Len(r) = Len(q) - n /\ Len(q) \in Nat /\ Len(h) \in Nat
      /\ \A i \in 1 .. Len(q) - n : r[i] = q[n + i]
  BY PoppedShape, SeqLen
<1> HIDE DEF r
<1>2. Len(q) <= Len(h)
  BY DEF Aligned
<1>3. ASSUME NEW i \in 1 .. Len(r)
      PROVE  /\ r[i].key = h[Len(h) - Len(r) + i].key
             /\ ex[r[i].entry] = h[Len(h) - Len(r) + i].at + Window
  <2>1. /\ n + i \in 1 .. Len(q) /\ r[i] = q[n + i]
        /\ Len(h) - Len(q) + (n + i) = Len(h) - Len(r) + i
    BY <1>1
  <2>2. /\ q[n + i].key = h[Len(h) - Len(q) + (n + i)].key
        /\ ex[q[n + i].entry] = h[Len(h) - Len(q) + (n + i)].at + Window
    BY <2>1 DEF Aligned
  <2> QED BY <2>1, <2>2
<1>4. Len(r) <= Len(h)
  BY <1>1, <1>2
<1>5. Aligned(r, ex, h)
  BY <1>3, <1>4 DEF Aligned
<1> QED BY <1>5 DEF r

\* Time passes, the queue and the history stay.
LEMMA QuietTime ==
    ASSUME TypeOK, TimeInv, UNCHANGED <<order, expires, hist>>,
           now' \in Nat, now <= now'
    PROVE  TimeInv'
<1> USE DedupeAssumption
<1>1. hist \in Seq(Stored) /\ now \in Nat /\ order \in Seq(Ordered)
  BY DEF TypeOK
<1>2. Len(hist) \in Nat /\ Len(order) \in Nat
      /\ \A i \in 1 .. Len(hist) : hist[i].at \in Nat
  BY OrderShape, HistShape
<1>3. Aligned(order, expires, hist)' /\ Len(order') <= MaxEntries
  BY DEF TimeInv, Aligned
<1>4. Chronological(hist)'
  BY <1>1, <1>2 DEF TimeInv, Chronological
<1>5. Dropped(order, hist)'
  <2> SUFFICES ASSUME NEW i \in 1 .. Len(hist) - Len(order)
               PROVE  i + MaxEntries <= Len(hist) \/ hist[i].at + Window <= now'
    BY DEF Dropped
  <2>1. i + MaxEntries <= Len(hist) \/ hist[i].at + Window <= now
    BY DEF TimeInv, Dropped
  <2>2. hist[i].at \in Nat
    BY <1>2
  <2> QED BY <1>1, <2>1, <2>2
<1> QED BY <1>3, <1>4, <1>5 DEF TimeInv

\* begin drops what has expired, and nothing else.
LEMMA TimeBegin ==
    ASSUME TypeOK, TimeInv, NEW n \in 0 .. Len(order), Expired(n),
           order' = Popped(order, n), UNCHANGED <<expires, now, hist>>
    PROVE  TimeInv'
<1> USE DedupeAssumption
<1>1. hist \in Seq(Stored) /\ now \in Nat /\ order \in Seq(Ordered)
  BY DEF TypeOK
<1>2. Len(hist) \in Nat /\ Len(order) \in Nat /\ Len(order') = Len(order) - n
  BY <1>1, PopOrder, SeqLen
<1>3. Aligned(order, expires, hist) /\ Dropped(order, hist)
      /\ Len(order) <= MaxEntries
  BY DEF TimeInv
<1>4. Aligned(order, expires, hist)'
  <2>1. Aligned(order', expires, hist)
    BY <1>1, <1>3, AlignedPop
  <2> QED BY <2>1 DEF Aligned
<1>5. Chronological(hist)' /\ Len(order') <= MaxEntries
  BY <1>2 DEF TimeInv, Chronological
<1>6. Dropped(order, hist)'
  <2> SUFFICES ASSUME NEW i \in 1 .. Len(hist) - Len(order')
               PROVE  i + MaxEntries <= Len(hist) \/ hist[i].at + Window <= now
    BY DEF Dropped
  <2>1. CASE i \in 1 .. Len(hist) - Len(order)
    BY <2>1, <1>3 DEF Dropped
  <2>2. CASE i \notin 1 .. Len(hist) - Len(order)
    <3> DEFINE j == i - (Len(hist) - Len(order))
    <3>1. j \in 1 .. n /\ j \in 1 .. Len(order) /\ Len(hist) - Len(order) + j = i
      BY <2>2, <1>2, <1>3 DEF Aligned
    <3> HIDE DEF j
    <3>2. expires[order[j].entry] <= now
      BY <3>1 DEF Expired
    <3>3. expires[order[j].entry] = hist[i].at + Window
      BY <3>1, <1>3 DEF Aligned
    <3> QED BY <3>2, <3>3
  <2> QED BY <2>1, <2>2
<1> QED BY <1>4, <1>5, <1>6 DEF TimeInv

\* An element that leaves the queue because of its size is older than the
\* latest m.
LEMMA PushedOut ==
    ASSUME NEW h \in Nat, NEW o \in Nat, NEW m \in Nat, NEW n \in Nat,
           n = (IF o + 1 > m THEN o + 1 - m ELSE 0),
           NEW i \in 1 .. (h + 1) - (o + 1 - n), i \notin 1 .. h - o
    PROVE  i + m <= h + 1
  OBVIOUS

\* finish(stored = true) appends to the history and to the queue, and pushes
\* out what is older than the latest MaxEntries.
LEMMA TimeRemember ==
    ASSUME DedupeInv, NEW c \in Conns, pc[c] = "stored", Remember(c),
           hist' = Append(hist, [key |-> key[c], at |-> now]), now' = now
    PROVE  TimeInv'
<1> DEFINE q == Append(order, [key |-> key[c], entry |-> entry[c]])
           n == IF Len(q) > MaxEntries THEN Len(q) - MaxEntries ELSE 0
<1>1. TypeOK /\ TableInv /\ TimeInv /\ Working(c)
  BY DEF DedupeInv, Working
<1>2. /\ q \in Seq(Ordered) /\ n \in 0 .. Len(q)
      /\ Len(q) = Len(order) + 1 /\ Len(order) \in Nat
      /\ \A i \in 1 .. Len(order) : q[i] = order[i]
      /\ q[Len(q)] = [key |-> key[c], entry |-> entry[c]]
  BY <1>1, Remembering, Zenon
<1> USE DedupeAssumption
<1>3. order' = Popped(q, n) /\ expires' = [expires EXCEPT ![entry[c]] = now + Window]
  BY DEF Remember
<1>4. /\ key[c] \in Keys /\ entry[c] \in Entries /\ entry[c] \notin done
      /\ \A i \in 1 .. Len(order) : order[i].entry # entry[c]
  BY <1>1, OwnEntry
<1>5. hist \in Seq(Stored) /\ now \in Nat /\ [key |-> key[c], at |-> now] \in Stored
  BY <1>1, <1>4 DEF TypeOK, Stored
<1>6. /\ hist' \in Seq(Stored) /\ Len(hist') = Len(hist) + 1 /\ Len(hist) \in Nat
      /\ \A i \in 1 .. Len(hist) : hist'[i] = hist[i]
      /\ hist'[Len(hist) + 1] = [key |-> key[c], at |-> now]
  BY <1>5, SeqLen
<1>7. /\ Len(order') = Len(q) - n
      /\ n = IF Len(q) > MaxEntries THEN Len(q) - MaxEntries ELSE 0
  BY <1>2, <1>3, PoppedShape
<1>8. expires'[entry[c]] = now + Window
      /\ \A i \in 1 .. Len(order) : expires'[order[i].entry] = expires[order[i].entry]
  BY <1>1, <1>3, <1>4 DEF TypeOK, TableInv, Queued
<1> HIDE DEF q, n
<1>9. /\ Aligned(order, expires, hist) /\ Dropped(order, hist)
      /\ Chronological(hist) /\ Len(order) <= MaxEntries /\ Len(order) <= Len(hist)
  BY <1>1 DEF TimeInv, Aligned
<1>10. Aligned(q, expires', hist')
  <2>1. ASSUME NEW i \in 1 .. Len(order)
        PROVE  /\ q[i].key = hist'[Len(hist') - Len(q) + i].key
               /\ expires'[q[i].entry] = hist'[Len(hist') - Len(q) + i].at + Window
    <3> DEFINE k == Len(hist) - Len(order) + i
    <3>1. /\ Len(order) \in Nat /\ Len(hist) \in Nat /\ Len(order) <= Len(hist)
          /\ Len(q) = Len(order) + 1 /\ Len(hist') = Len(hist) + 1
      BY <1>2, <1>6, <1>9
    <3>2. k \in 1 .. Len(hist)
      BY <3>1
    <3>3. Len(hist') - Len(q) + i = k
      BY <3>1
    <3>4. order[i].key = hist[k].key /\ expires[order[i].entry] = hist[k].at + Window
      BY <1>9 DEF Aligned
    <3> HIDE DEF k
    <3>5. q[i] = order[i] /\ hist'[k] = hist[k]
      BY <1>2, <1>6, <3>2
    <3>6. expires'[order[i].entry] = expires[order[i].entry]
      BY <1>8
    <3> QED BY <3>3, <3>4, <3>5, <3>6
  <2>2. /\ q[Len(q)].key = hist'[Len(hist')].key
        /\ expires'[q[Len(q)].entry] = hist'[Len(hist')].at + Window
    BY <1>2, <1>6, <1>8
  <2>3. /\ Len(q) <= Len(hist') /\ Len(hist') - Len(q) + Len(q) = Len(hist')
        /\ \A i \in 1 .. Len(q) : i = Len(q) \/ i \in 1 .. Len(order)
    BY <1>2, <1>6, <1>9
  <2> QED BY <2>1, <2>2, <2>3 DEF Aligned
<1>11. Aligned(order, expires, hist)'
  <2>1. Aligned(order', expires', hist')
    BY <1>2, <1>3, <1>6, <1>10, AlignedPop
  <2> QED BY <2>1 DEF Aligned
<1>12. Len(order') <= MaxEntries
  BY <1>2, <1>7, <1>9
<1>13. \A i \in 1 .. Len(hist) : hist[i].at \in Nat /\ hist[i].at <= now
  <2>1. \A i \in 1 .. Len(hist) : hist[i].at \in Nat
    BY <1>1, HistShape
  <2>2. ASSUME NEW i \in 1 .. Len(hist) PROVE hist[i].at <= now
    <3>1. i <= i
      OBVIOUS
    <3> QED BY <1>9, <3>1 DEF Chronological
  <2> QED BY <2>1, <2>2
<1>14. Chronological(hist)'
  <2>1. \A i \in 1 .. Len(hist') : i = Len(hist) + 1 \/ i \in 1 .. Len(hist)
    BY <1>6
  <2>2. hist'[Len(hist) + 1].at = now
    BY <1>6
  <2> QED BY <2>1, <2>2, <1>5, <1>6, <1>9, <1>13 DEF Chronological
<1>15. Dropped(order, hist)'
  <2> SUFFICES ASSUME NEW i \in 1 .. Len(hist') - Len(order')
               PROVE  i + MaxEntries <= Len(hist') \/ hist'[i].at + Window <= now
    BY DEF Dropped
  <2>1. CASE i \in 1 .. Len(hist) - Len(order)
    <3>1. i + MaxEntries <= Len(hist) \/ hist[i].at + Window <= now
      BY <2>1, <1>9 DEF Dropped
    <3>2. i \in 1 .. Len(hist) /\ hist'[i] = hist[i]
      BY <2>1, <1>2, <1>6
    <3> QED BY <3>1, <3>2, <1>6
  <2>2. CASE i \notin 1 .. Len(hist) - Len(order)
    <3>1. /\ n \in Nat /\ n = (IF Len(order) + 1 > MaxEntries
                               THEN Len(order) + 1 - MaxEntries ELSE 0)
          /\ i \in 1 .. (Len(hist) + 1) - (Len(order) + 1 - n)
      <4>1. n \in 0 .. Len(order) + 1 /\ Len(order) \in Nat /\ Len(q) = Len(order) + 1
        BY <1>2
      <4>2. n \in Nat
        BY <4>1
      <4>3. n = (IF Len(order) + 1 > MaxEntries
                 THEN Len(order) + 1 - MaxEntries ELSE 0)
        BY <4>1, <1>7
      <4>4. Len(hist') = Len(hist) + 1 /\ Len(order') = Len(order) + 1 - n
        BY <4>1, <1>6, <1>7
      <4>5. i \in 1 .. (Len(hist) + 1) - (Len(order) + 1 - n)
        BY <4>4, Zenon
      <4> QED BY <4>2, <4>3, <4>5, Zenon
    <3>2. i + MaxEntries <= Len(hist) + 1
      BY <3>1, <2>2, <1>2, <1>6, PushedOut
    <3> QED BY <3>2, <1>6
  <2> QED BY <2>1, <2>2
<1> QED BY <1>11, <1>12, <1>14, <1>15 DEF TimeInv

-----------------------------------------------------------------------------
(* Duplicates *)

\* A step that makes no duplicate, and touches no entry one refers to.
LEMMA QuietDuplicates ==
    ASSUME DuplicateDone, DuplicateWasStored,
           \A d \in Conns : pc'[d] = "duplicate" =>
             pc[d] = "duplicate" /\ key'[d] = key[d] /\ entry'[d] = entry[d],
           \A d \in Conns : pc[d] = "duplicate" =>
             entry[d] \in done' /\ ack'[entry[d]] = ack[entry[d]],
           \A i \in 1 .. Len(hist) : i \in 1 .. Len(hist') /\ hist'[i] = hist[i]
    PROVE  DuplicateDone' /\ DuplicateWasStored'
<1>1. DuplicateDone'
  BY DEF DuplicateDone
<1>2. ASSUME NEW c \in Conns, pc'[c] = "duplicate"
      PROVE  /\ ack'[entry'[c]] = key'[c]
             /\ \E i \in 1 .. Len(hist') : hist'[i].key = key'[c]
  <2>1. /\ pc[c] = "duplicate" /\ key'[c] = key[c] /\ entry'[c] = entry[c]
        /\ ack'[entry[c]] = ack[entry[c]]
    BY <1>2
  <2>2. PICK i \in 1 .. Len(hist) : ack[entry[c]] = key[c] /\ hist[i].key = key[c]
    BY <2>1 DEF DuplicateWasStored
  <2>3. i \in 1 .. Len(hist') /\ hist'[i] = hist[i]
    BY <2>2
  <2> QED BY <2>1, <2>2, <2>3
<1> QED BY <1>1, <1>2 DEF DuplicateWasStored

\* A finished entry of the table was stored, with the ACK of its key, and is
\* still in the queue.
LEMMA FinishedWasStored ==
    ASSUME DedupeInv, NEW k \in Keys, entries[k] \in done
    PROVE  /\ ack[entries[k]] = k
           /\ \E i \in 1 .. Len(hist) : hist[i].key = k
<1>1. TypeOK /\ TableInv /\ TimeInv
  BY DEF DedupeInv
<1>2. PICK i \in 1 .. Len(order) : order[i].key = k /\ order[i].entry = entries[k]
  BY <1>1 DEF TableInv, InQueue
<1>3. ack[entries[k]] = k
  BY <1>1, <1>2 DEF TableInv, Queued
<1>4. /\ Len(order) <= Len(hist)
      /\ order[i].key = hist[Len(hist) - Len(order) + i].key
  BY <1>1 DEF TimeInv, Aligned
<1>5. Len(order) \in Nat /\ Len(hist) \in Nat
  BY <1>1, OrderShape, HistShape
<1>6. Len(hist) - Len(order) + i \in 1 .. Len(hist)
  BY <1>4, <1>5
<1> QED BY <1>2, <1>3, <1>4, <1>6

\* A waiting handler's entry is still remembered: it is a duplicate.
LEMMA CheckDuplicate ==
    ASSUME DedupeInv, NEW c \in Conns, Check(c)
    PROVE  DuplicateDone' /\ DuplicateWasStored'
<1>1. TypeOK /\ DuplicateDone /\ DuplicateWasStored
  BY DEF DedupeInv
<1>2. pc[c] = "wait" /\ entry[c] \in done /\ key[c] \in Keys
      /\ UNCHANGED <<done, ack, key, hist>>
  BY <1>1, Held DEF Check, cache
<1>3. CASE /\ entries[key[c]] = entry[c] /\ UNCHANGED entry
           /\ pc' = [pc EXCEPT ![c] = "duplicate"]
  <2>1. ack[entry[c]] = key[c] /\ \E i \in 1 .. Len(hist) : hist[i].key = key[c]
    BY <1>2, <1>3, FinishedWasStored
  <2>2. ASSUME NEW d \in Conns, pc'[d] = "duplicate"
        PROVE  d = c \/ pc[d] = "duplicate"
    BY <1>1, <1>3, <2>2 DEF TypeOK
  <2>3. DuplicateDone'
    BY <1>1, <1>2, <1>3, <2>2 DEF DuplicateDone
  <2> QED BY <1>1, <1>2, <1>3, <2>1, <2>2, <2>3 DEF DuplicateWasStored
<1>4. CASE /\ pc' = [pc EXCEPT ![c] = "begin"]
           /\ entry' = [entry EXCEPT ![c] = None]
  <2>1. \A d \in Conns : pc'[d] = "duplicate" =>
          pc[d] = "duplicate" /\ key'[d] = key[d] /\ entry'[d] = entry[d]
    BY <1>1, <1>2, <1>4 DEF TypeOK
  <2>2. \A d \in Conns : pc[d] = "duplicate" =>
          entry[d] \in done' /\ ack'[entry[d]] = ack[entry[d]]
    BY <1>1, <1>2 DEF DuplicateDone
  <2> QED BY <1>1, <1>2, <2>1, <2>2, QuietDuplicates
<1> QED BY <1>3, <1>4 DEF Check

-----------------------------------------------------------------------------
(* The invariant *)

LEMMA DedupeInit == Init => DedupeInv
<1> SUFFICES ASSUME Init PROVE DedupeInv
  OBVIOUS
<1> USE DedupeAssumption
<1>1. order \in Seq(Ordered) /\ hist \in Seq(Stored) /\ Len(order) = 0 /\ Len(hist) = 0
  BY DEF Init
<1>2. TypeOK
  BY <1>1 DEF Init, TypeOK
<1>3. Queued(entries, order, done, ack) /\ Distinct(order)
  BY <1>1 DEF Queued, Distinct
<1>4. InQueue(entries, order, done) /\ Owned /\ OneOwner /\ OneKey
  BY DEF Init, InQueue, Owned, OneOwner, OneKey, Working
<1>5. TimeInv
  BY <1>1 DEF TimeInv, Aligned, Dropped, Chronological
<1>6. DuplicateDone /\ DuplicateWasStored
  BY DEF Init, DuplicateDone, DuplicateWasStored
<1> QED BY <1>2, <1>3, <1>4, <1>5, <1>6 DEF DedupeInv, TableInv

\* The steps of a handler that leave the cache and the history alone.
LEMMA QuietStep ==
    ASSUME DedupeInv, UNCHANGED <<cache, hist>>, now' \in Nat, now <= now',
           \A c \in Conns : Working(c)' =>
             Working(c) /\ key'[c] = key[c] /\ entry'[c] = entry[c],
           \A d \in Conns : pc'[d] = "duplicate" =>
             pc[d] = "duplicate" /\ key'[d] = key[d] /\ entry'[d] = entry[d]
    PROVE  TableInv' /\ TimeInv' /\ DuplicateDone' /\ DuplicateWasStored'
<1>1. /\ TypeOK /\ TableInv /\ TimeInv /\ DuplicateDone /\ DuplicateWasStored
      /\ UNCHANGED <<entries, order, done, ack, expires, hist>>
  BY DEF DedupeInv, cache
<1>2. TableInv'
  BY <1>1, QuietTable
<1>3. TimeInv'
  BY <1>1, QuietTime
<1>4. \A d \in Conns : pc[d] = "duplicate" =>
        entry[d] \in done' /\ ack'[entry[d]] = ack[entry[d]]
  BY <1>1 DEF DuplicateDone
<1>5. DuplicateDone' /\ DuplicateWasStored'
  BY <1>1, <1>4, QuietDuplicates
<1> QED BY <1>2, <1>3, <1>5

LEMMA BeginStep ==
    ASSUME DedupeInv, NEW c \in Conns, Begin(c)
    PROVE  TableInv' /\ TimeInv' /\ DuplicateDone' /\ DuplicateWasStored'
<1>1. /\ TypeOK /\ TimeInv /\ DuplicateDone /\ DuplicateWasStored
      /\ pc[c] = "begin" /\ UNCHANGED <<expires, now, key, hist>>
  BY DEF DedupeInv, Begin
<1>2. PICK n \in 0 .. Len(order) :
        /\ Expired(n)
        /\ order' = Popped(order, n)
        /\ LET known == WithoutPopped(order, n) IN
             IF known[key[c]] # None
             THEN /\ entries' = known
                  /\ entry' = [entry EXCEPT ![c] = known[key[c]]]
                  /\ pc' = [pc EXCEPT ![c] = "wait"]
                  /\ UNCHANGED <<done, ack>>
             ELSE \E e \in NewEntry :
                    /\ entries' = [known EXCEPT ![key[c]] = e]
                    /\ done' = done \ {e}
                    /\ ack' = [ack EXCEPT ![e] = None]
                    /\ entry' = [entry EXCEPT ![c] = e]
                    /\ pc' = [pc EXCEPT ![c] = "save"]
  BY DEF Begin
<1> DEFINE known == WithoutPopped(order, n)
<1>3. TimeInv'
  BY <1>1, <1>2, TimeBegin
<1>4. key[c] \in Keys /\ known \in [Keys -> Entries \cup {None}]
  BY <1>1, Held, WithoutType
<1> HIDE DEF known
<1>5. CASE known[key[c]] # None
  <2>1. /\ entries' = known /\ entry' = [entry EXCEPT ![c] = known[key[c]]]
        /\ pc' = [pc EXCEPT ![c] = "wait"] /\ UNCHANGED <<done, ack>>
    BY <1>2, <1>5 DEF known
  <2>2. known[key[c]] \in Entries
    BY <1>4, <1>5
  <2>3. TableInv'
    BY <1>1, <1>2, <2>1, <2>2, TableKnown DEF known
  <2>4. \A d \in Conns : pc'[d] = "duplicate" =>
          pc[d] = "duplicate" /\ key'[d] = key[d] /\ entry'[d] = entry[d]
    BY <1>1, <2>1 DEF TypeOK
  <2>5. \A d \in Conns : pc[d] = "duplicate" =>
          entry[d] \in done' /\ ack'[entry[d]] = ack[entry[d]]
    BY <1>1, <2>1 DEF DuplicateDone
  <2> QED BY <1>1, <1>3, <2>3, <2>4, <2>5, QuietDuplicates
<1>6. CASE known[key[c]] = None
  <2>1. PICK e \in NewEntry :
          /\ entries' = [known EXCEPT ![key[c]] = e] /\ done' = done \ {e}
          /\ ack' = [ack EXCEPT ![e] = None] /\ entry' = [entry EXCEPT ![c] = e]
          /\ pc' = [pc EXCEPT ![c] = "save"]
    BY <1>2, <1>6 DEF known
  <2>2. e \in FreshEntries
    BY NewIsFresh
  <2>3. TableInv'
    BY <1>1, <1>2, <1>6, <2>1, <2>2, TableNew DEF known
  <2>4. \A d \in Conns : pc'[d] = "duplicate" =>
          pc[d] = "duplicate" /\ key'[d] = key[d] /\ entry'[d] = entry[d]
    BY <1>1, <2>1 DEF TypeOK
  <2>5. e \in Entries /\ \A d \in Conns : entry[d] # e
    BY <2>2 DEF FreshEntries
  <2>6. \A d \in Conns : pc[d] = "duplicate" =>
          entry[d] \in done' /\ ack'[entry[d]] = ack[entry[d]]
    BY <1>1, <2>1, <2>5 DEF DuplicateDone, TypeOK
  <2> QED BY <1>1, <1>3, <2>3, <2>4, <2>6, QuietDuplicates
<1> QED BY <1>5, <1>6

\* A handler that returns makes no duplicate, and finishing an open entry
\* does not touch one a duplicate refers to.
LEMMA ReturnDuplicates ==
    ASSUME DedupeInv, NEW c \in Conns, Working(c), Return(c),
           done' = done \cup {entry[c]},
           \A e \in Entries : e # entry[c] => ack'[e] = ack[e],
           \A i \in 1 .. Len(hist) : i \in 1 .. Len(hist') /\ hist'[i] = hist[i]
    PROVE  DuplicateDone' /\ DuplicateWasStored'
<1>1. TypeOK /\ DuplicateDone /\ DuplicateWasStored /\ entry[c] \notin done
  BY OwnEntry DEF DedupeInv
<1>2. \A d \in Conns : pc'[d] = "duplicate" =>
        pc[d] = "duplicate" /\ key'[d] = key[d] /\ entry'[d] = entry[d]
  BY <1>1 DEF TypeOK, Return
<1>3. \A d \in Conns : pc[d] = "duplicate" =>
        entry[d] \in done' /\ ack'[entry[d]] = ack[entry[d]]
  BY <1>1 DEF DuplicateDone, TypeOK
<1> QED BY <1>1, <1>2, <1>3, QuietDuplicates

LEMMA RememberStep ==
    ASSUME DedupeInv, NEW c \in Conns, FinishStored(c)
    PROVE  TableInv' /\ TimeInv' /\ DuplicateDone' /\ DuplicateWasStored'
<1>1. /\ pc[c] = "stored" /\ Remember(c) /\ Return(c) /\ now' = now
      /\ hist' = Append(hist, [key |-> key[c], at |-> now])
  BY DEF FinishStored
<1>2. TableInv' /\ TimeInv'
  BY <1>1, TableRemember, TimeRemember
<1>3. TypeOK /\ Working(c) /\ key[c] \in Keys /\ entry[c] \in Entries
  BY <1>1, Held DEF DedupeInv, Working
<1>4. /\ done' = done \cup {entry[c]}
      /\ \A e \in Entries : e # entry[c] => ack'[e] = ack[e]
  BY <1>1, <1>3 DEF Remember, TypeOK
<1>5. [key |-> key[c], at |-> now] \in Stored
  BY <1>3 DEF Stored, TypeOK
<1>6. \A i \in 1 .. Len(hist) : i \in 1 .. Len(hist') /\ hist'[i] = hist[i]
  BY <1>1, <1>3, <1>5, HistShape
<1> QED BY <1>1, <1>2, <1>3, <1>4, <1>6, ReturnDuplicates

LEMMA ForgetStep ==
    ASSUME DedupeInv, NEW c \in Conns, FinishFailed(c) \/ Panic(c)
    PROVE  TableInv' /\ TimeInv' /\ DuplicateDone' /\ DuplicateWasStored'
<1>1. Working(c) /\ Forget(c) /\ Return(c) /\ UNCHANGED <<now, hist>>
  BY DEF FinishFailed, Panic, Working
<1>2. TableInv'
  BY <1>1, TableForget
<1>3. /\ TypeOK /\ TimeInv /\ UNCHANGED <<order, ack, expires>>
      /\ done' = done \cup {entry[c]}
  BY <1>1 DEF DedupeInv, Forget
<1>4. now \in Nat /\ now <= now'
  BY <1>1, <1>3 DEF TypeOK
<1>5. TimeInv'
  BY <1>1, <1>3, <1>4, QuietTime
<1> QED BY <1>1, <1>2, <1>3, <1>5, ReturnDuplicates

\* Every step keeps the invariant.
LEMMA DedupeStep == DedupeInv /\ [Next]_vars => DedupeInv'
<1> SUFFICES ASSUME DedupeInv, [Next]_vars PROVE DedupeInv'
  OBVIOUS
<1>1. TypeOK /\ TypeOK' /\ now \in Nat /\ now' \in Nat
  BY TypeStep DEF DedupeInv, TypeOK
<1> DEFINE Rest == TableInv /\ TimeInv /\ DuplicateDone /\ DuplicateWasStored
<1>2. ASSUME NEW c \in Conns, Read(c) \/ Save(c) PROVE Rest'
  <2>1. UNCHANGED <<cache, hist>> /\ now <= now'
    BY <1>1, <1>2 DEF Read, Save
  <2>2. \A d \in Conns : Working(d)' =>
          Working(d) /\ key'[d] = key[d] /\ entry'[d] = entry[d]
    BY <1>1, <1>2 DEF Read, Save, Working, TypeOK
  <2>3. \A d \in Conns : pc'[d] = "duplicate" =>
          pc[d] = "duplicate" /\ key'[d] = key[d] /\ entry'[d] = entry[d]
    BY <1>1, <1>2 DEF Read, Save, TypeOK
  <2> QED BY <1>1, <2>1, <2>2, <2>3, QuietStep
<1>3. ASSUME NEW c \in Conns, AckDuplicate(c) \/ Cancelled(c) PROVE Rest'
  <2>1. UNCHANGED <<cache, hist>> /\ now <= now' /\ Return(c)
    BY <1>1, <1>3 DEF AckDuplicate, Cancelled
  <2>2. \A d \in Conns : Working(d)' =>
          Working(d) /\ key'[d] = key[d] /\ entry'[d] = entry[d]
    BY <1>1, <2>1, OthersWork
  <2>3. \A d \in Conns : pc'[d] = "duplicate" =>
          pc[d] = "duplicate" /\ key'[d] = key[d] /\ entry'[d] = entry[d]
    BY <1>1, <2>1 DEF Return, TypeOK
  <2> QED BY <1>1, <2>1, <2>2, <2>3, QuietStep
<1>4. ASSUME NEW c \in Conns, Check(c) PROVE Rest'
  <2>1. /\ UNCHANGED <<entries, order, done, ack, expires, hist, key>>
        /\ now <= now' /\ pc[c] = "wait"
    BY <1>1, <1>4 DEF Check, cache
  <2>2. \A d \in Conns : Working(d)' =>
          Working(d) /\ key'[d] = key[d] /\ entry'[d] = entry[d]
    BY <1>1, <1>4, <2>1 DEF Check, Working, TypeOK
  <2>3. TableInv'
    BY <2>1, <2>2, QuietTable DEF DedupeInv
  <2>4. TimeInv'
    BY <1>1, <2>1, QuietTime DEF DedupeInv
  <2> QED BY <1>4, <2>3, <2>4, CheckDuplicate
<1>5. ASSUME Stop \/ Tick \/ UNCHANGED vars PROVE Rest'
  <2>1. UNCHANGED <<cache, hist>> /\ UNCHANGED <<pc, key, entry>> /\ now <= now'
    BY <1>1, <1>5 DEF Stop, Tick, vars, cache
  <2>2. \A d \in Conns : Working(d)' =>
          Working(d) /\ key'[d] = key[d] /\ entry'[d] = entry[d]
    BY <2>1 DEF Working
  <2>3. \A d \in Conns : pc'[d] = "duplicate" =>
          pc[d] = "duplicate" /\ key'[d] = key[d] /\ entry'[d] = entry[d]
    BY <2>1
  <2> QED BY <1>1, <2>1, <2>2, <2>3, QuietStep
<1>6. ASSUME NEW c \in Conns, Begin(c) PROVE Rest'
  BY <1>6, BeginStep
<1>7. ASSUME NEW c \in Conns, FinishStored(c) PROVE Rest'
  BY <1>7, RememberStep
<1>8. ASSUME NEW c \in Conns, FinishFailed(c) \/ Panic(c) PROVE Rest'
  BY <1>8, ForgetStep
<1>9. \/ \E c \in Conns : \/ Read(c) \/ Save(c) \/ AckDuplicate(c) \/ Cancelled(c)
                         \/ Check(c) \/ Begin(c) \/ FinishStored(c)
                         \/ FinishFailed(c) \/ Panic(c)
      \/ Stop \/ Tick \/ UNCHANGED vars
  BY DEF Next, Handle, Finish
<1>10. Rest'
  BY <1>2, <1>3, <1>4, <1>5, <1>6, <1>7, <1>8, <1>9
<1> QED BY <1>1, <1>10 DEF DedupeInv

LEMMA DedupeInductive == Spec => []DedupeInv
  BY DedupeInit, DedupeStep, PTL DEF Spec

-----------------------------------------------------------------------------
(* Theorems *)

\* Every variable keeps its type.
THEOREM TypeCorrect == Spec => []TypeOK
<1>1. DedupeInv => TypeOK
  BY DEF DedupeInv
<1> QED BY <1>1, DedupeInductive, PTL

\* Two handlers never process identical deliveries at the same time.
THEOREM IdenticalNeverRace == Spec => []NoRace
<1>1. DedupeInv => NoRace
  BY DEF DedupeInv, TableInv, Owned, OneOwner, NoRace
<1> QED BY <1>1, DedupeInductive, PTL

\* A delivery answered as a duplicate repeats a stored one, with its ACK.
THEOREM DuplicatesWereStored == Spec => []DuplicateWasStored
<1>1. DedupeInv => DuplicateWasStored
  BY DEF DedupeInv
<1> QED BY <1>1, DedupeInductive, PTL

\* A stored delivery that is in its window, and among the latest MaxEntries,
\* is still in the queue.
LEMMA StillQueued ==
    ASSUME DedupeInv, NEW i \in 1 .. Len(hist), i + MaxEntries > Len(hist),
           now < hist[i].at + Window
    PROVE  \E j \in 1 .. Len(order) :
             /\ order[j].key = hist[i].key
             /\ expires[order[j].entry] = hist[i].at + Window
<1> USE DedupeAssumption
<1>1. TypeOK /\ TimeInv
  BY DEF DedupeInv
<1>2. /\ Len(order) \in Nat /\ Len(hist) \in Nat
      /\ hist[i].at \in Nat /\ now \in Nat
  BY <1>1, OrderShape, HistShape DEF TypeOK
<1>3. Len(order) <= Len(hist) /\ i \notin 1 .. Len(hist) - Len(order)
  <2>1. Len(order) <= Len(hist)
    BY <1>1 DEF TimeInv, Aligned
  <2>2. ~(i + MaxEntries <= Len(hist)) /\ ~(hist[i].at + Window <= now)
    BY <1>2
  <2>3. \A k \in 1 .. Len(hist) - Len(order) :
          k + MaxEntries <= Len(hist) \/ hist[k].at + Window <= now
    BY <1>1 DEF TimeInv, Dropped
  <2> QED BY <2>1, <2>2, <2>3
<1> DEFINE j == i - (Len(hist) - Len(order))
<1>4. j \in 1 .. Len(order) /\ Len(hist) - Len(order) + j = i
  BY <1>2, <1>3
<1> HIDE DEF j
<1>5. /\ order[j].key = hist[Len(hist) - Len(order) + j].key
      /\ expires[order[j].entry] = hist[Len(hist) - Len(order) + j].at + Window
  BY <1>1, <1>4 DEF TimeInv, Aligned
<1> QED BY <1>4, <1>5

\* The latest MaxEntries stored deliveries are remembered for their window.
THEOREM WindowKept == Spec => []Remembered
<1>1. DedupeInv => Remembered
  <2> SUFFICES ASSUME DedupeInv, NEW i \in 1 .. Len(hist),
                      i + MaxEntries > Len(hist), now < hist[i].at + Window
               PROVE  /\ entries[hist[i].key] \in done
                      /\ ack[entries[hist[i].key]] = hist[i].key
    BY DEF Remembered
  <2>1. PICK j \in 1 .. Len(order) : order[j].key = hist[i].key
    BY StillQueued
  <2>2. /\ order[j].entry \in done /\ entries[order[j].key] = order[j].entry
        /\ ack[order[j].entry] = order[j].key
    BY DEF DedupeInv, TableInv, Queued
  <2> QED BY <2>1, <2>2
<1> QED BY <1>1, DedupeInductive, PTL

\* Only begin takes a handler on from where it has read its frame.
LEMMA LeavesBegin ==
    ASSUME TypeOK, [Next]_vars, NEW c \in Conns, pc[c] = "begin",
           pc'[c] \in {"save", "wait"}
    PROVE  Begin(c)
<1>1. ASSUME NEW d \in Conns, d # c, Read(d) \/ Handle(d) \/ Cancelled(d)
      PROVE  pc'[c] = pc[c]
  BY <1>1 DEF Read, Handle, Begin, Check, AckDuplicate, Save, Finish,
     FinishStored, FinishFailed, Panic, Cancelled, Return, TypeOK
<1>2. Stop \/ Tick \/ UNCHANGED vars => pc'[c] = pc[c]
  BY DEF Stop, Tick, vars
<1>3. Read(c) \/ Handle(c) \/ Cancelled(c)
  BY <1>1, <1>2 DEF Next
<1> QED BY <1>3 DEF Read, Handle, Check, AckDuplicate, Save, Finish,
           FinishStored, FinishFailed, Panic, Cancelled

\* A delivery is not stored again within the window of an identical one that
\* is among the latest MaxEntries.
THEOREM NeverStoredTwice == Spec => NotStoredTwice
<1>1. ASSUME DedupeInv, DedupeInv', [Next]_vars, NEW c \in Conns,
             pc[c] = "begin", pc'[c] = "save", NEW i \in 1 .. Len(hist),
             hist[i].key = key[c], i + MaxEntries > Len(hist),
             now < hist[i].at + Window
      PROVE  FALSE
  <2>1. TypeOK /\ TableInv /\ key[c] \in Keys
    BY <1>1, Held DEF DedupeInv
  <2>2. Begin(c)
    BY <1>1, <2>1, LeavesBegin
  <2>3. PICK n \in 0 .. Len(order) :
          Expired(n) /\ (WithoutPopped(order, n)[key[c]] # None =>
                           pc' = [pc EXCEPT ![c] = "wait"])
    BY <2>2 DEF Begin
  <2>4. WithoutPopped(order, n)[key[c]] = None
    BY <1>1, <2>1, <2>3 DEF TypeOK
  <2>5. PICK j \in 1 .. Len(order) :
          order[j].key = key[c] /\ expires[order[j].entry] = hist[i].at + Window
    BY <1>1, StillQueued
  <2>6. entries[key[c]] = order[j].entry /\ order[j].entry \in Entries
    BY <2>1, <2>5, OrderShape DEF TableInv, Queued
  <2>7. PICK m \in 1 .. n : order[m].key = key[c] /\ order[m].entry = order[j].entry
    BY <2>1, <2>4, <2>6, DedupeAssumption DEF WithoutPopped
  <2>8. expires[order[m].entry] <= now
    BY <2>3, <2>7 DEF Expired
  <2>9. now \in Nat /\ hist[i].at \in Nat
    BY <2>1, <1>1, HistShape DEF TypeOK
  <2>10. hist[i].at + Window <= now
    BY <2>5, <2>7, <2>8
  <2>11. Window \in Nat
    BY DedupeAssumption
  <2> QED BY <1>1, <2>9, <2>10, <2>11
<1>2. ASSUME DedupeInv PROVE \A i \in 1 .. Len(hist) : hist[i].at + Window \in Nat /\ now \in Nat
  <2>1. TypeOK /\ now \in Nat
    BY <1>2 DEF DedupeInv, TypeOK
  <2>2. \A i \in 1 .. Len(hist) : hist[i].at \in Nat
    BY <2>1, HistShape
  <2> QED BY <2>1, <2>2, DedupeAssumption
<1>3. DedupeInv /\ DedupeInv' /\ [Next]_vars =>
        [\A c \in Conns : pc[c] = "begin" /\ pc'[c] = "save" =>
           \A i \in 1 .. Len(hist) :
             hist[i].key = key[c] /\ i + MaxEntries > Len(hist)
               => now >= hist[i].at + Window]_vars
  BY <1>1, <1>2
<1> QED BY <1>3, DedupeInductive, PTL DEF Spec, NotStoredTwice

\* A delivery that comes after the window does not wait for the old one.
THEOREM WindowIsOver == Spec => WindowEnds
<1>1. ASSUME DedupeInv, [Next]_vars, NEW c \in Conns,
             pc[c] = "begin", pc'[c] = "wait", entry'[c] \in done
      PROVE  now < expires[entry'[c]]
  <2>1. TypeOK /\ TableInv /\ TimeInv /\ key[c] \in Keys
    BY <1>1, Held DEF DedupeInv
  <2>2. Begin(c)
    BY <1>1, <2>1, LeavesBegin
  <2>3. PICK n \in 0 .. Len(order) :
          /\ Expired(n) /\ order' = Popped(order, n)
          /\ \/ entry' = [entry EXCEPT ![c] = WithoutPopped(order, n)[key[c]]]
             \/ pc' = [pc EXCEPT ![c] = "save"]
    BY <2>2 DEF Begin
  <2>4. entry'[c] = WithoutPopped(order, n)[key[c]]
    BY <1>1, <2>1, <2>3 DEF TypeOK
  <2>5. InQueue(WithoutPopped(order, n), order', done)
    <3>1. /\ order \in Seq(Ordered) /\ done \in SUBSET Entries
          /\ Queued(entries, order, done, ack) /\ Distinct(order)
          /\ InQueue(entries, order, done)
      BY <2>1 DEF TableInv, TypeOK
    <3> QED BY <2>1, <2>3, <3>1, PopKeeps
  <2>6. PICK i \in 1 .. Len(order') : order'[i].entry = entry'[c]
    BY <1>1, <2>1, <2>4, <2>5 DEF InQueue
  <2>7. /\ Len(order') = Len(order) - n /\ Len(order) \in Nat
        /\ \A j \in 1 .. Len(order) - n : order'[j] = order[n + j]
    BY <2>1, <2>3, PopOrder
  <2>8. n + i \in 1 .. Len(order) /\ n + 1 \in 1 .. Len(order)
        /\ order[n + i].entry = entry'[c] /\ n < Len(order)
    BY <2>6, <2>7
  <2>9. now < expires[order[n + 1].entry]
    BY <2>3, <2>8 DEF Expired
  <2> DEFINE s == Len(hist) - Len(order)
  <2>10. Len(hist) \in Nat /\ Len(order) <= Len(hist) /\ now \in Nat
    BY <2>1, HistShape DEF TimeInv, Aligned, TypeOK
  <2>11. /\ expires[order[n + 1].entry] = hist[s + (n + 1)].at + Window
         /\ expires[order[n + i].entry] = hist[s + (n + i)].at + Window
    BY <2>1, <2>8 DEF TimeInv, Aligned
  <2>12. /\ s + (n + 1) \in 1 .. Len(hist) /\ s + (n + i) \in 1 .. Len(hist)
         /\ s + (n + 1) <= s + (n + i)
    BY <2>7, <2>8, <2>10
  <2> HIDE DEF s
  <2>13. hist[s + (n + 1)].at <= hist[s + (n + i)].at
    BY <2>1, <2>12 DEF TimeInv, Chronological
  <2>14. hist[s + (n + 1)].at \in Nat /\ hist[s + (n + i)].at \in Nat
    BY <2>1, <2>12, HistShape
  <2>15. Window \in Nat /\ now < hist[s + (n + 1)].at + Window
    BY <2>9, <2>11, DedupeAssumption
  <2>16. now < hist[s + (n + i)].at + Window
    <3>1. \A a, b, w, t \in Nat : a <= b /\ t < a + w => t < b + w
      OBVIOUS
    <3> QED BY <3>1, <2>10, <2>13, <2>14, <2>15
  <2> QED BY <2>8, <2>11, <2>16
<1>2. DedupeInv /\ [Next]_vars =>
        [\A c \in Conns :
           pc[c] = "begin" /\ pc'[c] = "wait" /\ entry'[c] \in done
             => now < expires[entry'[c]]]_vars
  BY <1>1
<1> QED BY <1>2, DedupeInductive, PTL DEF Spec, WindowEnds
=============================================================================
