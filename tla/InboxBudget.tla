----------------------------- MODULE InboxBudget -----------------------------
(***************************************************************************)
(* The inbox and its two caps: prepareInboxMessage and its commit          *)
(* (service.go), reserveInbox, inboxWriteDone and evictInboxOverflow       *)
(* (inbox_budget.go).                                                      *)
(*                                                                         *)
(* Several connections store messages in one directory.  Admission and     *)
(* eviction hold the budget's mutex, but files are written without it, and *)
(* other processes delete files at any time.  A step is one critical       *)
(* section, one file operation, or one iteration of an eviction loop; the  *)
(* mutex is held across the iterations.                                    *)
(*                                                                         *)
(* The two listings of reserveInbox (the seeding one and the one before an *)
(* eviction) are one: nothing of what is between them can be seen by       *)
(* others, and a deletion between them is as one before them.  File times  *)
(* are distinct.  rollback and inboxFileRemoved have no caller in the      *)
(* service and are left out.                                               *)
(***************************************************************************)
EXTENDS Integers, Sequences, FiniteSets, SequencesExt, Functions

CONSTANTS
    Writers,     \* connections that store messages
    Files,       \* inbox file names (reused once nothing refers to them)
    Sizes,       \* sizes of the messages
    MaxBytes,    \* effectiveInboxMaxBytes; 0: the byte cap is disabled
    MaxFiles,    \* InboxMaxFiles
    Every,       \* inboxEvictCheckEvery
    OldFiles,    \* bound: inbox files that an earlier run of the service left
    OtherSaves,  \* received files and streams take numbers of s.seq too
    Deletions,   \* other processes delete inbox files
    Faults,      \* listing, writing and removing files may fail
    None

ASSUME InboxAssumption ==
    /\ Sizes \subseteq Nat \ {0} /\ MaxBytes \in Nat
    /\ MaxFiles \in Nat \ {0} /\ Every \in Nat \ {0} /\ OldFiles \in Nat
    /\ {OtherSaves, Deletions, Faults} \subseteq BOOLEAN
    /\ None \notin Writers \cup Files

VARIABLES
    disk,      \* the inbox directory: files (name, bytes), oldest first
    known,     \* inboxBudget.known
    onDisk,    \* inboxBudget.onDisk
    pending,   \* inboxBudget.pending
    inflight,  \* inboxBudget.inflight
    lock,      \* the writer that holds inboxBudget.mu between steps
    todo,      \* the files its eviction loop has yet to look at
    rest,      \* the files left for the byte cap after the file cap
    seq,       \* s.seq, modulo Every
    pc,        \* where each writer is
    msg        \* its message: file name, size, number; or None

budget == <<known, onDisk, pending, inflight>>
evict == <<lock, todo, rest>>
vars == <<disk, budget, evict, seq, pc, msg>>

\* The names and the bytes of a list of files.
Names(q) == {q[i].name : i \in 1 .. Len(q)}
Bytes(q) == FoldSeq(LAMBDA f, n : f.bytes + n, 0, q)
Without(q, name) == SelectSeq(q, LAMBDA f : f.name # name)

Init ==
    /\ \E n \in 0 .. OldFiles : disk \in [1 .. n -> [name : Files, bytes : Sizes]]
    /\ \A i, j \in 1 .. Len(disk) : disk[i].name = disk[j].name => i = j
    /\ known = FALSE /\ onDisk = 0 /\ pending = 0 /\ inflight = {}
    /\ lock = None /\ todo = <<>> /\ rest = <<>>
    /\ seq = 0
    /\ pc = [w \in Writers |-> "idle"]
    /\ msg = [w \in Writers |-> None]

-----------------------------------------------------------------------------
(* inboxBudget *)

Size(w) == msg[w].size
To(w, next) == pc' = [pc EXCEPT ![w] = next]

\* Mutant of Settled: a scan lists the files being written too.
SettledAll == disk

\* scanInbox and rescanLocked: the files that are not in flight.
Settled == SelectSeq(disk, LAMBDA f : f.name \notin inflight)

\* Mutant of LowWater: the low-water mark is above the cap.
LowWaterHigh(max) == max + 1

\* inboxLowWater: 90% of the cap, rounded down.
LowWater(max) == (max \div 100) * 90 + ((max % 100) * 90) \div 100

\* The level that the settled files are trimmed to, next to n bytes of
\* writes in progress.
Room(n) == (IF n > LowWater(MaxBytes) THEN MaxBytes ELSE LowWater(MaxBytes)) - n

\* admitLocked
Admit(w) ==
    /\ pending' = pending + Size(w)
    /\ inflight' = inflight \cup {msg[w].name}
    /\ To(w, "write")

\* The message is refused; the sender is told so.
Refuse(w) ==
    /\ pc' = [pc EXCEPT ![w] = "idle"]
    /\ msg' = [msg EXCEPT ![w] = None]

FreshFiles ==
    Files \ (Names(disk) \cup Names(todo) \cup Names(rest)
               \cup {msg[w].name : w \in {v \in Writers : msg[v] # None}})

-----------------------------------------------------------------------------
(* prepareInboxMessage *)

\* The message gets its number and file name.
Prepare(w) ==
    /\ pc[w] = "idle"
    /\ seq' = (seq + 1) % Every
    /\ \E f \in FreshFiles, n \in Sizes :
         msg' = [msg EXCEPT ![w] = [name |-> f, size |-> n, seq |-> seq']]
    /\ To(w, IF MaxBytes = 0 THEN "write" ELSE "reserve")
    /\ UNCHANGED <<disk, budget, evict>>

\* reserveInbox: no eviction could make room for the message.
ReserveRefused(w) ==
    /\ pc[w] = "reserve" /\ lock = None
    /\ Size(w) + pending > MaxBytes
    /\ Refuse(w)
    /\ UNCHANGED <<disk, budget, evict, seq>>

\* Mutant of ReserveFits: forgets the writes in progress.
ReserveFitsAlone(w) ==
    LET total == IF known THEN onDisk ELSE Bytes(Settled) IN
      /\ pc[w] = "reserve" /\ lock = None
      /\ total + Size(w) <= MaxBytes
      /\ known' = TRUE /\ onDisk' = total
      /\ Admit(w)
      /\ UNCHANGED <<disk, evict, seq, msg>>

\* The running total, or the listing that seeds it, leaves room.
ReserveFits(w) ==
    LET total == IF known THEN onDisk ELSE Bytes(Settled) IN
      /\ pc[w] = "reserve" /\ lock = None
      /\ total + pending + Size(w) <= MaxBytes
      /\ known' = TRUE /\ onDisk' = total
      /\ Admit(w)
      /\ UNCHANGED <<disk, evict, seq, msg>>

\* The directory cannot be listed: the message is admitted unchecked.  The
\* seeding listing may have worked.
ReserveUnlisted(w) ==
    /\ Faults
    /\ pc[w] = "reserve" /\ lock = None
    /\ Size(w) + pending <= MaxBytes
    /\ \/ ~known /\ UNCHANGED <<known, onDisk>>
       \/ ~known /\ known' = TRUE /\ onDisk' = Bytes(Settled)
          /\ onDisk' + pending + Size(w) > MaxBytes
       \/ known /\ onDisk + pending + Size(w) > MaxBytes
          /\ UNCHANGED <<known, onDisk>>
    /\ Admit(w)
    /\ UNCHANGED <<disk, evict, seq, msg>>

\* Not enough room by the running total: list the directory; admit if the
\* files left leave room, otherwise evict.
ReserveFull(w) ==
    LET total == IF known THEN onDisk ELSE Bytes(Settled) IN
      /\ pc[w] = "reserve" /\ lock = None
      /\ Size(w) + pending <= MaxBytes
      /\ total + pending + Size(w) > MaxBytes
      /\ known' = TRUE /\ onDisk' = Bytes(Settled)
      /\ IF onDisk' + pending + Size(w) <= MaxBytes
         THEN Admit(w) /\ UNCHANGED evict
         ELSE /\ lock' = w /\ todo' = Settled
              /\ To(w, "evict")
              /\ UNCHANGED <<pending, inflight, rest>>
      /\ UNCHANGED <<disk, seq, msg>>

\* Mutant of RemoveNext: removes the newest file first.
RemoveNextNewest(w) ==
    LET f == todo[Len(todo)] IN
      /\ todo # <<>>
      /\ todo' = SubSeq(todo, 1, Len(todo) - 1)
      /\ disk' = Without(disk, f.name)
      /\ onDisk' = IF f.name \in Names(disk) THEN onDisk - f.bytes ELSE onDisk
      /\ UNCHANGED <<known, pending, inflight, lock, rest, seq, pc, msg>>

\* One iteration of an eviction loop: os.Remove on the oldest file left.  A
\* file that is gone or cannot be removed is skipped and still counted.
RemoveNext(w) ==
    LET f == Head(todo) IN
      /\ todo # <<>>
      /\ todo' = Tail(todo)
      /\ \/ /\ f.name \in Names(disk)
            /\ disk' = Without(disk, f.name)
            /\ onDisk' = onDisk - f.bytes
         \/ /\ f.name \notin Names(disk) \/ Faults
            /\ UNCHANGED <<disk, onDisk>>
      /\ UNCHANGED <<known, pending, inflight, lock, rest, seq, pc, msg>>

\* removeOldestInbox on behalf of reserveInbox.
ReserveEvict(w) ==
    /\ pc[w] = "evict" /\ onDisk > Room(Size(w) + pending)
    /\ RemoveNext(w)

\* Mutant of ReserveEvicted: keeps the mutex when it refuses.
ReserveEvictedLocked(w) ==
    /\ pc[w] = "evict"
    /\ todo = <<>> \/ onDisk <= Room(Size(w) + pending)
    /\ todo' = <<>>
    /\ IF onDisk + pending + Size(w) <= MaxBytes
       THEN Admit(w) /\ lock' = None /\ UNCHANGED msg
       ELSE Refuse(w) /\ UNCHANGED <<pending, inflight, lock>>
    /\ UNCHANGED <<disk, known, onDisk, rest, seq>>

\* The loop ends: the message fits now, or it is refused after all.
ReserveEvicted(w) ==
    /\ pc[w] = "evict"
    /\ todo = <<>> \/ onDisk <= Room(Size(w) + pending)
    /\ lock' = None /\ todo' = <<>>
    /\ IF onDisk + pending + Size(w) <= MaxBytes
       THEN Admit(w) /\ UNCHANGED msg
       ELSE Refuse(w) /\ UNCHANGED <<pending, inflight>>
    /\ UNCHANGED <<disk, known, onDisk, rest, seq>>

-----------------------------------------------------------------------------
(* os.WriteFile, without the mutex, and inboxWriteDone *)

\* The file is created, with part of the message.
Create(w) ==
    /\ pc[w] = "write"
    /\ \E n \in 0 .. Size(w) - 1 :
         disk' = Append(disk, [name |-> msg[w].name, bytes |-> n])
    /\ To(w, "writing")
    /\ UNCHANGED <<budget, evict, seq, msg>>

\* The rest is written; a file that another process has unlinked stays gone.
Complete(w) ==
    /\ pc[w] = "writing"
    /\ disk' = IF msg[w].name \in Names(disk)
               THEN Append(Without(disk, msg[w].name),
                           [name |-> msg[w].name, bytes |-> Size(w)])
               ELSE disk
    /\ To(w, "written")
    /\ UNCHANGED <<budget, evict, seq, msg>>

\* The write fails; what was written of the file stays.
WriteFails(w) ==
    /\ Faults
    /\ pc[w] \in {"write", "writing"}
    /\ To(w, "failed")
    /\ UNCHANGED <<disk, budget, evict, seq, msg>>

\* Mutant of WriteDone: a failed write keeps its reservation.
WriteDoneLeak(w) ==
    /\ pc[w] \in {"written", "failed"} /\ lock = None
    /\ IF MaxBytes > 0 /\ pc[w] = "written"
       THEN /\ inflight' = inflight \ {msg[w].name}
            /\ pending' = pending - Size(w)
            /\ onDisk' = onDisk + Size(w)
       ELSE UNCHANGED <<inflight, pending, onDisk>>
    /\ IF pc[w] = "written" THEN To(w, "commit") /\ UNCHANGED msg ELSE Refuse(w)
    /\ UNCHANGED <<disk, known, evict, seq>>

\* Mutant of WriteDone: the written file is not counted.
WriteDoneUncounted(w) ==
    /\ pc[w] \in {"written", "failed"} /\ lock = None
    /\ inflight' = inflight \ {msg[w].name}
    /\ pending' = IF pending < Size(w) THEN 0 ELSE pending - Size(w)
    /\ IF pc[w] = "written" THEN To(w, "commit") /\ UNCHANGED msg ELSE Refuse(w)
    /\ UNCHANGED <<disk, known, onDisk, evict, seq>>

\* inboxWriteDone, deferred; prepareInboxMessage returns.
WriteDone(w) ==
    /\ pc[w] \in {"written", "failed"} /\ lock = None
    /\ IF MaxBytes > 0
       THEN /\ inflight' = inflight \ {msg[w].name}
            /\ pending' = IF pending < Size(w) THEN 0 ELSE pending - Size(w)
            /\ onDisk' = IF pc[w] = "written" THEN onDisk + Size(w) ELSE onDisk
       ELSE UNCHANGED <<inflight, pending, onDisk>>
    /\ IF pc[w] = "written" THEN To(w, "commit") /\ UNCHANGED msg ELSE Refuse(w)
    /\ UNCHANGED <<disk, known, evict, seq>>

-----------------------------------------------------------------------------
(* commit and evictInboxOverflow *)

CommitOnly(w) ==
    /\ pc[w] = "commit" /\ msg[w].seq # 0
    /\ To(w, "ack")
    /\ UNCHANGED <<disk, budget, evict, seq, msg>>

\* Mutant of Overflow: the pass leaves one file more than the cap.
OverflowOne(w) ==
    LET n == IF Len(Settled) > MaxFiles + 1 THEN Len(Settled) - MaxFiles - 1 ELSE 0 IN
      /\ pc[w] = "commit" /\ msg[w].seq = 0 /\ lock = None
      /\ known' = TRUE /\ onDisk' = Bytes(Settled)
      /\ lock' = w
      /\ todo' = SubSeq(Settled, 1, n)
      /\ rest' = SubSeq(Settled, n + 1, Len(Settled))
      /\ To(w, "count")
      /\ UNCHANGED <<disk, pending, inflight, seq, msg>>

\* evictInboxOverflow lists the directory and finds the files above the cap.
Overflow(w) ==
    LET n == IF Len(Settled) > MaxFiles THEN Len(Settled) - MaxFiles ELSE 0 IN
      /\ pc[w] = "commit" /\ msg[w].seq = 0 /\ lock = None
      /\ known' = TRUE /\ onDisk' = Bytes(Settled)
      /\ lock' = w
      /\ todo' = SubSeq(Settled, 1, n)
      /\ rest' = SubSeq(Settled, n + 1, Len(Settled))
      /\ To(w, "count")
      /\ UNCHANGED <<disk, pending, inflight, seq, msg>>

OverflowUnlisted(w) ==
    /\ Faults
    /\ pc[w] = "commit" /\ msg[w].seq = 0 /\ lock = None
    /\ To(w, "ack")
    /\ UNCHANGED <<disk, budget, evict, seq, msg>>

CountEvict(w) == pc[w] = "count" /\ RemoveNext(w)

\* The file cap holds; is the byte cap exceeded?
CountEvicted(w) ==
    /\ pc[w] = "count" /\ todo = <<>>
    /\ rest' = <<>>
    /\ IF MaxBytes > 0 /\ onDisk + pending > MaxBytes
       THEN todo' = rest /\ To(w, "trim") /\ UNCHANGED lock
       ELSE lock' = None /\ To(w, "ack") /\ UNCHANGED todo
    /\ UNCHANGED <<disk, budget, seq, msg>>

TrimEvict(w) == pc[w] = "trim" /\ onDisk > Room(pending) /\ RemoveNext(w)

TrimEvicted(w) ==
    /\ pc[w] = "trim"
    /\ todo = <<>> \/ onDisk <= Room(pending)
    /\ lock' = None /\ todo' = <<>>
    /\ To(w, "ack")
    /\ UNCHANGED <<disk, budget, rest, seq, msg>>

\* handleConn acknowledges the message.
Ack(w) ==
    /\ pc[w] = "ack"
    /\ Refuse(w)
    /\ UNCHANGED <<disk, budget, evict, seq>>

-----------------------------------------------------------------------------
\* saveReceivedFile and streamNameSuffix number their files from s.seq too.
OtherSave ==
    /\ OtherSaves
    /\ seq' = (seq + 1) % Every
    /\ UNCHANGED <<disk, budget, evict, pc, msg>>

\* Another process (pilotctl inbox --clear, a retention sweep) deletes a file.
Delete ==
    /\ Deletions
    /\ \E f \in Names(disk) : disk' = Without(disk, f)
    /\ UNCHANGED <<budget, evict, seq, pc, msg>>

Reserve(w) ==
    \/ ReserveRefused(w) \/ ReserveFits(w) \/ ReserveUnlisted(w)
    \/ ReserveFull(w) \/ ReserveEvict(w) \/ ReserveEvicted(w)

Write(w) == Create(w) \/ Complete(w) \/ WriteFails(w) \/ WriteDone(w)

Commit(w) ==
    \/ CommitOnly(w) \/ Overflow(w) \/ OverflowUnlisted(w) \/ CountEvict(w)
    \/ CountEvicted(w) \/ TrimEvict(w) \/ TrimEvicted(w)

Handle(w) == Reserve(w) \/ Write(w) \/ Commit(w) \/ Ack(w)

Next ==
    \/ \E w \in Writers : Prepare(w) \/ Handle(w)
    \/ OtherSave
    \/ Delete

Spec == Init /\ [][Next]_vars

\* The handlers are scheduled, and a goroutine that waits for a sync.Mutex
\* is not starved (the mutex is handed over after 1 ms).
FairSpec == Spec /\ \A w \in Writers : SF_vars(Handle(w))

-----------------------------------------------------------------------------
InFlight(w) == pc[w] \in {"write", "writing", "written", "failed"}

\* The bytes that the writers in flight have reserved.
Reserved ==
    LET reserved == {w \in Writers : InFlight(w) /\ MaxBytes > 0}
    IN  SumFunction([w \in reserved |-> Size(w)])

\* Reservations neither leak nor are given back twice: pending is what the
\* writes in progress have reserved and inflight their files, whether they
\* succeed, fail or were admitted unchecked, so refusals do not build up.
PendingExact ==
    /\ pending = Reserved
    /\ MaxBytes > 0 => inflight = {msg[w].name : w \in {v \in Writers : InFlight(v)}}

\* Between scans the running total only drifts upward ("the running total
\* can only drift upward between scans", inbox_budget.go): it is never below
\* the bytes of the settled files, so no message is admitted for room that
\* is not there.
DriftsUpward == known => Bytes(Settled) <= onDisk

\* The byte cap holds on every write: a write never takes the inbox above
\* it, whatever other connections write, evict or delete meanwhile.
CapRespected ==
    [][ Bytes(disk') > Bytes(disk) => Bytes(disk') <= MaxBytes ]_vars

\* An eviction loop never removes the file of a write in flight, whichever
\* connection evicts and however far the write has got ("Files of writes
\* still in flight are never evicted", evictInboxOverflow).
InFlightKept ==
    [][ todo' # todo => \A w \in Writers :
          InFlight(w) => msg[w].name \notin Names(disk) \ Names(disk') ]_vars

\* Eviction is oldest first, though files are written and deleted while the
\* loop works on its listing: no settled file is removed while an older one
\* stays.
OldestFirst ==
    [][ todo' # todo =>
          \A i, j \in 1 .. Len(disk) :
            i < j /\ disk[i].name \notin inflight /\ disk[j].name \notin Names(disk')
              => disk[i].name \notin Names(disk') ]_vars

\* Nothing is evicted for a message that is then refused ("evicting would
\* destroy messages for nothing"): once eviction starts it makes room, unless
\* it meets a file that has gone or cannot be removed, whose bytes stay
\* counted.
EvictionMakesRoom ==
    \A w \in Writers :
      /\ pc[w] = "evict" /\ onDisk = Bytes(todo)
      /\ todo = <<>> \/ onDisk <= Room(Size(w) + pending)
      => onDisk + pending + Size(w) <= MaxBytes

\* When the periodic pass is over, both caps hold for the settled files.
PassEnforcesCaps ==
    [][ \A w \in Writers : pc[w] \in {"count", "trim"} /\ pc'[w] = "ack" =>
          /\ Len(Settled) <= MaxFiles
          /\ MaxBytes > 0 => Bytes(Settled) + pending <= MaxBytes ]_vars

\* Every message is answered: a writer that waits for the mutex gets it, and
\* no eviction, refusal or failure keeps the mutex.
Answered == \A w \in Writers : pc[w] = "reserve" ~> pc[w] = "idle"

\* "eviction never deletes a message that has been admitted and is about to
\* be acknowledged" (inbox_budget.go).
UnacknowledgedKept ==
    [][ todo' # todo =>
          \A w \in Writers : pc[w] \in {"write", "writing", "written", "commit", "ack"} =>
            msg[w].name \notin Names(disk) \ Names(disk') ]_vars

\* "The file-count cap is a soft cap; transient overshoot of up to this many
\* files between checks is acceptable" (inboxEvictCheckEvery, service.go).
SoftFileCap == Len(Settled) <= MaxFiles + Every
=============================================================================
