# Verification of dataexchange

TLA+ models of the data exchange service, model-checked with TLC, and
theorems about them checked by TLAPS. Line numbers refer to the files in
`src/`; without a file name they are lines of `filestream.go`.

## The system

Peers connect to a service on one port and send frames. A frame carries a
text, JSON or binary message (kept in the *inbox* directory), a whole file
(kept in the *received* directory), a part of a resumable file stream, or a
trace probe. One goroutine per connection (`handleConn`) reads frames one at
a time, stores them and writes an answer.

| part | state | operations |
|---|---|---|
| stream receiver (423-1187) | per connection: the open transfers; for the process: `activePartials`, which transfer may use which `.partial`; on disk: `.partial` and finished files | `handleInit`, `handleChunk`, `handleDone`, ABORT, `Close` |
| stream sender (219-421) | offset, acknowledged offset, window; a goroutine that reads the answers | `streamSendWithInit`, `streamReadLoop` |
| duplicate suppression (`dedupe.go`) | remembered deliveries, in the order they expire, and those in progress | `claim`, `finish` |
| inbox (`inbox_budget.go`, `service.go` 513-640) | running byte totals, writes in flight; the directory | `reserveInbox`, `inboxWriteDone`, `evictInboxOverflow`, `prepareInboxMessage` |
| received files (`service.go` 440-510) | the directory, its quota, the free disk space | `prepareReceivedFile`, `admit`, `writeAt` |
| service (`service.go`) | context, listener, counter `s.seq` | `Start`, `Stop`, `acceptLoop`, `handleConn` |
| client (`client.go`) | a connection; whether the peer knows tagged frames | `Dial`, `Send`, the `SendText` family, `Recv` |
| frames (`dataexchange.go`, `tagged.go`) | none | encode, decode |
| `server.go`, `service_disabled.go`, `examples/` | none | |

They interact in five places, and that is where the behaviour is hard:

- Connections that receive the *same content* meet on one `.partial`, because
  its name is derived from the content. A retry may take the file of a stalled
  transfer over, while the stalled one still has it open.
- The *sender's two goroutines* share a counter and two channels, and the
  receiver answers frames that nobody may be reading for any more.
- Connections that deliver the *same frame* meet in the duplicate cache: the
  second waits for the first and then goes by how it ended.
- Connections that store *messages* share the inbox budget, those that store
  *files* share the quota and the disk. Files are written outside any mutex, and
  other processes delete files and use the disk at any time.
- A *call* that fails is repeated, on a new connection, to a service that may
  have stored the message, and that stops and restarts meanwhile.

Beside interleavings the code deals with lost answers and retries, receivers
of older versions, process crashes that leave `.partial` files, failing file
operations, caps and windows, and panics in handlers. `PROJECT.json` lists
these hazards at their lines, with the properties that watch them.

## Modules

| module | models |
|---|---|
| `StreamReceiver` | the receive side of streams: any number of connections, one content |
| `StreamSession` | a sender, the connection and the receiver's answers, with retries |
| `Delivery` | what `SendFileStream` promises its caller; implemented by `StreamSession` |
| `ReceivedQuota` | quota and free disk space: several streams and whole files |
| `Dedupe` | the duplicate cache and its use by `handleConn` |
| `InboxBudget` | inbox admission, writing and eviction |
| `Exchange` | `Client.Send` and the service: connections, accept loop, `Stop`, restarts, versions |
| `MC...` | instances for TLC, with symmetry sets where the constants allow it |
| `StreamReceiverProofs`, `StreamReceiverFileProofs` | theorems about `StreamReceiver`: types and claims, files |
| `StreamSessionProofs`, `DedupeProofs` | theorems about `StreamSession` and `Dedupe` |
| `ExchangeCallProofs`, `ExchangeProofs` | theorems about `Exchange`: the life of a call, what was stored |
| `ReceivedQuotaProofs` | theorems about `ReceivedQuota` |
| `SumProofs` | induction over finite sets, and what follows about sums |

A definition whose comment starts with "Mutant of" is a deliberately wrong
variant of the definition that follows it. It is used to see that a property
would catch the mistake and is no part of the specification.

### StreamReceiver

`paths` is `activePartials.paths`, `live` the set of claims whose
`lastWrite` is recent, `dir` and `data` the `.partial` directory and its inodes,
`final` the inodes renamed into the received directory, `tr` each
connection's `recvTransfer`, `pc` and `loc` a handler in progress and its
locals. Paths name inodes because an open descriptor outlives the rename or
removal of its path, which is how a stalled transfer could reach a
delivered file.

A handler is split where it gives up the table's mutex and does something
slow:

- `handleInit`: look at the path (`InitFull`, `InitAgain`, `InitNew`), walk the
  directory (`InitNotAdmitted`), claim (`ClaimPartial`, `InitLostRace`), open
  (`OpenPartial`, `InitFails`), install and truncate (`InitInstall`);
- `handleChunk`: one step for the chunk and the buffered run behind it
  (`ChunkWritten`), with failures in its middle (`ChunkFails`);
  `abandonIfDiskFull` is two more steps (`AbandonRemove`, `AbandonRelease`);
- `handleDone`: one step per read of the verification (`VerifyRead`), then
  `VerifyMatch`, `Rename` and `Commit` with their failures.

`GoesQuiet` is the passing of `staleClaimAfter`; `Crash` is the death of the
process, which only the files survive. The one timing assumption is the
code's own (556-558): a claim that a handler has just refreshed is not stale
before that handler's next file operation.

Data is abstract: a block is good, bad or a hole, and the hash matches when
every block is good and there are `FileLen` of them. Quota and free disk space
are a refusal that may happen at any INIT; `ReceivedQuota` says when.

The code ignores some errors, and the model lets these calls fail: a `Stat`
that fails makes the transfer start over (820), a `Truncate` that fails leaves
the bytes of a file that is too long (822; `uncut` remembers it), and `os.Remove`
may leave a file (607, 796, 1129, and the final file of a failed commit). A
private path that cannot be removed is in the constant `Undeletable`.

### StreamSession and Delivery

`spc` is where `streamSendWithInit` is and `reader` where `streamReadLoop` is;
they share `acked`, `notify` (a channel of capacity 1) and `done`. A step is one
channel operation, one load or store of `acked`, or one frame. `net` and `back` are
the two directions of the connection, `cursor` and `part` the receiver's
transfer and `.partial`. The receiver handles a frame and answers in one step:
what can happen inside its handlers is the subject of `StreamReceiver`. The
connection breaks, timers fire, writes fail, the receiver refuses, the file
changes, shrinks or grows between hashing and sending; each counts against `MaxFaults`. A caller
whose call failed tries again on a new connection, with `Reuse` on the old one.
The receiver may predate streams (`legacy`) and answer with text.

`Delivery` has three actions: the receiver stores the file, at most once per
call; the call reports, and what it reports for certain is true; the next call
begins. `StreamSession` implements it (`KeepsPromise`).

### ReceivedQuota

`tr` holds each stream's budget and cursor, `part` the lengths of the `.partial`
files, `sv` the whole files being written, `final` and `other` the space
that finished files and other programs take. A check looks at the directory
and the disk in one step (`Admit`, `SaveAdmit`); the files then grow block by
block. `overlap`, a history variable, tells whether a check was made while
something else was being received. The disk gate compares unsigned numbers
twice (874), and its subtraction is modulo `Wrap`. A write that fails may leave
its block on disk, and the failures of `Stat`, `Truncate` and `os.Remove` that the
code ignores happen here as well: a `.partial` may then be longer than what the
transfer has written.

### Dedupe

`entries`, `order`, `done`, `ack`, `expires` are the cache's fields; every critical
section is a step. `hist`, a history variable, records the stored deliveries.
A handler saves, fails or panics. A frame is its key, a hash in the code.

### InboxBudget

`known`, `onDisk`, `pending`, `inflight` are the fields of `inboxBudget`; `disk` is
the directory, oldest file first. A step is a critical section, a file
operation, or one iteration of an eviction loop, over which the mutex (`lock`)
is held. `os.WriteFile` is two steps, so that others see the file half
written. `Delete` is another process; `OtherSave` is a received file or stream,
which takes a number of `s.seq`. `Deletions`, `OtherSaves` and `Faults` switch
these on for the runs that need them.

### Exchange

One message, its type, tags and length chosen once, is sent until the
caller is satisfied. `cpc` is where the client is, `hpc` where each connection's
handler is, `loop` and `stop` where `acceptLoop` and `Stop` are. `cache` is what
`Dedupe` promises for the one key: nothing, in flight, or stored. A frame is its
length and whether it is tagged, so that the fall-backs for a receiver that
does not know tags, and for tags that do not fit in a frame, are told apart. An
older receiver is not in the repository; it is modelled from the answers
`client.go` expects of it. `Restart` ends the process and loses the cache. `Stop`
is three steps, the cancelled context, the closed listener and the wait, and the
accept loop runs between them. `forgot`, a history variable, counts how often
the service lost that it had stored a frame with an ID: a restart, or a panic
between the save and `claim.finish`.

## What is checked

| run | instance | result |
|---|---|---|
| `stream_crash` | 2 connections, files of 2 blocks, declared size 1 or 2, one buffered block, crashes, ignored I/O errors | delivered files are intact and final, files have no holes, a holder's path names its open file, claims are neither leaked nor stolen, a failed INIT hands the path back, only a crash or a failing `os.Remove` leaves a private `.partial` |
| `session_retry` | a file of 5 chunks, a window of 3, 3 faults, fair goroutines | the window test never wraps, no wake-up is lost, what is on the way is bounded, what is acknowledged is stored, what the call reports is true (`Delivery`), repeated often enough the file arrives |
| `quota_alone` | 2 streams, 1 whole file, sizes 1 and 2, quota 3, disk 8, reserve 1 | a file received alone keeps quota and reserve; files received together exceed the quota by less than the others' sizes; an admitted stream is not refused half way |
| `dedupe_cache` | 3 connections, 2 keys, a cache of 1, a window of 2, fair handlers | identical deliveries are never stored at once nor twice within the window; a duplicate ACK means that the delivery was stored; the latest deliveries are remembered for exactly the window; the cache is bounded; whoever waits goes on |
| `inbox_cap` | 3 writers, cap of 3 bytes and 1 file, an inbox over its caps at the start, deletions | the byte cap holds; the running total never falls behind the disk; eviction is oldest first and makes the room it is for; a pass enforces both caps |
| `inbox_faults` | 2 writers, fair, I/O errors, other saves | reservations are given back exactly once; writes in flight are spared; every message is answered |
| `exchange_calls` | 2 calls on up to 2 connections, 2 faults, every kind of message at the boundary of `MaxFrameSize`, receivers of three versions | what `Send` returns is true; a call stores its message at most once; repeated calls store one copy with the message's ID, and one more each time the service loses that it has it; a message that fits gets through; `Send` and `Stop` return |

Each property also has a mutant in `PROJECT.json`: the same run with one
definition changed the way a bug would change it, which breaks the property.

### Where the code and its comments differ

Five runs check what a comment says and end in a counterexample.

| run | what happens |
|---|---|
| `stream_orphan` | A crash leaves a private `.partial`; nothing resumes or removes it (459: "removed if it does not finish"). |
| `session_reuse` | After a refusal in the middle of a transfer the connection is left open with answers nobody has read. A second `SendFileStream` on it takes one of them for the answer to its INIT and returns `ErrStreamUnsupported` (195-196). |
| `quota_together` | Files admitted while others are still being written share the same free quota and together exceed it (`service.go` 61-64: "Enforced before every write"). |
| `inbox_unacked` | A stored message is evicted between `inboxWriteDone` and its ACK (`inbox_budget.go` 40-41). |
| `inbox_softcap` | `s.seq` is shared with received files, so messages can miss every multiple of 64 and the file cap is never enforced (`service.go` 134-135). |

Two more differences show when a passing run is given other constants.
`DriftsUpward` holds in `inbox_cap`, which has no I/O errors; after a failed
write the bytes left of the file are counted by nobody (`service.go` 595,
`inbox_budget.go` 26-27: "can only drift upward"). `InFlightKept` holds in
`inbox_faults`, which has a byte cap; with the byte cap off nothing protects a
file being written from the file-count pass (`service.go` 571, `inbox_budget.go`
244-245).

### Bounds

- Claims, inodes, entries and file names are reused once nothing refers to them,
  so behaviours are unbounded although these sets are small. When all of them
  are in use, the step that needs a new one waits; failures stay possible.
- `StreamReceiver`: two blocks are the fewest for which chunks are out of
  order, buffered and drained; two connections give a take-over, and a holder
  beside a private transfer. Of two private names one cannot be removed.
- `StreamSession`: five chunks and a window of three make the sender wait, wake
  up and wait again; three faults are a broken attempt, a broken resumption
  and one more.
- `ReceivedQuota`: the quota is less than the sum of what is sent, and the disk
  can be filled by others; `Wrap` is above every size, so that a difference
  below zero becomes a large number; two streams and a save are the fewest for which
  checks overlap in each of their kinds.
- `Dedupe`: `MaxNow` lets the window of 2 end within a run; `MaxStores` 3
  exceeds the cache of 1 by two, so an entry is pushed out while others are in
  progress.
- `InboxBudget`: three writers give one evicting, one writing and one waiting;
  `Every` 2 triggers the periodic pass on every other message.
- `Exchange`: two connections and two calls are a call and its retry, with the
  first handler still at work; two faults break the first call in the middle
  and the service with it. Lengths are those around `MaxFrameSize`, with and
  without the wrapper.
- `Window`, `MaxEntries`, `MaxBytes` and the like are the code's own limits made
  small; both sides of each are reached.

Deadlock is checked in the stream, quota and inbox runs. It is off for `Dedupe`,
`StreamSession` and `Exchange`, which stop: at the bounds of clock and history, when
the file has arrived, and when the calls are used up.

### Fairness

- `StreamSession`: weak fairness of the sender, its read loop, the receiver, and
  of the caller that closes and retries. No timer and no fault is fair, so
  `Arrives` does not rest on timeouts. That a retry ends depends on
  `MaxFaults`: faults end at some time.
- `Dedupe`: weak fairness of each connection's handler: a runnable goroutine is
  scheduled and a save returns. Arrival of frames, the clock and `Stop` are not
  fair.
- `InboxBudget`: strong fairness of each handler, because `sync.Mutex` hands over
  to a waiter that has been passed over for more than a millisecond. Nothing is
  assumed of other processes.
- `Exchange`: weak fairness of the client's wait, of the accept loop, of `Stop`
  once it was called, of the acceptance of each connection and of each handler. Calls,
  `Start`, calling `Stop` and faults are not fair. `SendReturns` excepts a listener whose
  accept loop has ended by itself: nobody then answers, and the client has no
  deadline.
- `StreamReceiver`, `ReceivedQuota`: none; a peer may always fall silent.

## What is proved

All theorems hold for every set of connections, claims, keys and so on, and for
all sizes, windows and bounds that the modules' assumptions allow.

| theorem | statement |
|---|---|
| `StreamReceiverProofs!TypeCorrect` | `Spec => []TypeOK` |
| `ClaimsCorrect` | `Spec => []ClaimInv` |
| `NoLeakedClaim` | `Spec => []LiveClaimOwned` |
| `LiveHolderKeepsPath` | `Spec => LiveNotTakenOver` |
| `RefusedInitRestores` | `Spec => RefusalRestoresHolder` |
| `FilesCorrect` | `Spec => []IndInv` |
| `DeliveryCorrect` | `Spec => []DeliveredIntact` |
| `PartialsContiguous` | `Spec => []NoHoles` |
| `HolderHasFile` | `Spec => []HolderOwnsFile` |
| `DeliveredForGood` | `Spec => FinalImmutable` |
| `WindowNeverWraps` | `~Reuse /\ Spec => []NoWrap` |
| `WakeupsArrive` | `~Reuse /\ Spec => []NoLostWakeup` |
| `AcknowledgedIsStored` | `~Reuse /\ Spec => []AckedIsStored` |
| `UnsupportedOnlyIfTrue` | `~Reuse /\ Spec => []UnsupportedIsTrue` |
| `PromiseKept` | `~Reuse /\ Spec => KeepsPromise`, the refinement of `Delivery` |
| `DedupeProofs!TypeCorrect` | `Spec => []TypeOK` |
| `IdenticalNeverRace` | `Spec => []NoRace` |
| `DuplicatesWereStored` | `Spec => []DuplicateWasStored` |
| `WindowKept` | `Spec => []Remembered` |
| `NeverStoredTwice` | `Spec => NotStoredTwice` |
| `WindowIsOver` | `Spec => WindowEnds` |
| `ExchangeProofs!TypeCorrect` | `Spec => []TypeOK` |
| `AnswersAreTrue` | `Spec => []AnswerIsTrue` |
| `TagsAreTrue` | `Spec => []TaggedIsTrue` |
| `StoredAtMostOnce` | `Spec => []AtMostOnce` |
| `FitsAlwaysGetsThrough` | `Spec => []FitsGetsThrough` |
| `ReceivedQuotaProofs!TypeCorrect` | `Spec => []TypeOK` |
| `BudgetsSuffice` | `Spec => []BudgetSuffices` |
| `ReserveIsKept` | `Spec => []ReserveKept` |
| `OvershootIsBounded` | `Spec => []OvershootBounded` |
| `QuotaHoldsAlone` | `Spec => QuotaWhenAlone` |

Assumed are only the `ASSUME`s of the modules: sizes are natural numbers, and
`None` is not one of the values it stands beside. `ReceivedQuota` also assumes
that no size, quota or disk reaches `Wrap`, and that there are finitely many streams, whole files and sizes, and at least one
of each: a process has finitely many connections, a size fits in 64 bits, and
`OvershootBounded` speaks of their number and of the largest. Types are proved
and not part of the runs.

*StreamReceiver.* The argument has three layers. *Types*. *Claims*
(`ClaimInv`): a claim has one owner and one path; a claim that was taken over is
quiet, is out of the table and is remembered by a single INIT, so handing it
back cannot dispossess anyone; an INIT past `claimPartial` holds its path; a
private path has one user. *Files* (`FileInv`): distinct paths name distinct
inodes, none of them delivered; and a transfer that may yet act on its
file (`Mine`: it holds the path, or a failing INIT is about to give it back) has
open what the path names, with every acknowledged byte. The second
alternative of `Mine` is what makes it inductive: with "holds the path" alone,
`InitFails` would restore a holder of whose file nothing is known.
`DeliveredIntact` then follows because what was read good during the
verification stays good: only a holder writes, and the verifying
connection is busy verifying.

*StreamSession.* The invariant of `StreamSessionProofs` says what can be on the
way. Of the frames on the way to the receiver an INIT is alone, a
DONE is the last one, and the offsets of the chunks increase, are below what was
sent and not below the receiver's cursor. Answers on the way back acknowledge no
more than the cursor and no more than was sent. So `acked` is bounded by what
was sent even where an ACK overtakes the sender's own update of `offset`, which
gives `NoWrap`. A success on the way back means that the file was stored. A
refusal on the way back means that it was not and will not be: no INIT is on
the way, and the transfer is gone, or the chunk that it needs next has been
consumed, or DONE has; this gives `KeepsPromise`, for which every step is
shown to be a step or a stutter of `Delivery`. With `Reuse` none of this holds:
a connection then carries answers of an earlier call, which is what
`session_reuse` shows.

*Dedupe.* `TableInv` relates the table to the handlers and to the queue: an entry
whose channel is open belongs to one handler, one whose channel is closed is in
the queue, and everything in the queue is still in the table. `TimeInv` says
that the queue is the latest part of what was stored, in order of time, and
that what it lacks has expired or was pushed out. Neither is visible in the
properties, and both are needed: `NoRace` rests on open entries having one
owner, `Remembered` and `NotStoredTwice` on nothing leaving the queue early,
`WindowEnds` on its order, which makes it enough that `expireLocked` looks at the
front.

*Exchange.* The invariant follows a call's frame: it is on its way, or with one
handler, or answered, and no other frame of the call is anywhere (`Slots`,
`Carriers`). Until a handler has saved it there is no copy of it; from then on
its answer, wherever it is, says what was done (`PreparedTrue`, `BackTrue`,
`ResultTrue`). That is what makes the second attempt of `Send` safe: it is made
only after an answer that says the first was not stored. The second half of
`AtMostOnce` needs, besides, that one handler at a time holds the claim of the
message's key and how many copies the cache accounts for (`ClaimsHeld`,
`ClaimsCount`): a claim is given up after its copy was stored only where
`forgot` counts it. A panic before the save gives up a claim without a copy,
and the next call takes it again. The theorem is about the copies that carry
the ID. A frame without it (`Post`, no room for the wrapper, a receiver that
predates tags) is not suppressed, and each call may store one of its own.

*ReceivedQuota.* Sums over the streams and the files are folds of the library,
which pick their elements in an order of their own. `SumProofs` proves, by
induction over finite sets, that the order does not matter and what a change
of one term does; the induction goes over a set of sets and uses that the
order of the natural numbers is well-founded. The invariant `QuotaInv` has three
parts beside types. Each stream's cursor is within its `.partial` and its
declared size, and its budget covers the rest. As long as
nothing overlapped, what a stream has yet to write still fits in the quota and
in the free space above the reserve. And `OvershootBounded` is strengthened from a
bound on the directory to one on what it may become without another check:
every `.partial` that is being received counts with its declared size, every
whole file with its size. The bound on the directory alone is not inductive,
because those that have passed the same check have not written yet.

### Only model-checked

- Liveness (`Arrives`, `WaitEnds`, `Answered`, `SendReturns`, `StopReturns`): outside
  the prover's reach, as is `ENABLED`.
- `InboxBudget`. Its totals are sums over lists that eviction filters
  (`SelectSeq`), and a proof has to follow the order of the list as well.
- `InFlightBounded` (a count of frames in both directions),
  `PrivateNotOrphaned`, and `Bounded`, whose first half, the length of the queue,
  is part of the proved invariant.
- The five counterexamples.

## What is not modelled

- Ignored errors other than the ones above: a directory walk that cannot read
  an entry (1166, `service.go` 462) counts less than there is, which no quota
  property survives; `Close` and `SetReadDeadline` are taken to work. In
  `StreamSession`, whose receiver is one step, `Stat`, `Truncate` and `os.Remove`
  succeed: their failures are in `StreamReceiver` and `ReceivedQuota`.
- Traces in `AnswerIsTrue`: `handleConn` answers a trace with its timing also when
  the message inside it could not be saved, so success is read for what is
  `Storable`.
- A claim that goes stale while a repeated INIT walks the directory (the timing
  assumption above).
- Several transfers on one connection, and the limit of 64 of them: an INIT
  may be refused at any time instead. Out-of-order chunks occur in
  `StreamReceiver`; in `StreamSession`, where the connection keeps the order, they
  only follow a failed write.
- `Client.Send` after a `SendText` whose answer was not read: answers are then one
  call late. A `TypeFile` frame without a name is acknowledged and not stored;
  `Exchange` has it, and its properties are about what can be stored.
- Platforms without a probe for free disk space, where `admit` relies on the
  quota alone; the tables of error numbers in `filestream_disk*.go`.
- A panic after a message was written: `Dedupe` counts a delivery as stored
  when `finish` records it; `Exchange` has such panics, and `forgot` counts them.
- `rollback` and `inboxFileRemoved`, which only tests call; equal file times.
- The bytes of frames: encoding and decoding have no state, and what matters of
  them (length, tags, what is refused) is in `Exchange`.
- The compaction of `d.order`, ACK texts, logging, file naming.
- `server.go` (a stateless loop around a caller's handler),
  `service_disabled.go` (a stub), `examples/`.
