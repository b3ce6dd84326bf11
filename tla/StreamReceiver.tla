--------------------------- MODULE StreamReceiver ---------------------------
(***************************************************************************)
(* The receive side of TypeFileStream (filestream.go): several             *)
(* connections, each with its own StreamReceiver, receive the SAME content *)
(* (one transfer id) into one directory.                                   *)
(*                                                                         *)
(* A .partial is named after the content, so the connections meet on one   *)
(* path.  activePartials.paths says which transfer may use it; a claim     *)
(* whose holder has been quiet for staleClaimAfter may be taken over.      *)
(* Each connection handles one frame at a time (service.go, handleConn),   *)
(* so its handlers are sequential and the interleaving is across           *)
(* connections.  A handler is split where it lets go of activePartials and *)
(* does something slow: between partialHeld and claimPartial (admit walks  *)
(* the directory), around OpenFile, between the reads of the verification, *)
(* around onPrepare and onCommit, and inside abandonIfDiskFull.            *)
(*                                                                         *)
(* Data: a file is a sequence of blocks, each "good" (the byte range the   *)
(* content's hash stands for), "bad" or a "hole" never written; a CHUNK    *)
(* carries one block.  Paths name inodes, as a stalled transfer's open     *)
(* descriptor outlives the rename or removal of its path.  Response frames *)
(* are left out, so a frame that is only answered (a CHUNK or DONE with no *)
(* transfer, a CHUNK past the declared size or already written) is a       *)
(* stuttering step.                                                        *)
(*                                                                         *)
(* Time: `live' is the set of claims whose lastWrite is recent.  The code  *)
(* relies on one timing fact (filestream.go:556-558): a claim refreshed by *)
(* a handler is not stale before that handler's next file operation.  So a *)
(* check and the operation right after it are one step, and GoesQuiet does *)
(* not hit a claim that a handleInit in progress has just taken or         *)
(* refreshed.                                                              *)
(***************************************************************************)
EXTENDS Naturals, Sequences, FiniteSets

CONSTANTS
    Conns,        \* connections
    Claims,       \* *partialClaim objects (reused once unreachable)
    Inodes,       \* files (reused once unreachable)
    Shared,       \* the content-addressed .partial path
    Suffixes,     \* private .partial paths
    Undeletable,  \* those among them that os.Remove fails to remove
    FileLen,      \* length in blocks of the content the hash stands for
    MaxSize,      \* largest size of a .partial
    Declared,     \* the sizes an INIT may declare
    MaxPending,   \* maxPendingBytes, in blocks
    Crashes,      \* whether the process may crash and restart
    None          \* nil

ASSUME SizeAssumption ==
    /\ FileLen \in Nat /\ MaxSize \in Nat /\ MaxPending \in Nat
    /\ Declared \subseteq 0 .. MaxSize /\ Undeletable \subseteq Suffixes

VARIABLES
    paths,   \* activePartials.paths: the claim on each path, or None
    live,    \* the claims whose holder has written recently
    dir,     \* the inode each .partial path names, or None
    data,    \* the blocks of each inode
    final,   \* inodes renamed into receivedDir
    tr,      \* each connection's recvTransfer, or None
    pc,      \* where each connection's handler is
    loc      \* that handler's local variables

vars == <<paths, live, dir, data, final, tr, pc, loc>>

Paths == {Shared} \cup Suffixes
Sizes == 0 .. MaxSize
Offsets == { o \in Sizes : o < MaxSize }
Sent == {"good", "bad"}
Block == Sent \cup {"hole"}
Verified == [i \in 1 .. FileLen |-> "good"]

Transfer == [file : Inodes, partial : Paths, claim : Claims, size : Sizes,
             cursor : Sizes, pending : [Offsets -> Sent \cup {"none"}],
             uncut : BOOLEAN]   \* history: too long, and not truncated

ASSUME NoneAssumption ==
    /\ None \notin Claims \cup Inodes \cup Transfer
    /\ Shared \notin Suffixes

Local == [partial : Paths, claim : Claims \cup {None},
          prev : Claims \cup {None}, size : Sizes,
          file : Inodes \cup {None}, pos : Nat, match : BOOLEAN]

NoLocal == [partial |-> Shared, claim |-> None, prev |-> None, size |-> 0,
            file |-> None, pos |-> 0, match |-> TRUE]

InitPCs == {"claim", "open", "install"}
PCs == {"idle", "verify", "rename", "commit", "abandon", "release"} \cup InitPCs

Init ==
    /\ paths = [p \in Paths |-> None]
    /\ live = {}
    /\ dir = [p \in Paths |-> None]
    /\ data = [i \in Inodes |-> <<>>]
    /\ final = {}
    /\ tr = [c \in Conns |-> None]
    /\ pc = [c \in Conns |-> "idle"]
    /\ loc = [c \in Conns |-> NoLocal]

-----------------------------------------------------------------------------
(* The claim table. *)

StillHolds(p, k) == paths[p] = k

Live(k) == k \in live

PartialHeld(p) == paths[p] # None /\ Live(paths[p])

\* unclaimPartial: hand p back to prev (None: leave it free).
Unclaimed(p, k, prev) ==
    IF paths[p] = k THEN [paths EXCEPT ![p] = prev] ELSE paths

Holds(c) == tr[c] # None /\ StillHolds(tr[c].partial, tr[c].claim)

\* Objects that can be allocated: nothing refers to them any more.
FreshClaims ==
    Claims \ ( {paths[p] : p \in Paths}
               \cup {loc[c].claim : c \in Conns} \cup {loc[c].prev : c \in Conns}
               \cup {tr[c].claim : c \in {d \in Conns : tr[d] # None}} )

FreshInodes ==
    Inodes \ ( {dir[p] : p \in Paths} \cup final
               \cup {loc[c].file : c \in Conns}
               \cup {tr[c].file : c \in {d \in Conns : tr[d] # None}} )

\* privatePartial: a random name, so one that nothing uses.
FreshSuffixes ==
    { s \in Suffixes : /\ dir[s] = None /\ paths[s] = None
                       /\ \A c \in Conns : loc[c].partial # s
                       /\ \A c \in Conns : tr[c] # None => tr[c].partial # s }

\* Mutant of WithoutPrivate: a private file is kept like a shared one.
KeepPrivate(p) == dir

\* Removing a private file, which may fail; a shared one stays for a resume.
WithoutPrivate(p) ==
    IF p = Shared \/ p \in Undeletable THEN dir ELSE [dir EXCEPT ![p] = None]

\* os.Remove of whatever is at p, its error ignored.
AfterRemove(p) ==
    IF p = Shared THEN {dir, [dir EXCEPT ![p] = None]} ELSE {WithoutPrivate(p)}

\* release: give up the claim if still held, remove a private file.
Release(p, k) ==
    /\ paths' = Unclaimed(p, k, None)
    /\ live' = IF paths[p] = k THEN live \ {k} ELSE live
    /\ dir' = WithoutPrivate(p)

Refresh(k) == live' = live \cup {k}

Return(c) ==
    /\ pc' = [pc EXCEPT ![c] = "idle"]
    /\ loc' = [loc EXCEPT ![c] = NoLocal]

\* discard and forget: drop the transfer and release its claim.
Discard(c) ==
    /\ tr[c] # None
    /\ tr' = [tr EXCEPT ![c] = None]
    /\ Release(tr[c].partial, tr[c].claim)
    /\ Return(c)
    /\ UNCHANGED <<data, final>>

-----------------------------------------------------------------------------
(* handleInit *)

\* Refused before anything is claimed: too many concurrent transfers.  A
\* transfer that a retry has superseded is dropped first.
InitFull(c) ==
    /\ pc[c] = "idle"
    /\ ~Holds(c)
    /\ tr' = [tr EXCEPT ![c] = None]
    /\ UNCHANGED <<paths, live, dir, data, final, pc, loc>>

\* A second INIT of a transfer this connection still holds keeps its file.
InitAgain(c) ==
    /\ pc[c] = "idle"
    /\ Holds(c)
    /\ Refresh(tr[c].claim)
    /\ pc' = [pc EXCEPT ![c] = "open"]
    /\ \E n \in Declared :
         loc' = [loc EXCEPT ![c] = [NoLocal EXCEPT !.partial = tr[c].partial,
                                       !.claim = tr[c].claim, !.size = n]]
    /\ UNCHANGED <<paths, dir, data, final, tr>>

\* A new transfer: partialHeld chooses between the shared and a private path.
InitNew(c) ==
    /\ pc[c] = "idle"
    /\ ~Holds(c)
    /\ tr' = [tr EXCEPT ![c] = None]
    /\ pc' = [pc EXCEPT ![c] = "claim"]
    /\ \E n \in Declared, p \in IF PartialHeld(Shared) THEN FreshSuffixes
                                                    ELSE {Shared} :
         loc' = [loc EXCEPT ![c] = [NoLocal EXCEPT !.partial = p, !.size = n]]
    /\ UNCHANGED <<paths, live, dir, data, final>>

\* admit refuses (quota or disk space); nothing has been claimed.
InitNotAdmitted(c) ==
    /\ pc[c] = "claim"
    /\ Return(c)
    /\ UNCHANGED <<paths, live, dir, data, final, tr>>

\* claimPartial finds a live holder: go private, and be admitted again.
InitLostRace(c) ==
    /\ pc[c] = "claim"
    /\ PartialHeld(loc[c].partial)
    /\ \E s \in FreshSuffixes : loc' = [loc EXCEPT ![c].partial = s]
    /\ UNCHANGED <<paths, live, dir, data, final, tr, pc>>

\* Mutant of ClaimPartial: trusts the earlier partialHeld.
ClaimPartialBlind(c) ==
    /\ pc[c] = "claim"
    /\ \E k \in FreshClaims :
         /\ paths' = [paths EXCEPT ![loc[c].partial] = k]
         /\ live' = live \cup {k}
         /\ loc' = [loc EXCEPT ![c].claim = k,
                               ![c].prev = paths[loc[c].partial]]
    /\ pc' = [pc EXCEPT ![c] = "open"]
    /\ UNCHANGED <<dir, data, final, tr>>

\* claimPartial succeeds, perhaps over a quiet holder.
ClaimPartial(c) ==
    /\ pc[c] = "claim"
    /\ ~PartialHeld(loc[c].partial)
    /\ \E k \in FreshClaims :
         /\ paths' = [paths EXCEPT ![loc[c].partial] = k]
         /\ live' = live \cup {k}
         /\ loc' = [loc EXCEPT ![c].claim = k,
                               ![c].prev = paths[loc[c].partial]]
    /\ pc' = [pc EXCEPT ![c] = "open"]
    /\ UNCHANGED <<dir, data, final, tr>>

\* Mutant of InitFails: frees the path instead of handing it back.
InitFailsFree(c) ==
    /\ pc[c] = "open"
    /\ IF tr[c] # None
       THEN UNCHANGED <<paths, live, dir>>
       ELSE Release(loc[c].partial, loc[c].claim)
    /\ Return(c)
    /\ UNCHANGED <<data, final, tr>>

\* OpenFile fails (or, for a repeated INIT, admit refuses): hand the claim
\* back, unless it is the prior transfer's own.
InitFails(c) ==
    /\ pc[c] = "open"
    /\ IF tr[c] # None
       THEN UNCHANGED <<paths, live, dir>>
       ELSE /\ paths' = Unclaimed(loc[c].partial, loc[c].claim, loc[c].prev)
            /\ live' = live \ {loc[c].claim}
            /\ dir' = WithoutPrivate(loc[c].partial)
    /\ Return(c)
    /\ UNCHANGED <<data, final, tr>>

\* OpenFile, creating the file if need be.
OpenPartial(c) ==
    /\ pc[c] = "open"
    /\ LET p == loc[c].partial IN
         \/ /\ dir[p] # None
            /\ loc' = [loc EXCEPT ![c].file = dir[p], ![c].prev = None]
            /\ UNCHANGED <<dir, data>>
         \/ /\ dir[p] = None
            /\ \E i \in FreshInodes :
                 /\ dir' = [dir EXCEPT ![p] = i]
                 /\ data' = [data EXCEPT ![i] = <<>>]
                 /\ loc' = [loc EXCEPT ![c].file = i, ![c].prev = None]
    /\ pc' = [pc EXCEPT ![c] = "install"]
    /\ UNCHANGED <<paths, live, final, tr>>

ResumeOffset(len, size) == IF len <= size THEN len ELSE 0

\* Stat, truncate what cannot be resumed, and record the transfer.  A Stat
\* that fails means starting over; a Truncate that fails is ignored.  (The
\* second capacity check cannot fail: no other INIT runs on this connection.)
InitInstall(c) ==
    /\ pc[c] = "install"
    /\ LET l == loc[c]
           len == Len(data[l.file]) IN
       \E resume \in {ResumeOffset(len, l.size), 0}, cut \in BOOLEAN :
         /\ data' = IF resume = 0 /\ cut THEN [data EXCEPT ![l.file] = <<>>] ELSE data
         /\ tr' = [tr EXCEPT ![c] =
                     [file |-> l.file, partial |-> l.partial, claim |-> l.claim,
                      size |-> l.size, cursor |-> resume,
                      pending |-> [o \in Offsets |-> "none"],
                      uncut |-> ~cut /\ len > l.size]]
    /\ Return(c)
    /\ UNCHANGED <<paths, live, dir, final>>

-----------------------------------------------------------------------------
(* handleChunk *)

\* WriteAt: the n blocks blk[1..n] at offset off; a gap reads as a hole.
WriteAt(s, off, n, blk) ==
    [ i \in 1 .. (IF Len(s) < off + n THEN off + n ELSE Len(s)) |->
        IF i > off /\ i <= off + n THEN blk[i - off]
        ELSE IF i <= Len(s) THEN s[i] ELSE "hole" ]

\* The blocks one CHUNK at the cursor can write: its own, then the buffered
\* successors it makes contiguous.
Run(t, b) ==
    [ i \in 1 .. MaxSize + 1 |-> IF i = 1 THEN b ELSE
         IF t.cursor + i - 1 \in Offsets THEN t.pending[t.cursor + i - 1]
                                         ELSE "none" ]

IsRun(r, n) == /\ \A i \in 1 .. n : r[i] # "none"
               /\ n < MaxSize + 1 => r[n + 1] = "none"

\* The transfer after n blocks have been written and m offsets drained.
Advanced(t, n, m) ==
    [t EXCEPT !.cursor = t.cursor + n,
              !.pending = [o \in Offsets |-> IF o <= t.cursor + m /\ o > t.cursor
                                             THEN "none" ELSE t.pending[o]]]

\* Mutant of ChunkWritten: writes without checking the claim.
ChunkUnchecked(c) ==
    /\ pc[c] = "idle" /\ tr[c] # None
    /\ tr[c].cursor < tr[c].size
    /\ \E b \in Sent, n \in 1 .. MaxSize :
         LET r == Run(tr[c], b) IN
           /\ IsRun(r, n)
           /\ data' = [data EXCEPT ![tr[c].file] =
                         WriteAt(data[tr[c].file], tr[c].cursor, n, r)]
           /\ tr' = [tr EXCEPT ![c] = Advanced(tr[c], n, n - 1)]
    /\ UNCHANGED <<paths, live, dir, final, pc, loc>>

\* A CHUNK at the cursor: written, with every successor buffered before it.
ChunkWritten(c) ==
    /\ pc[c] = "idle" /\ Holds(c)
    /\ tr[c].cursor < tr[c].size
    /\ \E b \in Sent, n \in 1 .. MaxSize :
         LET r == Run(tr[c], b) IN
           /\ IsRun(r, n)
           /\ data' = [data EXCEPT ![tr[c].file] =
                         WriteAt(data[tr[c].file], tr[c].cursor, n, r)]
           /\ tr' = [tr EXCEPT ![c] = Advanced(tr[c], n, n - 1)]
    /\ Refresh(tr[c].claim)
    /\ UNCHANGED <<paths, dir, final, pc, loc>>

\* The write of block n + 1 of the run fails, having written the block or
\* not.  A transfer that ran the disk full goes on to abandonIfDiskFull; any
\* other error, the quota's included, leaves it as it is.
ChunkFails(c) ==
    /\ pc[c] = "idle" /\ Holds(c)
    /\ tr[c].cursor < tr[c].size
    /\ Refresh(tr[c].claim)
    /\ \E b \in Sent, n \in 0 .. MaxSize, torn \in 0 .. 1, full \in BOOLEAN :
         LET r == Run(tr[c], b) IN
           /\ \A i \in 1 .. n + 1 : r[i] # "none"
           /\ data' = [data EXCEPT ![tr[c].file] =
                         WriteAt(data[tr[c].file], tr[c].cursor, n + torn, r)]
           /\ IF full
              THEN /\ tr' = [tr EXCEPT ![c] = None]
                   /\ pc' = [pc EXCEPT ![c] = "abandon"]
                   /\ loc' = [loc EXCEPT ![c] = [NoLocal EXCEPT
                                 !.partial = tr[c].partial, !.claim = tr[c].claim]]
              ELSE /\ tr' = [tr EXCEPT ![c] = Advanced(tr[c], n, n)]
                   /\ UNCHANGED <<pc, loc>>
    /\ UNCHANGED <<paths, dir, final>>

\* A CHUNK past the cursor is buffered if there is room.
ChunkBuffered(c) ==
    /\ pc[c] = "idle"
    /\ tr[c] # None
    /\ Cardinality({o \in Offsets : tr[c].pending[o] # "none"}) < MaxPending
    /\ \E o \in Offsets, b \in Sent :
         /\ o > tr[c].cursor /\ o < tr[c].size
         /\ tr[c].pending[o] = "none"
         /\ tr' = [tr EXCEPT ![c].pending[o] = b]
    /\ UNCHANGED <<paths, live, dir, data, final, pc, loc>>

\* Mutant of AbandonRemove: removes the file whoever holds it.
AbandonUnchecked(c) ==
    /\ pc[c] = "abandon"
    /\ dir' = [dir EXCEPT ![loc[c].partial] = None]
    /\ pc' = [pc EXCEPT ![c] = "release"]
    /\ UNCHANGED <<paths, live, data, final, tr, loc>>

\* abandonIfDiskFull: remove the file while the claim is still held ...
AbandonRemove(c) ==
    /\ pc[c] = "abandon"
    /\ IF StillHolds(loc[c].partial, loc[c].claim)
       THEN /\ dir' \in AfterRemove(loc[c].partial)
            /\ Refresh(loc[c].claim)
       ELSE UNCHANGED <<dir, live>>
    /\ pc' = [pc EXCEPT ![c] = "release"]
    /\ UNCHANGED <<paths, data, final, tr, loc>>

\* ... then release it.
AbandonRelease(c) ==
    /\ pc[c] = "release"
    /\ Release(loc[c].partial, loc[c].claim)
    /\ Return(c)
    /\ UNCHANGED <<data, final, tr>>

-----------------------------------------------------------------------------
(* handleDone *)

\* A CHUNK, DONE, verification read or rename of a transfer whose file a
\* retry has taken over: the transfer ends and touches nothing.
Superseded(c) ==
    /\ pc[c] \in {"idle", "verify", "rename"}
    /\ ~Holds(c)
    /\ Discard(c)

\* fsync fails, or bytes are missing: only the claim is refreshed.
DoneRefused(c) ==
    /\ pc[c] = "idle" /\ Holds(c)
    /\ Refresh(tr[c].claim)
    /\ UNCHANGED <<paths, dir, data, final, tr, pc, loc>>

DoneVerify(c) ==
    /\ pc[c] = "idle" /\ Holds(c)
    /\ tr[c].cursor = tr[c].size
    /\ Refresh(tr[c].claim)
    /\ pc' = [pc EXCEPT ![c] = "verify"]
    /\ UNCHANGED <<paths, dir, data, final, tr, loc>>

\* heldReader.Read: one block through the claim.
VerifyRead(c) ==
    /\ pc[c] = "verify" /\ Holds(c)
    /\ loc[c].pos < Len(data[tr[c].file])
    /\ Refresh(tr[c].claim)
    /\ loc' = [loc EXCEPT ![c].pos = loc[c].pos + 1,
                 ![c].match = loc[c].match
                              /\ data[tr[c].file][loc[c].pos + 1] = "good"]
    /\ UNCHANGED <<paths, dir, data, final, tr, pc>>

\* A read error ends the verification and keeps the transfer.
VerifyFails(c) ==
    /\ pc[c] = "verify" /\ Holds(c)
    /\ Refresh(tr[c].claim)
    /\ Return(c)
    /\ UNCHANGED <<paths, dir, data, final, tr>>

HashMatches(c) == loc[c].match /\ loc[c].pos = FileLen

\* End of file: compare the hash.
VerifyMatch(c) ==
    /\ pc[c] = "verify" /\ Holds(c)
    /\ loc[c].pos >= Len(data[tr[c].file])
    /\ HashMatches(c)
    /\ Refresh(tr[c].claim)
    /\ pc' = [pc EXCEPT ![c] = "rename"]
    /\ UNCHANGED <<paths, dir, data, final, tr, loc>>

VerifyMismatch(c) ==
    /\ pc[c] = "verify" /\ Holds(c)
    /\ loc[c].pos >= Len(data[tr[c].file])
    /\ ~HashMatches(c)
    /\ Discard(c)

\* Mutant of RenameFails: drops the transfer without releasing its claim.
RenameFailsLeak(c) ==
    /\ pc[c] = "rename"
    /\ tr' = [tr EXCEPT ![c] = None]
    /\ Return(c)
    /\ UNCHANGED <<paths, live, dir, data, final>>

\* onPrepare or the rename fails: forget, keeping a shared .partial.
RenameFails(c) == pc[c] = "rename" /\ Discard(c)

\* Mutant of Rename: no second look at the claim after onPrepare.
RenameUnchecked(c) ==
    /\ pc[c] = "rename"
    /\ dir[tr[c].partial] # None
    /\ final' = final \cup {dir[tr[c].partial]}
    /\ loc' = [loc EXCEPT ![c].file = dir[tr[c].partial]]
    /\ dir' = [dir EXCEPT ![tr[c].partial] = None]
    /\ pc' = [pc EXCEPT ![c] = "commit"]
    /\ UNCHANGED <<paths, live, data, tr>>

\* The claim again, and the rename of whatever the path names now.
Rename(c) ==
    /\ pc[c] = "rename" /\ Holds(c)
    /\ dir[tr[c].partial] # None
    /\ final' = final \cup {dir[tr[c].partial]}
    /\ loc' = [loc EXCEPT ![c].file = dir[tr[c].partial]]
    /\ dir' = [dir EXCEPT ![tr[c].partial] = None]
    /\ Refresh(tr[c].claim)
    /\ pc' = [pc EXCEPT ![c] = "commit"]
    /\ UNCHANGED <<paths, data, tr>>

\* onCommit, then forget and onSaved.
Commit(c) == pc[c] = "commit" /\ Discard(c)

\* onCommit fails: the final file is removed again, if that succeeds.
CommitFails(c) ==
    /\ pc[c] = "commit"
    /\ final' \in {final, final \ {loc[c].file}}
    /\ tr' = [tr EXCEPT ![c] = None]
    /\ Release(tr[c].partial, tr[c].claim)
    /\ Return(c)
    /\ UNCHANGED data

-----------------------------------------------------------------------------
(* ABORT, teardown, time, and the process. *)

Abort(c) == pc[c] = "idle" /\ Discard(c)

\* The connection ends: Close releases its transfers.  The next frame of c
\* is the first of a new connection.
Close(c) == pc[c] = "idle" /\ Discard(c)

\* staleClaimAfter passes without a write by k's holder.
GoesQuiet(k) ==
    /\ Live(k)
    /\ \A c \in Conns : pc[c] \in InitPCs => loc[c].claim # k
    /\ live' = live \ {k}
    /\ UNCHANGED <<paths, dir, data, final, tr, pc, loc>>

\* The process dies and restarts: only the files survive.
Crash ==
    /\ Crashes
    /\ paths' = [p \in Paths |-> None]
    /\ live' = {}
    /\ tr' = [c \in Conns |-> None]
    /\ pc' = [c \in Conns |-> "idle"]
    /\ loc' = [c \in Conns |-> NoLocal]
    /\ UNCHANGED <<dir, data, final>>

HandleInit(c) ==
    \/ InitFull(c) \/ InitAgain(c) \/ InitNew(c) \/ InitNotAdmitted(c)
    \/ InitLostRace(c) \/ ClaimPartial(c) \/ InitFails(c) \/ OpenPartial(c)
    \/ InitInstall(c)

HandleChunk(c) ==
    \/ ChunkWritten(c) \/ ChunkFails(c) \/ ChunkBuffered(c)
    \/ AbandonRemove(c) \/ AbandonRelease(c)

HandleDone(c) ==
    \/ Superseded(c) \/ DoneRefused(c) \/ DoneVerify(c) \/ VerifyRead(c)
    \/ VerifyFails(c) \/ VerifyMatch(c) \/ VerifyMismatch(c)
    \/ RenameFails(c) \/ Rename(c) \/ Commit(c) \/ CommitFails(c)

Next ==
    \/ \E c \in Conns : HandleInit(c) \/ HandleChunk(c) \/ HandleDone(c)
                        \/ Abort(c) \/ Close(c)
    \/ \E k \in Claims : GoesQuiet(k)
    \/ Crash

Spec == Init /\ [][Next]_vars

-----------------------------------------------------------------------------
TypeOK ==
    /\ paths \in [Paths -> Claims \cup {None}]
    /\ live \in SUBSET Claims
    /\ dir \in [Paths -> Inodes \cup {None}]
    /\ data \in [Inodes -> Seq(Block)]
    /\ final \in SUBSET Inodes
    /\ tr \in [Conns -> Transfer \cup {None}]
    /\ pc \in [Conns -> PCs]
    /\ loc \in [Conns -> Local]

\* A file in receivedDir has exactly the content its transfer's hash stands
\* for, whatever became of the claim while it was hashed and renamed
\* (handleDone's checks before, during and after the verification).
DeliveredIntact == \A i \in final : data[i] = Verified

\* A transfer that still holds its claim has open the very file its path
\* names, that file has at least the bytes the transfer has acknowledged, and
\* it is no longer than the declared size (so its length is a resume offset)
\* unless it was longer at INIT and Truncate failed.
HolderOwnsFile ==
    \A c \in Conns :
      Holds(c) /\ pc[c] # "commit" =>
        /\ dir[tr[c].partial] = tr[c].file
        /\ tr[c].cursor <= Len(data[tr[c].file])
        /\ tr[c].uncut \/ Len(data[tr[c].file]) <= tr[c].size

\* Chunks land contiguously: no .partial has a byte range that was never
\* written, though a stalled transfer, its retry and a truncating INIT may
\* all have had the file open ("We only ever write contiguously, so the file
\* size IS the resume offset", resumeOffset).
NoHoles ==
    \A p \in Paths : dir[p] # None =>
      \A i \in 1 .. Len(data[dir[p]]) : data[dir[p]][i] # "hole"

\* A path is never blocked by a claim nobody will release: a live claim in
\* the table belongs to a transfer or to a handler that has yet to use it.
\* A claim handed back to a transfer that has gone is always a quiet one.
LiveClaimOwned ==
    \A p \in Paths : PartialHeld(p) =>
      \E c \in Conns : \/ tr[c] # None /\ tr[c].claim = paths[p]
                       \/ loc[c].claim = paths[p]

\* The connection has a transfer or a handler in progress on p.
Uses(c, p) ==
    \/ tr[c] # None /\ tr[c].partial = p
    \/ loc[c].partial = p

\* A private .partial belongs to a transfer or handler in progress: "Nothing
\* can resume it, so it is removed if it does not finish" (recvTransfer).
PrivateRemoved ==
    \A s \in Suffixes : dir[s] # None => \E c \in Conns : Uses(c, s)

\* Only a crash, or an os.Remove that fails, leaves a private .partial behind:
\* whoever is the last to use one removes it or has renamed it, on every path
\* out of handleInit, handleChunk, handleDone, an ABORT and Close (release,
\* fail).
PrivateNotOrphaned ==
    [][ ~Crash => \A s \in Suffixes \ Undeletable :
          (\E c \in Conns : Uses(c, s)) /\ dir'[s] # None => \E c \in Conns : Uses(c, s)' ]_vars

\* A transfer whose claim is live keeps it for as long as it lasts: no other
\* connection's INIT, release or failure takes the path from it.
LiveNotTakenOver ==
    [][ \A c \in Conns :
          Holds(c) /\ Live(tr[c].claim) /\ tr'[c] = tr[c]
            => paths'[tr[c].partial] = tr[c].claim ]_vars

\* A file in receivedDir is never written again, although stalled transfers
\* may still have it open, and only its own failed commit removes it.
FinalImmutable ==
    [][ \A i \in final :
          /\ data'[i] = data[i]
          /\ i \notin final' => \E c \in Conns : pc[c] = "commit" /\ loc[c].file = i
      ]_vars

\* "Only an INIT that is accepted takes a claim over" (activePartials): when
\* an INIT fails after claiming, the quiet transfer it took the path from,
\* if it is still there, holds the path again.
RefusalRestoresHolder ==
    [][ \A c, d \in Conns :
          ( /\ pc[c] = "open" /\ pc'[c] = "idle" /\ tr[c] = None
            /\ tr[d] # None /\ tr'[d] = tr[d]
            /\ tr[d].claim = loc[c].prev )
          => paths'[tr[d].partial] = tr[d].claim ]_vars

-----------------------------------------------------------------------------
(* The inductive invariant behind the safety properties.  Three layers:    *)
(* what a handler in progress has in its locals, who can refer to which    *)
(* claim, and what the files look like.                                    *)

HandlerOf(c) ==
    /\ pc[c] = "idle" => loc[c] = NoLocal
    /\ pc[c] \in {"claim", "abandon", "release"} => tr[c] = None
    /\ pc[c] \in {"verify", "rename", "commit"} => tr[c] # None
    /\ pc[c] \in {"verify", "rename", "commit"} => loc[c].partial = Shared
    /\ loc[c].claim # None
         <=> pc[c] \in {"open", "install", "abandon", "release"}
    /\ loc[c].prev # None => pc[c] = "open" /\ tr[c] = None
    /\ pc[c] = "install" => loc[c].file # None
    /\ pc[c] \in {"open", "install"} /\ tr[c] # None =>
         loc[c].claim = tr[c].claim /\ loc[c].partial = tr[c].partial

HandlerOK == \A c \in Conns : HandlerOf(c)

\* c's transfer or handler has claim k on path p.
Has(c, k, p) ==
    \/ tr[c] # None /\ tr[c].claim = k /\ tr[c].partial = p
    \/ loc[c].claim = k /\ loc[c].partial = p

\* A claim has one owner and one path.
ClaimsOwned ==
    /\ \A c, d \in Conns, p, q \in Paths, k \in Claims :
         Has(c, k, p) /\ Has(d, k, q) => c = d /\ p = q
    /\ \A c \in Conns, p, q \in Paths, k \in Claims :
         Has(c, k, p) /\ paths[q] = k => p = q
    /\ \A p, q \in Paths : paths[p] # None /\ paths[p] = paths[q] => p = q

\* A claim that was taken over is quiet, out of the table, remembered by one
\* INIT only, and was on the path that INIT has claimed.
PrevQuiet ==
    \A c \in Conns : loc[c].prev # None =>
      /\ loc[c].prev \notin live
      /\ loc[c].partial = Shared
      /\ \A p \in Paths : paths[p] # loc[c].prev
      /\ \A d \in Conns : loc[d].prev = loc[c].prev => d = c
      /\ \A d \in Conns, p \in Paths : Has(d, loc[c].prev, p) => d # c /\ p = Shared

\* An INIT past claimPartial holds its path, and its claim is live.
InitHolds ==
    \A c \in Conns : pc[c] \in {"open", "install"} =>
      paths[loc[c].partial] = loc[c].claim /\ loc[c].claim \in live

\* A private path has one user, who is the only one to claim it.
PrivateUnshared ==
    /\ \A c, d \in Conns, s \in Suffixes : Uses(c, s) /\ Uses(d, s) => c = d
    /\ \A c \in Conns, s \in Suffixes :
         pc[c] = "claim" /\ loc[c].partial = s => paths[s] = None /\ dir[s] = None

\* The transfers that may yet act on their file: they hold its path, or a
\* failing INIT is about to give it back.
Mine(c) ==
    /\ tr[c] # None /\ pc[c] # "commit"
    /\ \/ StillHolds(tr[c].partial, tr[c].claim)
       \/ \E d \in Conns : loc[d].prev = tr[c].claim

DirOK ==
    /\ \A p, q \in Paths : dir[p] # None /\ dir[p] = dir[q] => p = q
    /\ \A p \in Paths : dir[p] \notin final

FileOf(c) ==
    /\ pc[c] = "install" => dir[loc[c].partial] = loc[c].file
    /\ tr[c] # None =>
         \A o \in Offsets : tr[c].pending[o] # "none" => o < tr[c].size
    /\ Mine(c) =>
         /\ dir[tr[c].partial] = tr[c].file
         /\ tr[c].cursor <= Len(data[tr[c].file])
         /\ tr[c].uncut \/ Len(data[tr[c].file]) <= tr[c].size
         /\ pc[c] = "verify" /\ loc[c].match =>
              \A i \in 1 .. loc[c].pos :
                i <= Len(data[tr[c].file]) /\ data[tr[c].file][i] = "good"
         /\ pc[c] = "rename" => data[tr[c].file] = Verified

ClaimInv == TypeOK /\ HandlerOK /\ ClaimsOwned /\ PrevQuiet /\ InitHolds
            /\ PrivateUnshared /\ LiveClaimOwned

FileInv == DirOK /\ (\A c \in Conns : FileOf(c)) /\ DeliveredIntact /\ NoHoles

IndInv == ClaimInv /\ FileInv
=============================================================================
