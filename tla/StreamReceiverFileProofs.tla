---------------------- MODULE StreamReceiverFileProofs ----------------------
(* The files of StreamReceiver: a transfer that holds its claim has its    *)
(* file to itself, so what it verified is what it renames.                 *)
EXTENDS StreamReceiverProofs

\* A step of connection c.
StepOf(c) == HandleInit(c) \/ HandleChunk(c) \/ HandleDone(c) \/ Abort(c) \/ Close(c)

(***************************************************************************)
(* Other connections only ever lose their files to a step of c: it cannot  *)
(* make a transfer that had been superseded for good the holder again.     *)
(***************************************************************************)
LEMMA TableChange ==
    ASSUME ClaimInv, NEW c \in Conns, StepOf(c)
    PROVE  /\ \A p \in Paths : paths'[p] \in {paths[p], None, loc[c].prev} \cup FreshClaims
           /\ loc'[c].prev \in {None, loc[c].prev, paths[loc[c].partial]}
<1>0. TypeOK /\ HandlerOf(c) /\ NoLocal.prev = None
  BY DEF ClaimInv, HandlerOK, NoLocal
<1>1. CASE InitFull(c) \/ InitNotAdmitted(c) \/ InitInstall(c)
  BY <1>0, <1>1 DEF InitFull, InitNotAdmitted, InitInstall, Return, TypeOK
<1>2. CASE InitAgain(c) \/ InitNew(c)
  <2>1. paths' = paths
    BY <1>2, Zenon DEF InitAgain, InitNew
  <2>2. HandlerOf(c)'
    BY <1>0, <1>2, InitStepType DEF ClaimInv, HandleInit
  <2>3. loc'[c].prev = None
    BY <1>0, <1>2, <2>2, Zenon DEF InitAgain, InitNew, Holds, HandlerOf, TypeOK
  <2> QED
    BY <2>1, <2>3
<1>3. CASE InitLostRace(c)
  <2>1. paths' = paths /\ \E s : loc' = [loc EXCEPT ![c].partial = s]
    BY <1>3, Zenon DEF InitLostRace
  <2>2. loc'[c].prev = loc[c].prev
    BY <1>0, <2>1 DEF TypeOK, Local
  <2> QED
    BY <2>1, <2>2
<1>4. CASE ClaimPartial(c)
  <2>1. PICK k \in FreshClaims :
          /\ paths' = [paths EXCEPT ![loc[c].partial] = k]
          /\ loc' = [loc EXCEPT ![c].claim = k, ![c].prev = paths[loc[c].partial]]
    BY <1>4, Zenon DEF ClaimPartial
  <2>2. loc'[c].prev = paths[loc[c].partial]
    BY <1>0, <2>1 DEF TypeOK, Local
  <2> QED
    BY <1>0, <2>1, <2>2 DEF TypeOK
<1>5. CASE InitFails(c)
  <2>1. loc'[c].prev = None
    BY <1>0, <1>5, ReturnType DEF InitFails
  <2>2. paths' = paths \/ paths' = Unclaimed(loc[c].partial, loc[c].claim, loc[c].prev)
    BY <1>5 DEF InitFails
  <2> QED
    BY <1>0, <2>1, <2>2 DEF Unclaimed, TypeOK
<1>6. CASE OpenPartial(c)
  <2>1. paths' = paths /\ \E i : loc' = [loc EXCEPT ![c].file = i, ![c].prev = None]
    BY <1>6, Zenon DEF OpenPartial
  <2>2. loc'[c].prev = None
    BY <1>0, <2>1 DEF TypeOK, Local
  <2> QED
    BY <2>1, <2>2
<1>7. CASE HandleChunk(c)
  <2>1. loc'[c].prev = None
    <3>1. HandlerOf(c)'
      BY <1>0, <1>7, ChunkStepType DEF ClaimInv
    <3>2. pc'[c] # "open"
      BY <1>0, <1>7 DEF HandleChunk, ChunkWritten, ChunkFails, ChunkBuffered, AbandonRemove,
                        AbandonRelease, Return, TypeOK
    <3> QED
      BY <3>1, <3>2 DEF HandlerOf
  <2>2. paths' = paths \/ \E p, k : paths' = Unclaimed(p, k, None)
    BY <1>7 DEF HandleChunk, ChunkWritten, ChunkFails, ChunkBuffered, AbandonRemove,
                AbandonRelease, Release
  <2> QED
    BY <1>0, <2>1, <2>2 DEF Unclaimed, TypeOK
<1>8. CASE HandleDone(c) \/ Abort(c) \/ Close(c)
  <2>1. loc'[c].prev = None
    <3>1. HandlerOf(c)'
      BY <1>0, <1>8, DoneStepType DEF ClaimInv
    <3>2. pc'[c] # "open"
      BY <1>0, <1>8
      DEF HandleDone, Abort, Close, Superseded, DoneRefused, DoneVerify, VerifyRead,
          VerifyFails, VerifyMatch, VerifyMismatch, RenameFails, Rename, Commit, CommitFails,
          Discard, Return, TypeOK
    <3> QED
      BY <3>1, <3>2 DEF HandlerOf
  <2>2. paths' = paths \/ \E p, k : paths' = Unclaimed(p, k, None)
    BY <1>8
    DEF HandleDone, Abort, Close, Superseded, DoneRefused, DoneVerify, VerifyRead,
        VerifyFails, VerifyMatch, VerifyMismatch, RenameFails, Rename, Commit, CommitFails,
        Discard, Release
  <2> QED
    BY <1>0, <2>1, <2>2 DEF Unclaimed, TypeOK
<1> QED
  BY <1>1, <1>2, <1>3, <1>4, <1>5, <1>6, <1>7, <1>8 DEF StepOf, HandleInit

LEMMA MineKept ==
    ASSUME ClaimInv, NEW c \in Conns, StepOf(c), Frame(c), NEW d \in Conns, d # c, Mine(d)'
    PROVE  Mine(d)
<1> USE NoneAssumption
<1>1. /\ tr'[d] = tr[d] /\ tr[d] # None /\ pc[d] # "commit"
      /\ tr[d].claim \in Claims /\ tr[d].partial \in Paths
      /\ tr[d].claim \notin FreshClaims
  BY DEF Frame, Mine, ClaimInv, TypeOK, Transfer, FreshClaims
<1>2. CASE paths'[tr[d].partial] = tr[d].claim
  <2>1. \/ paths[tr[d].partial] = tr[d].claim
        \/ loc[c].prev = tr[d].claim
    BY <1>1, <1>2, TableChange
  <2> QED
    BY <1>1, <2>1 DEF Mine, StillHolds
<1>3. CASE \E e \in Conns : loc'[e].prev = tr[d].claim
  <2>1. PICK e \in Conns : loc'[e].prev = tr[d].claim
    BY <1>3
  <2>2. \/ loc[e].prev = tr[d].claim
        \/ paths[loc[c].partial] = tr[d].claim
    BY <1>1, <2>1, TableChange DEF Frame
  <2>3. CASE paths[loc[c].partial] = tr[d].claim
    <3>1. Has(d, tr[d].claim, tr[d].partial) /\ loc[c].partial \in Paths
      BY <1>1 DEF Has, ClaimInv, TypeOK, Local
    <3>2. tr[d].partial = loc[c].partial
      BY <1>1, <2>3, <3>1 DEF ClaimInv, ClaimsOwned
    <3> QED
      BY <1>1, <2>3, <3>2 DEF Mine, StillHolds
  <2> QED
    BY <1>1, <2>2, <2>3 DEF Mine
<1> QED
  BY <1>1, <1>2, <1>3 DEF Mine, StillHolds

(***************************************************************************)
(* The connection whose claim is in the table, or that uses a private      *)
(* path, is the only one that may act on the path's file.                  *)
(***************************************************************************)
Owns(c, p) ==
    \/ p \in Suffixes /\ Uses(c, p)
    \/ paths[p] # None /\ Has(c, paths[p], p) /\ loc[c].prev = None

LEMMA OwnsAlone ==
    ASSUME ClaimInv, NEW c \in Conns, NEW p \in Paths, Owns(c, p), NEW d \in Conns, d # c
    PROVE  /\ Mine(d) => tr[d].partial # p
           /\ pc[d] = "install" => loc[d].partial # p
<1> USE NoneAssumption
<1>1. CASE p \in Suffixes /\ Uses(c, p)
  <2>1. ~Uses(d, p)
    BY <1>1 DEF ClaimInv, PrivateUnshared
  <2> QED
    BY <2>1 DEF Uses, Mine
<1>2. CASE paths[p] # None /\ Has(c, paths[p], p) /\ loc[c].prev = None
  <2>1. paths[p] \in Claims
    BY <1>2 DEF ClaimInv, TypeOK
  <2>2. \A e \in Conns, q \in Paths : Has(e, paths[p], q) => e = c
    BY <1>2, <2>1 DEF ClaimInv, ClaimsOwned
  <2>3. ASSUME pc[d] = "install", loc[d].partial = p PROVE FALSE
    <3>1. paths[p] = loc[d].claim
      BY <2>3 DEF ClaimInv, InitHolds
    <3> QED
      BY <2>2, <2>3, <3>1 DEF Has
  <2>4. ASSUME Mine(d), tr[d].partial = p PROVE FALSE
    <3>1. tr[d] # None
      BY <2>4 DEF Mine
    <3>2. CASE paths[p] = tr[d].claim
      BY <2>2, <2>4, <3>1, <3>2 DEF Has
    <3>3. CASE \E e \in Conns : loc[e].prev = tr[d].claim
      <4>1. PICK e \in Conns : loc[e].prev = tr[d].claim
        BY <3>3
      <4>2. tr[d].claim \in Claims
        BY <3>1 DEF ClaimInv, TypeOK, Transfer
      <4>3. loc[e].prev # None /\ Has(d, loc[e].prev, p)
        BY <4>1, <4>2, <2>4, <3>1 DEF Has
      <4>4. loc[e].partial = Shared /\ p = Shared
        BY <4>3 DEF ClaimInv, PrevQuiet
      <4>5. pc[e] = "open"
        BY <4>3 DEF ClaimInv, HandlerOK, HandlerOf
      <4>6. paths[p] = loc[e].claim
        BY <4>4, <4>5 DEF ClaimInv, InitHolds
      <4>7. e = c
        BY <2>2, <4>4, <4>6 DEF Has
      <4> QED
        BY <1>2, <4>3, <4>7
    <3> QED
      BY <2>4, <3>2, <3>3 DEF Mine, StillHolds
  <2> QED
    BY <2>3, <2>4
<1> QED
  BY <1>1, <1>2 DEF Owns

(***************************************************************************)
(* A step of c that changes only paths it owns or that name nothing, and   *)
(* only their files or new ones, leaves the other connections' files and   *)
(* the delivered ones alone.                                               *)
(***************************************************************************)
LEMMA OthersKept ==
    ASSUME ClaimInv, FileInv, NEW c \in Conns, StepOf(c), Frame(c),
           \A p \in Paths : dir'[p] # dir[p] => Owns(c, p) \/ dir[p] = None,
           \A i \in Inodes : data'[i] # data[i] =>
             i \in FreshInodes \/ \E p \in Paths : Owns(c, p) /\ dir[p] = i
    PROVE  /\ \A d \in Conns : d # c => FileOf(d)'
           /\ \A i \in final : data'[i] = data[i]
<1> USE NoneAssumption
<1>0. TypeOK /\ DirOK /\ \A d \in Conns : FileOf(d) /\ HandlerOf(d)
  BY DEF ClaimInv, FileInv, HandlerOK
<1>1. \A i \in final : data'[i] = data[i]
  BY <1>0 DEF DirOK, FreshInodes, TypeOK
<1>2. ASSUME NEW d \in Conns, d # c PROVE FileOf(d)'
  <2>1. tr'[d] = tr[d] /\ pc'[d] = pc[d] /\ loc'[d] = loc[d]
    BY <1>2 DEF Frame
  <2>2. pc[d] = "install" => dir'[loc[d].partial] = loc[d].file
    <3> SUFFICES ASSUME pc[d] = "install" PROVE dir'[loc[d].partial] = loc[d].file
      OBVIOUS
    <3>1. loc[d].partial \in Paths /\ dir[loc[d].partial] = loc[d].file /\ loc[d].file # None
      BY <1>0 DEF TypeOK, Local, FileOf, HandlerOf
    <3>2. ~Owns(c, loc[d].partial)
      BY <1>2, <3>1, OwnsAlone
    <3> QED
      BY <3>1, <3>2
  <2>3. tr[d] # None => \A o \in Offsets : tr[d].pending[o] # "none" => o < tr[d].size
    BY <1>0 DEF FileOf
  <2>4. ASSUME Mine(d)'
        PROVE  /\ Mine(d) /\ dir'[tr[d].partial] = dir[tr[d].partial]
               /\ data'[tr[d].file] = data[tr[d].file]
    <3>1. Mine(d)
      BY <1>2, <2>4, MineKept
    <3>2. /\ tr[d] # None /\ tr[d].partial \in Paths /\ tr[d].file \in Inodes
          /\ dir[tr[d].partial] = tr[d].file
      BY <1>0, <3>1 DEF Mine, FileOf, TypeOK, Transfer
    <3>3. ~Owns(c, tr[d].partial)
      BY <1>2, <3>1, <3>2, OwnsAlone
    <3>4. tr[d].file \notin FreshInodes
      BY <3>2 DEF FreshInodes
    <3>5. \A p \in Paths : dir[p] = tr[d].file => p = tr[d].partial
      BY <1>0, <3>2 DEF DirOK
    <3> QED
      BY <3>1, <3>2, <3>3, <3>4, <3>5
  <2> QED
    BY <1>0, <2>1, <2>2, <2>3, <2>4 DEF FileOf
<1> QED
  BY <1>1, <1>2

(***************************************************************************)
(* Steps that write to no file: paths may be removed, nothing else.        *)
(***************************************************************************)
LEMMA FilesShrink ==
    ASSUME ClaimInv, FileInv, data' = data, final' \subseteq final,
           \A p \in Paths : dir'[p] \in {dir[p], None}
    PROVE  DirOK' /\ DeliveredIntact' /\ NoHoles'
<1> USE NoneAssumption
<1>1. None \notin final'
  BY DEF ClaimInv, TypeOK
<1>2. DirOK'
  BY <1>1 DEF FileInv, DirOK
<1>3. DeliveredIntact'
  BY DEF FileInv, DeliveredIntact
<1>4. NoHoles'
  BY DEF FileInv, NoHoles
<1> QED
  BY <1>2, <1>3, <1>4

\* A step of c that writes to no file and leaves c without a transfer, or
\* with the one it had, at rest.
LEMMA QuietStep ==
    ASSUME ClaimInv, FileInv, NEW c \in Conns, StepOf(c), Frame(c),
           data' = data, final' \subseteq final,
           \A p \in Paths : dir'[p] # dir[p] => Owns(c, p) /\ dir'[p] = None,
           pc'[c] # "install",
           \/ tr'[c] = None
           \/ /\ tr'[c] = tr[c] /\ paths' = paths /\ dir' = dir
              /\ loc'[c].prev = None /\ pc'[c] \notin {"verify", "rename"}
              /\ pc[c] # "commit"
    PROVE  FileInv'
<1>1. DirOK' /\ DeliveredIntact' /\ NoHoles'
  BY FilesShrink
<1>2. \A d \in Conns : d # c => FileOf(d)'
  BY OthersKept
<1>3. FileOf(c)'
  <2>1. CASE tr'[c] = None
    BY <2>1 DEF FileOf, Mine
  <2>2. CASE /\ tr'[c] = tr[c] /\ paths' = paths /\ dir' = dir
             /\ loc'[c].prev = None /\ pc'[c] \notin {"verify", "rename"}
             /\ pc[c] # "commit"
    <3>1. FileOf(c)
      BY DEF FileInv
    <3>2. Mine(c)' => Mine(c)
      <4> SUFFICES ASSUME Mine(c)' PROVE Mine(c)
        OBVIOUS
      <4>1. tr[c] # None /\ tr[c].claim # None
        BY <2>2, NoneAssumption DEF Mine, ClaimInv, TypeOK, Transfer
      <4>2. \A e \in Conns : loc'[e].prev = tr[c].claim => loc[e].prev = tr[c].claim
        BY <2>2, <4>1 DEF Frame
      <4> QED
        BY <2>2, <4>1, <4>2 DEF Mine, StillHolds
    <3> QED
      BY <2>2, <3>1, <3>2 DEF FileOf
  <2> QED
    BY <2>1, <2>2
<1> QED
  BY <1>1, <1>2, <1>3 DEF FileInv

(***************************************************************************)
(* handleInit: opening a file, perhaps a new one, and truncating one that  *)
(* cannot be resumed.                                                      *)
(***************************************************************************)
LEMMA OpenFiles ==
    ASSUME ClaimInv, FileInv, NEW c \in Conns, OpenPartial(c), Frame(c)
    PROVE  FileInv'
<1> USE NoneAssumption
<1> DEFINE p == loc[c].partial
<1>0. /\ TypeOK /\ HandlerOf(c) /\ DirOK /\ FileOf(c) /\ StepOf(c)
      /\ p \in Paths /\ pc'[c] = "install" /\ tr' = tr /\ final' = final /\ paths' = paths
      /\ pc[c] = "open"
  BY Zenon DEF ClaimInv, HandlerOK, FileInv, OpenPartial, StepOf, HandleInit, TypeOK, Local
<1>1. PICK i \in Inodes :
        /\ loc'[c].partial = p /\ loc'[c].file = i /\ loc'[c].prev = None
        /\ \/ dir[p] = i /\ UNCHANGED <<dir, data>>
           \/ /\ dir[p] = None /\ i \in FreshInodes
              /\ dir' = [dir EXCEPT ![p] = i] /\ data' = [data EXCEPT ![i] = <<>>]
  <2>1. ASSUME NEW i, loc' = [loc EXCEPT ![c].file = i, ![c].prev = None]
        PROVE  loc'[c].partial = p /\ loc'[c].file = i /\ loc'[c].prev = None
    BY <1>0, <2>1 DEF TypeOK, Local
  <2>2. CASE dir[p] # None
    BY <1>0, <2>1, <2>2, Zenon DEF OpenPartial, TypeOK
  <2>3. CASE dir[p] = None
    <3>1. PICK i \in FreshInodes :
            /\ dir' = [dir EXCEPT ![p] = i] /\ data' = [data EXCEPT ![i] = <<>>]
            /\ loc' = [loc EXCEPT ![c].file = i, ![c].prev = None]
      BY <2>3, Zenon DEF OpenPartial
    <3> QED
      BY <2>1, <2>3, <3>1, Zenon DEF FreshInodes
  <2> QED
    BY <2>2, <2>3
<1> HIDE DEF p
<1>2. dir'[p] = i /\ \A q \in Paths : q # p => dir'[q] = dir[q]
  BY <1>0, <1>1 DEF TypeOK
<1>3. \A d \in Conns : d # c => FileOf(d)'
  <2>1. \A q \in Paths : dir'[q] # dir[q] => dir[q] = None
    BY <1>1, <1>2
  <2>2. \A j \in Inodes : data'[j] # data[j] => j \in FreshInodes
    BY <1>0, <1>1 DEF TypeOK
  <2> QED
    BY <1>0, <2>1, <2>2, OthersKept
<1>4. FileOf(c)'
  <2>1. tr[c] # None => \A o \in Offsets : tr[c].pending[o] # "none" => o < tr[c].size
    BY <1>0 DEF FileOf
  <2>2. ASSUME Mine(c)'
        PROVE  Mine(c) /\ UNCHANGED <<dir, data>>
    <3>1. tr[c] # None /\ tr[c].claim # None /\ tr[c].file # None
      BY <1>0, <2>2 DEF Mine, TypeOK, Transfer
    <3>2. \A e \in Conns : loc'[e].prev = tr[c].claim => loc[e].prev = tr[c].claim
      BY <1>1, <3>1 DEF Frame
    <3>3. Mine(c)
      BY <1>0, <2>2, <3>1, <3>2 DEF Mine, StillHolds
    <3>4. dir[p] # None
      BY <1>0, <3>1, <3>3 DEF FileOf, HandlerOf, p
    <3> QED
      BY <1>1, <3>3, <3>4
  <2>3. dir'[loc'[c].partial] = loc'[c].file
    BY <1>1, <1>2
  <2> QED
    BY <1>0, <2>1, <2>2, <2>3 DEF FileOf
<1>5. DirOK'
  <2>1. CASE dir' = dir
    BY <1>0, <2>1 DEF DirOK
  <2>2. CASE i \in FreshInodes
    <3>1. i \notin final /\ \A q \in Paths : dir[q] # i
      BY <2>2 DEF FreshInodes
    <3> QED
      BY <1>0, <1>2, <3>1 DEF DirOK
  <2> QED
    BY <1>1, <2>1, <2>2
<1>6. DeliveredIntact' /\ NoHoles'
  <2>1. CASE UNCHANGED <<dir, data>>
    BY <1>0, <2>1 DEF FileInv, DeliveredIntact, NoHoles
  <2>2. CASE i \in FreshInodes /\ data' = [data EXCEPT ![i] = <<>>]
    <3>1. i \notin final /\ \A q \in Paths : dir[q] # i
      BY <2>2 DEF FreshInodes
    <3>2. DeliveredIntact'
      BY <1>0, <2>2, <3>1 DEF FileInv, DeliveredIntact, TypeOK
    <3>3. Len(data'[i]) = 0
      BY <1>0, <2>2 DEF TypeOK
    <3>4. \A q \in Paths : q # p /\ dir[q] # None => data'[dir'[q]] = data[dir[q]] /\ dir'[q] = dir[q]
      BY <1>0, <1>2, <2>2, <3>1 DEF TypeOK
    <3>5. NoHoles'
      <4> SUFFICES ASSUME NEW q \in Paths, dir'[q] # None, NEW j \in 1 .. Len(data'[dir'[q]])
                   PROVE  data'[dir'[q]][j] # "hole"
        BY DEF NoHoles
      <4>1. q # p
        BY <1>2, <3>3
      <4>2. dir'[q] = dir[q] /\ data'[dir'[q]] = data[dir[q]] /\ dir[q] # None
        BY <1>2, <3>4, <4>1
      <4> QED
        BY <4>2 DEF FileInv, NoHoles
    <3> QED
      BY <3>2, <3>5
  <2> QED
    BY <1>1, <2>1, <2>2
<1> QED
  BY <1>3, <1>4, <1>5, <1>6 DEF FileInv

(***************************************************************************)
(* A step that changes only the file at a path c owns.                     *)
(***************************************************************************)
LEMMA OwnFile ==
    ASSUME ClaimInv, FileInv, NEW c \in Conns, StepOf(c), Frame(c),
           dir' = dir, final' = final, NEW p \in Paths, Owns(c, p), dir[p] # None,
           NEW w \in Seq(Block), data' = [data EXCEPT ![dir[p]] = w],
           \A j \in 1 .. Len(w) : w[j] # "hole",
           FileOf(c)'
    PROVE  FileInv'
<1>0. TypeOK /\ DirOK /\ dir[p] \in Inodes
  BY DEF ClaimInv, FileInv, TypeOK
<1>1. \A j \in Inodes : data'[j] = IF j = dir[p] THEN w ELSE data[j]
  BY <1>0 DEF TypeOK
<1>2. /\ \A d \in Conns : d # c => FileOf(d)'
      /\ \A j \in final : data'[j] = data[j]
  BY <1>1, OthersKept
<1>3. DirOK' /\ DeliveredIntact'
  BY <1>0, <1>2 DEF FileInv, DirOK, DeliveredIntact
<1>4. NoHoles'
  <2> SUFFICES ASSUME NEW q \in Paths, dir'[q] # None, NEW j \in 1 .. Len(data'[dir'[q]])
               PROVE  data'[dir'[q]][j] # "hole"
    BY DEF NoHoles
  <2>1. dir'[q] = dir[q] /\ dir[q] \in Inodes
    BY <1>0 DEF TypeOK
  <2>2. CASE dir[q] = dir[p]
    BY <1>1, <2>1, <2>2
  <2>3. CASE dir[q] # dir[p]
    <3>1. data'[dir'[q]] = data[dir[q]]
      BY <1>1, <2>1, <2>3
    <3> QED
      BY <2>1, <3>1 DEF FileInv, NoHoles
  <2> QED
    BY <2>2, <2>3
<1> QED
  BY <1>2, <1>3, <1>4 DEF FileInv

LEMMA InstallFiles ==
    ASSUME ClaimInv, FileInv, NEW c \in Conns, InitInstall(c), Frame(c)
    PROVE  FileInv'
<1> USE NoneAssumption, SizeAssumption
<1> DEFINE l == loc[c]
<1>0. /\ TypeOK /\ HandlerOf(c) /\ DirOK /\ FileOf(c) /\ StepOf(c)
      /\ pc[c] = "install" /\ pc'[c] = "idle" /\ UNCHANGED <<paths, dir, final>>
  BY Zenon DEF ClaimInv, HandlerOK, FileInv, InitInstall, Return, StepOf, HandleInit, TypeOK
<1>1. /\ l.partial \in Paths /\ l.claim \in Claims /\ l.file \in Inodes
      /\ dir[l.partial] = l.file /\ l.prev = None /\ paths[l.partial] = l.claim
  BY <1>0 DEF HandlerOf, FileOf, TypeOK, Local, ClaimInv, InitHolds
<1>2. PICK t \in Transfer, w \in Seq(Block) :
        /\ tr' = [tr EXCEPT ![c] = t] /\ data' = [data EXCEPT ![l.file] = w]
        /\ t.file = l.file /\ t.partial = l.partial
        /\ \A o \in Offsets : t.pending[o] = "none"
        /\ w = <<>> \/ w = data[l.file]
        /\ t.cursor <= Len(w) /\ (t.uncut \/ Len(w) <= t.size)
  BY <1>0, Installed, Zenon
<1>3. data' = [data EXCEPT ![dir[l.partial]] = w]
  BY <1>1, <1>2
<1>4. \A j \in 1 .. Len(w) : w[j] # "hole"
  <2>1. CASE w = <<>>
    BY <2>1
  <2>2. CASE w = data[l.file]
    <3>1. w = data[dir[l.partial]] /\ dir[l.partial] # None
      BY <1>1, <2>2
    <3> QED
      BY <1>1, <3>1 DEF FileInv, NoHoles
  <2> QED
    BY <1>2, <2>1, <2>2
<1>5. Owns(c, l.partial)
  BY <1>1 DEF Owns, Has
<1>6. FileOf(c)'
  <2>1. tr'[c] = t /\ data'[t.file] = w
    BY <1>0, <1>1, <1>2 DEF TypeOK
  <2>2. dir'[t.partial] = t.file
    BY <1>0, <1>1, <1>2
  <2> HIDE DEF l
  <2> QED
    BY <1>0, <1>2, <2>1, <2>2 DEF FileOf
<1> HIDE DEF l
<1> QED
  BY <1>0, <1>1, <1>2, <1>3, <1>4, <1>5, <1>6, OwnFile, Zenon

LEMMA NoLocalPrev == NoLocal.prev = None
  BY DEF NoLocal

LEMMA InitStepFiles ==
    ASSUME ClaimInv, FileInv, NEW c \in Conns, HandleInit(c)
    PROVE  FileInv'
<1> USE NoneAssumption
<1>0. Frame(c) /\ HandlerOf(c)' /\ HandlerOf(c) /\ TypeOK /\ StepOf(c)
  BY InitStepType DEF ClaimInv, HandlerOK, StepOf
<1>1. CASE InitFull(c)
  BY <1>0, <1>1, QuietStep DEF InitFull, TypeOK
<1>2. CASE InitAgain(c)
  <2>1. /\ pc[c] = "idle" /\ pc'[c] = "open" /\ tr[c] # None
        /\ UNCHANGED <<paths, dir, data, final, tr>>
    BY <1>0, <1>2 DEF InitAgain, Holds, TypeOK
  <2>2. loc'[c].prev = None
    BY <1>0, <2>1 DEF HandlerOf
  <2> QED
    BY <1>0, <2>1, <2>2, QuietStep
<1>3. CASE InitNew(c)
  <2>1. pc'[c] = "claim" /\ tr'[c] = None /\ UNCHANGED <<paths, dir, data, final>>
    BY <1>0, <1>3 DEF InitNew, TypeOK
  <2> QED
    BY <1>0, <2>1, QuietStep
<1>4. CASE InitNotAdmitted(c) \/ InitLostRace(c) \/ ClaimPartial(c)
  <2>1. pc[c] = "claim" /\ tr' = tr /\ UNCHANGED <<dir, data, final>> /\ pc'[c] # "install"
    BY <1>0, <1>4 DEF InitNotAdmitted, InitLostRace, ClaimPartial, Return, TypeOK
  <2>2. tr[c] = None
    BY <1>0, <2>1 DEF HandlerOf
  <2> QED
    BY <1>0, <2>1, <2>2, QuietStep
<1>5. CASE InitFails(c)
  <2>1. /\ pc[c] = "open" /\ pc'[c] = "idle" /\ loc'[c] = NoLocal
        /\ UNCHANGED <<data, final, tr>>
    BY <1>0, <1>5, ReturnType DEF InitFails
  <2>2. CASE tr[c] # None
    <3>1. paths' = paths /\ dir' = dir
      BY <1>5, <2>2 DEF InitFails
    <3>2. loc'[c].prev = None
      BY <2>1, NoLocalPrev
    <3> QED
      BY <1>0, <2>1, <3>1, <3>2, QuietStep
  <2>3. CASE tr[c] = None
    <3>1. dir' = WithoutPrivate(loc[c].partial) /\ loc[c].partial \in Paths
      BY <1>0, <1>5, <2>3 DEF InitFails, TypeOK, Local
    <3>2. \A q \in Paths : dir'[q] # dir[q] => Owns(c, q) /\ dir'[q] = None
      BY <1>0, <3>1 DEF WithoutPrivate, Owns, Uses, Paths, TypeOK
    <3> QED
      BY <1>0, <2>1, <2>3, <3>2, QuietStep
  <2> QED
    BY <2>2, <2>3
<1>6. CASE OpenPartial(c)
  BY <1>0, <1>6, OpenFiles
<1>7. CASE InitInstall(c)
  BY <1>0, <1>7, InstallFiles
<1> QED
  BY <1>1, <1>2, <1>3, <1>4, <1>5, <1>6, <1>7 DEF HandleInit

(***************************************************************************)
(* handleChunk: the blocks land where the file ends or overwrite what is   *)
(* there, and never past the declared size.                                *)
(***************************************************************************)
LEMMA BelowWrite ==
    ASSUME NEW cur \in Nat, NEW n \in Nat, NEW len \in Nat, NEW i \in Nat, cur <= len,
           i <= IF len < cur + n THEN cur + n ELSE len, ~(i > cur /\ i <= cur + n)
    PROVE  i <= len
  OBVIOUS

LEMMA WriteFiles ==
    ASSUME ClaimInv, FileInv, NEW c \in Conns, ChunkWritten(c) \/ ChunkFails(c), Frame(c)
    PROVE  FileInv'
<1> USE NoneAssumption, SizeAssumption
<1> DEFINE t == tr[c]
<1>0. /\ TypeOK /\ HandlerOf(c) /\ DirOK /\ FileOf(c) /\ StepOf(c)
  BY DEF ClaimInv, HandlerOK, FileInv, StepOf, HandleChunk
<1>1. /\ t \in Transfer /\ Holds(c) /\ pc[c] = "idle" /\ t.cursor < t.size
      /\ UNCHANGED <<paths, dir, final>>
  BY <1>0, ChunkWrites, Zenon
<1>2. PICK n, m, r :
        /\ n \in Nat /\ m \in Nat
        /\ Wrote(c, n, m, r)
        /\ \/ /\ \E j \in Nat : tr' = [tr EXCEPT ![c] = Advanced(t, m, j)]
              /\ UNCHANGED <<pc, loc>>
           \/ /\ tr' = [tr EXCEPT ![c] = None]
              /\ pc' = [pc EXCEPT ![c] = "abandon"]
              /\ loc' = [loc EXCEPT ![c] = [NoLocal EXCEPT
                            !.partial = tr[c].partial, !.claim = tr[c].claim]]
  BY <1>0, ChunkWrites, Zenon
<1> n \in Nat /\ m \in Nat
  BY <1>2
<1>3. /\ t # None /\ t.partial \in Paths /\ t.file \in Inodes /\ t.claim \in Claims
      /\ t.cursor \in Nat /\ t.size \in Nat /\ t.pending \in [Offsets -> Sent \cup {"none"}]
      /\ paths[t.partial] = t.claim /\ loc[c].prev = None
  BY <1>0, <1>1 DEF Transfer, Sizes, Holds, StillHolds, HandlerOf, NoLocal
<1>4. Mine(c)
  BY <1>1, <1>3 DEF Mine, StillHolds
<1>5. /\ dir[t.partial] = t.file /\ t.cursor <= Len(data[t.file])
      /\ t.uncut \/ Len(data[t.file]) <= t.size
      /\ \A o \in Offsets : t.pending[o] # "none" => o < t.size
  BY <1>0, <1>3, <1>4 DEF FileOf
<1>6. data[t.file] \in Seq(Block) /\ Len(data[t.file]) \in Nat
  BY <1>0, <1>3, DataLen
<1>7. t.cursor + n <= t.size
  <2>1. CASE n \in {0, 1}
    <3>1. t.cursor \in Nat /\ t.size \in Nat /\ t.cursor < t.size
      BY <1>1, <1>3
    <3> HIDE DEF t
    <3> QED
      BY <2>1, <3>1
  <2>2. CASE n \notin {0, 1}
    <3>1. n \in 2 .. n
      BY <2>2
    <3>2. t.cursor + n - 1 \in Offsets /\ t.pending[t.cursor + n - 1] # "none"
      BY <1>2, <3>1 DEF Wrote
    <3>3. t.cursor + n - 1 < t.size
      BY <1>5, <3>2
    <3> QED
      BY <1>3, <3>3
  <2> QED
    BY <2>1, <2>2
<1> DEFINE w == WriteAt(data[t.file], t.cursor, n, r)
<1>8. /\ w \in Seq(Block)
      /\ Len(w) = IF Len(data[t.file]) < t.cursor + n THEN t.cursor + n ELSE Len(data[t.file])
      /\ \A i \in 1 .. Len(w) :
           w[i] = IF i > t.cursor /\ i <= t.cursor + n THEN r[i - t.cursor]
                  ELSE IF i <= Len(data[t.file]) THEN data[t.file][i] ELSE "hole"
  <2>1. n \in Nat /\ t.cursor \in Nat /\ data[t.file] \in Seq(Block)
    BY <1>2, <1>3, <1>6
  <2>2. \A i \in 1 .. n : r[i] \in Sent
    BY <1>2 DEF Wrote
  <2> DEFINE d == data[t.file]
             cur == t.cursor
  <2> HIDE DEF t, d, cur
  <2>3. n \in Nat /\ cur \in Nat /\ d \in Seq(Block)
    BY <2>1 DEF d, cur
  <2>4. /\ WriteAt(d, cur, n, r) \in Seq(Block)
        /\ Len(WriteAt(d, cur, n, r)) = IF Len(d) < cur + n THEN cur + n ELSE Len(d)
        /\ \A i \in 1 .. Len(WriteAt(d, cur, n, r)) :
             WriteAt(d, cur, n, r)[i] = IF i > cur /\ i <= cur + n THEN r[i - cur]
                                        ELSE IF i <= Len(d) THEN d[i] ELSE "hole"
    BY <2>2, <2>3, WriteAtBlocks
  <2> QED
    BY <2>4 DEF d, cur
<1>9. data' = [data EXCEPT ![dir[t.partial]] = w] /\ m <= n
  BY <1>2, <1>5 DEF Wrote
<1>10. ASSUME NEW i \in 1 .. Len(w) PROVE w[i] # "hole"
  <2> DEFINE len == Len(data[t.file])
  <2>a. Len(w) \in Nat
    <3> HIDE DEF w
    <3> QED
      BY <1>8, SeqLen
  <2>0. i \in Nat /\ i >= 1 /\ Len(w) \in Nat /\ i <= Len(w)
    BY <2>a
  <2>1. CASE i > t.cursor /\ i <= t.cursor + n
    <3>1. i - t.cursor \in 1 .. n
      BY <1>3, <2>0, <2>1
    <3>2. r[i - t.cursor] \in Sent
      BY <1>2, <3>1 DEF Wrote
    <3> QED
      BY <1>8, <2>1, <3>2 DEF Sent
  <2>2. CASE ~(i > t.cursor /\ i <= t.cursor + n)
    <3>1. i <= Len(data[t.file])
      <4>1. /\ t.cursor \in Nat /\ len \in Nat /\ t.cursor <= len
            /\ i <= IF len < t.cursor + n THEN t.cursor + n ELSE len
        BY <1>3, <1>5, <1>6, <1>8, <2>0, Zenon
      <4> HIDE DEF t, len
      <4>2. i <= len
        BY <2>0, <2>2, <4>1, BelowWrite
      <4> QED
        BY <4>2 DEF len
    <3>2. i \in 1 .. Len(data[t.file])
      BY <1>6, <2>0, <3>1
    <3>5. w[i] = data[t.file][i]
      BY <1>8, <2>2, <3>1
    <3>3. \A j \in 1 .. Len(data[t.file]) : data[t.file][j] # "hole"
      BY <1>3, <1>5 DEF FileInv, NoHoles
    <3> QED
      BY <3>2, <3>3, <3>5
  <2> QED
    BY <2>1, <2>2
<1>11. Owns(c, t.partial)
  BY <1>3 DEF Owns, Has
<1>12. FileOf(c)'
  <2>1. CASE tr' = [tr EXCEPT ![c] = None] /\ pc' = [pc EXCEPT ![c] = "abandon"]
    <3>1. tr'[c] = None /\ pc'[c] = "abandon"
      BY <1>0, <2>1 DEF TypeOK
    <3> QED
      BY <3>1 DEF FileOf, Mine
  <2>2. CASE \E j \in Nat : tr' = [tr EXCEPT ![c] = Advanced(t, m, j)] /\ UNCHANGED <<pc, loc>>
    <3>1. PICK j \in Nat : tr' = [tr EXCEPT ![c] = Advanced(t, m, j)] /\ UNCHANGED <<pc, loc>>
      BY <2>2, Zenon
    <3>2. t.cursor + m <= MaxSize
      <4>1. t.cursor \in Nat /\ t.cursor + n <= MaxSize /\ m <= n
        BY <1>2, <1>3, <1>9 DEF Wrote
      <4> HIDE DEF t
      <4> QED
        BY <4>1
    <3>3. /\ Advanced(t, m, j).file = t.file /\ Advanced(t, m, j).partial = t.partial
          /\ Advanced(t, m, j).size = t.size /\ Advanced(t, m, j).cursor = t.cursor + m
          /\ Advanced(t, m, j).uncut = t.uncut
          /\ \A o \in Offsets : \/ Advanced(t, m, j).pending[o] = "none"
                                \/ Advanced(t, m, j).pending[o] = t.pending[o]
      BY <1>1, <3>2, AdvancedType
    <3>4. tr'[c] = Advanced(t, m, j) /\ pc'[c] = "idle"
      BY <1>0, <1>1, <3>1 DEF TypeOK
    <3>5. data'[t.file] = w
      BY <1>0, <1>3, <1>5, <1>9 DEF TypeOK
    <3>6. t.cursor + m <= Len(w) /\ (t.uncut \/ Len(w) <= t.size)
      <4> DEFINE cur == t.cursor
                 len == Len(data[t.file])
                 lim == t.size
                 new == Len(w)
      <4>1. new = IF len < cur + n THEN cur + n ELSE len
        BY <1>8
      <4>2. cur \in Nat /\ len \in Nat /\ lim \in Nat /\ cur + n <= lim
        BY <1>3, <1>6, <1>7
      <4>3. m <= n
        BY <1>9
      <4>4. t.uncut \/ len <= lim
        BY <1>5
      <4> HIDE DEF cur, len, lim, new
      <4>5. cur + m <= new /\ (len <= lim => new <= lim)
        BY <4>1, <4>2, <4>3
      <4> QED
        BY <4>4, <4>5, Zenon DEF cur, len, lim, new
    <3>7. \A o \in Offsets : tr'[c].pending[o] # "none" => o < tr'[c].size
      BY <1>5, <3>3, <3>4
    <3> HIDE DEF t, w
    <3> QED
      BY <1>1, <1>5, <3>3, <3>4, <3>5, <3>6, <3>7 DEF FileOf
  <2> QED
    BY <1>2, <2>1, <2>2
<1> HIDE DEF t, w
<1>13. dir[t.partial] # None
  BY <1>3, <1>5
<1> QED
  BY <1>0, <1>1, <1>3, <1>8, <1>9, <1>10, <1>11, <1>12, <1>13, OwnFile, Zenon

LEMMA ChunkStepFiles ==
    ASSUME ClaimInv, FileInv, NEW c \in Conns, HandleChunk(c)
    PROVE  FileInv'
<1> USE NoneAssumption
<1>0. Frame(c) /\ HandlerOf(c) /\ TypeOK /\ StepOf(c)
  BY ChunkStepType DEF ClaimInv, HandlerOK, StepOf
<1>1. CASE ChunkWritten(c) \/ ChunkFails(c)
  BY <1>0, <1>1, WriteFiles
<1>2. CASE ChunkBuffered(c)
  <2>1. PICK o \in Offsets, b \in Sent : o < tr[c].size /\ tr' = [tr EXCEPT ![c].pending[o] = b]
    BY <1>2, Zenon DEF ChunkBuffered
  <2>2. tr[c] \in Transfer /\ pc[c] = "idle" /\ UNCHANGED <<paths, live, dir, data, final, pc, loc>>
        /\ tr[c] # None
    BY <1>0, <1>2 DEF ChunkBuffered, TypeOK
  <2> DEFINE pend == [tr[c].pending EXCEPT ![o] = b]
             t == [tr[c] EXCEPT !.pending = pend]
  <2>3. tr'[c] = t
    BY <1>0, <2>1 DEF TypeOK
  <2>4. /\ t.claim = tr[c].claim /\ t.partial = tr[c].partial /\ t.file = tr[c].file
        /\ t.size = tr[c].size /\ t.cursor = tr[c].cursor /\ t.pending = pend
        /\ t.uncut = tr[c].uncut
    <3> HIDE DEF pend
    <3> QED
      BY <2>2 DEF Transfer
  <2>5. \A x \in Offsets : pend[x] = IF x = o THEN b ELSE tr[c].pending[x]
    BY <2>2 DEF Transfer
  <2> HIDE DEF t, pend
  <2>6. FileOf(c)
    BY DEF FileInv
  <2>7. FileOf(c)'
    <3>1. Mine(c)' => Mine(c)
      BY <2>2, <2>3, <2>4 DEF Mine, StillHolds
    <3>2. \A x \in Offsets : tr'[c].pending[x] # "none" => x < tr'[c].size
      BY <2>1, <2>2, <2>3, <2>4, <2>5, <2>6 DEF FileOf
    <3> QED
      BY <2>2, <2>3, <2>4, <2>6, <3>1, <3>2 DEF FileOf
  <2>8. \A d \in Conns : d # c => FileOf(d)'
    BY <1>0, <2>2, OthersKept
  <2>9. DirOK' /\ DeliveredIntact' /\ NoHoles'
    BY <2>2, FilesShrink
  <2> QED
    BY <2>7, <2>8, <2>9 DEF FileInv
<1>3. CASE AbandonRemove(c)
  <2>1. /\ pc[c] = "abandon" /\ pc'[c] = "release" /\ UNCHANGED <<paths, data, final, tr, loc>>
        /\ \/ dir' = dir
           \/ /\ paths[loc[c].partial] = loc[c].claim
              /\ dir' = [dir EXCEPT ![loc[c].partial] = None]
    BY <1>0, <1>3, Zenon DEF AbandonRemove, AfterRemove, WithoutPrivate, StillHolds, TypeOK
  <2>2. /\ tr[c] = None /\ loc[c].claim # None /\ loc[c].prev = None
        /\ loc[c].partial \in Paths
    BY <1>0, <2>1 DEF HandlerOf, TypeOK, Local
  <2>3. \A q \in Paths : dir'[q] # dir[q] => Owns(c, q) /\ dir'[q] = None
    <3>1. CASE dir' = dir
      BY <3>1
    <3>2. CASE /\ paths[loc[c].partial] = loc[c].claim
               /\ dir' = [dir EXCEPT ![loc[c].partial] = None]
      <4>1. Owns(c, loc[c].partial)
        BY <2>2, <3>2 DEF Owns, Has
      <4> QED
        BY <1>0, <3>2, <4>1 DEF TypeOK
    <3> QED
      BY <2>1, <3>1, <3>2
  <2> QED
    BY <1>0, <2>1, <2>2, <2>3, QuietStep
<1>4. CASE AbandonRelease(c)
  <2>1. /\ pc[c] = "release" /\ dir' = WithoutPrivate(loc[c].partial)
        /\ Return(c) /\ UNCHANGED <<data, final, tr>>
    BY <1>4 DEF AbandonRelease, Release
  <2>2. tr[c] = None /\ loc[c].partial \in Paths
    BY <1>0, <2>1 DEF HandlerOf, TypeOK, Local
  <2>3. \A q \in Paths : dir'[q] # dir[q] => Owns(c, q) /\ dir'[q] = None
    BY <1>0, <2>1, <2>2 DEF WithoutPrivate, Owns, Uses, Paths, TypeOK
  <2>4. pc'[c] = "idle"
    BY <1>0, <2>1, ReturnType
  <2> QED
    BY <1>0, <2>1, <2>2, <2>3, <2>4, QuietStep, Zenon
<1> QED
  BY <1>1, <1>2, <1>3, <1>4 DEF HandleChunk

(***************************************************************************)
(* handleDone: what the verification has read is what is there, and the    *)
(* rename moves the file that was verified.                                *)
(***************************************************************************)
LEMMA VerifyFiles ==
    ASSUME ClaimInv, FileInv, NEW c \in Conns, DoneVerify(c) \/ VerifyRead(c) \/ VerifyMatch(c),
           Frame(c)
    PROVE  FileInv'
<1> USE NoneAssumption, SizeAssumption
<1> DEFINE s == data[tr[c].file]
<1>0. TypeOK /\ HandlerOf(c) /\ FileOf(c) /\ StepOf(c)
  BY DEF ClaimInv, HandlerOK, FileInv, StepOf, HandleDone
<1>1. /\ Holds(c) /\ tr[c] # None /\ UNCHANGED <<paths, dir, data, final, tr>>
      /\ pc[c] \in {"idle", "verify"} /\ pc'[c] \in {"verify", "rename"}
  BY <1>0 DEF DoneVerify, VerifyRead, VerifyMatch, Holds, TypeOK
<1>2. Mine(c)
  BY <1>1 DEF Mine, Holds
<1>3. /\ s \in Seq(Block) /\ Len(s) \in Nat /\ loc[c].pos \in Nat /\ loc[c].match \in BOOLEAN
  <2>1. tr[c].file \in Inodes
    BY <1>0, <1>1 DEF TypeOK, Transfer
  <2>2. s \in Seq(Block) /\ Len(s) \in Nat
    BY <1>0, <2>1, DataLen
  <2>3. loc[c].pos \in Nat /\ loc[c].match \in BOOLEAN
    BY <1>0 DEF TypeOK, Local
  <2> QED
    BY <2>2, <2>3
<1>4. (\A d \in Conns : d # c => FileOf(d)') /\ DirOK' /\ DeliveredIntact' /\ NoHoles'
  BY <1>0, <1>1, OthersKept, FilesShrink, Zenon
<1>5. pc'[c] = "verify" /\ loc'[c].match =>
        \A i \in 1 .. loc'[c].pos : i <= Len(s) /\ s[i] = "good"
  <2>1. CASE DoneVerify(c)
    <3>1. loc'[c] = NoLocal /\ NoLocal.pos = 0
      BY <1>0, <2>1 DEF DoneVerify, HandlerOf, NoLocal
    <3> QED
      BY <3>1
  <2>2. CASE VerifyRead(c)
    <3>1. /\ loc'[c].pos = loc[c].pos + 1
          /\ loc'[c].match = (loc[c].match /\ s[loc[c].pos + 1] = "good")
          /\ loc[c].pos < Len(s) /\ pc[c] = "verify"
      BY <1>0, <2>2 DEF VerifyRead, TypeOK, Local
    <3>2. loc[c].match => \A i \in 1 .. loc[c].pos : i <= Len(s) /\ s[i] = "good"
      BY <1>0, <1>2, <3>1 DEF FileOf
    <3> HIDE DEF s
    <3> SUFFICES ASSUME loc'[c].match, NEW i \in 1 .. loc'[c].pos
                 PROVE  i <= Len(s) /\ s[i] = "good"
      OBVIOUS
    <3>3. loc[c].match /\ s[loc[c].pos + 1] = "good"
      BY <3>1, Zenon
    <3>4. i \in 1 .. loc[c].pos \/ i = loc[c].pos + 1
      BY <1>3, <3>1
    <3>5. CASE i \in 1 .. loc[c].pos
      BY <3>2, <3>3, <3>5
    <3>6. CASE i = loc[c].pos + 1
      <4>1. loc[c].pos + 1 <= Len(s)
        BY <1>3, <3>1
      <4> QED
        BY <3>3, <3>6, <4>1
    <3> QED
      BY <3>4, <3>5, <3>6
  <2>3. CASE VerifyMatch(c)
    BY <1>0, <2>3, Zenon DEF VerifyMatch, TypeOK
  <2> QED
    BY <2>1, <2>2, <2>3
<1>6. pc'[c] = "rename" => s = Verified
  <2> SUFFICES ASSUME pc'[c] = "rename" PROVE s = Verified
    OBVIOUS
  <2>1. pc[c] = "verify" /\ loc[c].pos >= Len(s) /\ loc[c].match /\ loc[c].pos = FileLen
    BY <1>0, <1>1 DEF DoneVerify, VerifyRead, VerifyMatch, HashMatches, TypeOK
  <2>2. \A i \in 1 .. loc[c].pos : i <= Len(s) /\ s[i] = "good"
    BY <1>0, <1>2, <2>1 DEF FileOf
  <2> HIDE DEF s
  <2>3. Len(s) = FileLen
    <3>1. CASE FileLen = 0
      BY <1>3, <2>1, <3>1
    <3>2. CASE FileLen # 0
      <4>1. FileLen \in 1 .. loc[c].pos
        BY <2>1, <3>2
      <4>2. FileLen <= Len(s)
        BY <2>2, <4>1
      <4> QED
        BY <1>3, <2>1, <4>2
    <3> QED
      BY <3>1, <3>2
  <2>4. s = [i \in 1 .. Len(s) |-> s[i]]
    BY <1>3
  <2> QED
    BY <2>1, <2>2, <2>3, <2>4 DEF Verified
<1>7. FileOf(c)'
  BY <1>0, <1>1, <1>2, <1>5, <1>6 DEF FileOf
<1> QED
  BY <1>4, <1>7 DEF FileInv

LEMMA RenameFiles ==
    ASSUME ClaimInv, FileInv, NEW c \in Conns, Rename(c), Frame(c)
    PROVE  FileInv'
<1> USE NoneAssumption
<1> DEFINE p == tr[c].partial
           i == dir[p]
<1>0. TypeOK /\ HandlerOf(c) /\ FileOf(c) /\ DirOK /\ StepOf(c)
  BY DEF ClaimInv, HandlerOK, FileInv, StepOf, HandleDone
<1>1. /\ Holds(c) /\ tr[c] # None /\ pc[c] = "rename" /\ pc'[c] = "commit" /\ i # None
      /\ final' = final \cup {i} /\ dir' = [dir EXCEPT ![p] = None]
      /\ UNCHANGED <<paths, data, tr>>
  BY <1>0 DEF Rename, Holds, TypeOK
<1>2. p \in Paths /\ i \in Inodes /\ tr[c].claim \in Claims
  BY <1>0, <1>1 DEF TypeOK, Transfer
<1>3. Mine(c)
  BY <1>1, Zenon DEF Mine, Holds
<1>4. data[i] = Verified
  BY <1>0, <1>1, <1>3 DEF FileOf
<1>5. Owns(c, p)
  <2>1. loc[c].prev = None
    BY <1>0, <1>1 DEF HandlerOf
  <2> QED
    BY <1>1, <1>2, <2>1 DEF Owns, Has, Holds, StillHolds
<1> HIDE DEF p, i
<1>6. \A q \in Paths : dir'[q] = IF q = p THEN None ELSE dir[q]
  BY <1>0, <1>1, <1>2, Zenon DEF TypeOK
<1>7. \A d \in Conns : d # c => FileOf(d)'
  BY <1>0, <1>1, <1>5, <1>6, OthersKept, Zenon
<1>8. FileOf(c)'
  <2>1. tr[c] # None => \A o \in Offsets : tr[c].pending[o] # "none" => o < tr[c].size
    BY <1>0, Zenon DEF FileOf
  <2> QED
    BY <1>1, <2>1 DEF FileOf, Mine
<1>9. DirOK'
  <2>1. \A q \in Paths : q # p => dir[q] # i
    BY <1>0, <1>1, <1>2, Zenon DEF DirOK, i
  <2>2. None \notin final'
    BY <1>0, <1>1 DEF TypeOK
  <2>3. final' = final \cup {i} /\ None \notin final
    BY <1>0, <1>1 DEF TypeOK, i
  <2>4. \A q, r \in Paths : dir'[q] # None /\ dir'[q] = dir'[r] => q = r
    BY <1>0, <1>6 DEF DirOK
  <2>5. ASSUME NEW q \in Paths PROVE dir'[q] \notin final'
    <3>1. CASE q = p
      BY <3>1, <1>6, <2>2
    <3>2. CASE q # p
      BY <3>2, <1>0, <1>6, <2>1, <2>3 DEF DirOK
    <3> QED
      BY <3>1, <3>2
  <2> QED
    BY <2>4, <2>5 DEF DirOK
<1>10. DeliveredIntact' /\ NoHoles'
  <2>1. final' = final \cup {i} /\ data' = data
    BY <1>1 DEF i
  <2>2. DeliveredIntact'
    BY <1>4, <2>1 DEF FileInv, DeliveredIntact
  <2>3. NoHoles'
    BY <1>6, <2>1 DEF FileInv, NoHoles
  <2> QED
    BY <2>2, <2>3
<1> QED
  BY <1>7, <1>8, <1>9, <1>10 DEF FileInv

LEMMA DoneStepFiles ==
    ASSUME ClaimInv, FileInv, NEW c \in Conns, HandleDone(c) \/ Abort(c) \/ Close(c)
    PROVE  FileInv'
<1> USE NoneAssumption
<1>0. Frame(c) /\ HandlerOf(c) /\ TypeOK /\ StepOf(c)
  BY DoneStepType DEF ClaimInv, HandlerOK, StepOf
<1>1. CASE DoneVerify(c) \/ VerifyRead(c) \/ VerifyMatch(c)
  BY <1>0, <1>1, VerifyFiles
<1>2. CASE Rename(c)
  BY <1>0, <1>2, RenameFiles
<1>3. CASE DoneRefused(c)
  <2>1. pc[c] = "idle" /\ UNCHANGED <<paths, dir, data, final, tr, pc, loc>>
    BY <1>3 DEF DoneRefused
  <2>2. loc[c].prev = None
    BY <1>0, <2>1 DEF HandlerOf
  <2> QED
    BY <1>0, <2>1, <2>2, QuietStep
<1>4. CASE VerifyFails(c)
  <2>1. /\ pc[c] = "verify" /\ pc'[c] = "idle" /\ loc'[c] = NoLocal
        /\ UNCHANGED <<paths, dir, data, final, tr>>
    BY <1>0, <1>4, ReturnType DEF VerifyFails
  <2>2. loc'[c].prev = None
    BY <2>1 DEF NoLocal
  <2> QED
    BY <1>0, <2>1, <2>2, QuietStep, Zenon
<1>5. CASE Discard(c) \/ CommitFails(c)
  <2>1. /\ tr[c] # None /\ tr'[c] = None /\ pc'[c] = "idle" /\ data' = data
        /\ final' \subseteq final /\ dir' = WithoutPrivate(tr[c].partial)
    BY <1>0, <1>5, ReturnType, Zenon DEF Discard, CommitFails, Release, HandlerOf, TypeOK
  <2>2. tr[c].partial \in Paths
    BY <1>0, <2>1 DEF TypeOK, Transfer
  <2>3. \A q \in Paths : dir'[q] # dir[q] => Owns(c, q) /\ dir'[q] = None
    BY <1>0, <2>1, <2>2, Zenon DEF WithoutPrivate, Owns, Uses, Paths, TypeOK
  <2> QED
    BY <1>0, <2>1, <2>3, QuietStep, Zenon
<1> QED
  BY <1>1, <1>2, <1>3, <1>4, <1>5
  DEF HandleDone, Superseded, VerifyMismatch, RenameFails, Commit, Abort, Close

(***************************************************************************)
(* The invariant is inductive.                                             *)
(***************************************************************************)
LEMMA FileStep ==
    ASSUME ClaimInv, FileInv, [Next]_vars
    PROVE  FileInv'
<1>1. ASSUME NEW c \in Conns, StepOf(c) PROVE FileInv'
  BY <1>1, InitStepFiles, ChunkStepFiles, DoneStepFiles DEF StepOf
<1>2. CASE UNCHANGED <<paths, dir, data, final, tr, pc, loc>>
  BY <1>2 DEF FileInv, DirOK, FileOf, Mine, StillHolds, DeliveredIntact, NoHoles
<1>3. CASE Crash
  <2>1. /\ \A c \in Conns : tr'[c] = None /\ pc'[c] = "idle"
        /\ UNCHANGED <<dir, data, final>>
    BY <1>3 DEF Crash
  <2>2. \A c \in Conns : FileOf(c)'
    BY <2>1 DEF FileOf, Mine
  <2> QED
    BY <2>1, <2>2 DEF FileInv, DirOK, DeliveredIntact, NoHoles
<1> QED
  BY <1>1, <1>2, <1>3, Zenon DEF Next, StepOf, GoesQuiet, vars

LEMMA FileInit ==
    ASSUME Init
    PROVE  FileInv
<1>1. /\ \A p \in Paths : dir[p] = None
      /\ final = {}
      /\ \A c \in Conns : tr[c] = None /\ pc[c] = "idle"
  BY DEF Init
<1>2. \A c \in Conns : FileOf(c)
  BY <1>1 DEF FileOf, Mine
<1> QED
  BY <1>1, <1>2 DEF FileInv, DirOK, DeliveredIntact, NoHoles

(***************************************************************************)
(* The inductive invariant: the claim table of claimPartial and the files  *)
(* that handleInit, handleChunk and handleDone open, write and rename agree *)
(* in every reachable state.                                               *)
(***************************************************************************)
THEOREM FilesCorrect == Spec => []IndInv
<1>1. Init => IndInv
  BY ClaimInit, FileInit DEF IndInv
<1>2. IndInv /\ [Next]_vars => IndInv'
  BY ClaimStep, FileStep DEF IndInv
<1> QED
  BY <1>1, <1>2, PTL DEF Spec

(***************************************************************************)
(* Whatever connections stall, retry, abort or fail, and wherever the      *)
(* process crashes, a file that handleDone renamed into receivedDir has    *)
(* the content its hash stands for.                                        *)
(***************************************************************************)
THEOREM DeliveryCorrect == Spec => []DeliveredIntact
<1>1. IndInv => DeliveredIntact
  BY DEF IndInv, FileInv
<1> QED
  BY <1>1, FilesCorrect, PTL

(***************************************************************************)
(* A .partial never has a gap, so its length is where a resume continues   *)
(* (resumeOffset).                                                         *)
(***************************************************************************)
THEOREM PartialsContiguous == Spec => []NoHoles
<1>1. IndInv => NoHoles
  BY DEF IndInv, FileInv
<1> QED
  BY <1>1, FilesCorrect, PTL

(***************************************************************************)
(* A transfer that holds its claim has open the file its path names, with  *)
(* every acknowledged byte and, unless handleInit could not truncate it,   *)
(* none past the declared size.                                            *)
(***************************************************************************)
THEOREM HolderHasFile == Spec => []HolderOwnsFile
<1>1. IndInv => HolderOwnsFile
  BY Zenon DEF IndInv, FileInv, FileOf, Mine, Holds, HolderOwnsFile
<1> QED
  BY <1>1, FilesCorrect, PTL

(***************************************************************************)
(* A delivered file is never written again, and only the onCommit failure  *)
(* of the transfer that delivered it removes it.                           *)
(***************************************************************************)
THEOREM DeliveredForGood == Spec => FinalImmutable
<1> DEFINE Good == \A i \in final :
             /\ data'[i] = data[i]
             /\ i \notin final' => \E c \in Conns : pc[c] = "commit" /\ loc[c].file = i
<1>1. ASSUME IndInv, IndInv', [Next]_vars PROVE Good
  <2> SUFFICES ASSUME NEW i \in final
               PROVE  /\ data'[i] = data[i]
                      /\ i \notin final' => \E c \in Conns : pc[c] = "commit" /\ loc[c].file = i
    OBVIOUS
  <2>1. CASE i \in final'
    BY <1>1, <2>1 DEF IndInv, FileInv, DeliveredIntact
  <2>2. CASE i \notin final'
    <3>1. PICK c \in Conns : CommitFails(c)
      <4>1. final' # final
        BY <2>2
      <4>2. ~(\E k \in Claims : GoesQuiet(k)) /\ ~Crash /\ vars' # vars
        BY <4>1 DEF GoesQuiet, Crash, vars
      <4>3. \A c \in Conns : ~HandleInit(c)
        BY <4>1, Zenon DEF HandleInit, InitFull, InitAgain, InitNew, InitNotAdmitted, InitLostRace,
                    ClaimPartial, InitFails, OpenPartial, InitInstall
      <4>4. \A c \in Conns : ~HandleChunk(c)
        BY <4>1 DEF HandleChunk, ChunkWritten, ChunkFails, ChunkBuffered, AbandonRemove,
                    AbandonRelease
      <4>5. \A c \in Conns : ~Discard(c)
        BY <4>1 DEF Discard
      <4>6. \A c \in Conns : ~Rename(c)
        BY <2>2 DEF Rename
      <4>7. \A c \in Conns : HandleDone(c) => CommitFails(c)
        BY <4>1, <4>5, <4>6
        DEF HandleDone, Superseded, DoneRefused, DoneVerify, VerifyRead, VerifyFails,
            VerifyMatch, VerifyMismatch, RenameFails, Commit
      <4> QED
        BY <1>1, <4>2, <4>3, <4>4, <4>5, <4>7 DEF Next, Abort, Close
    <3> QED
      BY <2>2, <3>1 DEF CommitFails
  <2> QED
    BY <2>1, <2>2
<1>2. IndInv /\ IndInv' /\ [Next]_vars => [Good]_vars
  BY <1>1
<1> QED
  BY <1>2, FilesCorrect, PTL DEF Spec, FinalImmutable
=============================================================================
