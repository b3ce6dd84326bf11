----------------------- MODULE StreamReceiverProofs -----------------------
(* Proofs about StreamReceiver, for every set of connections, claims,      *)
(* inodes and private names and every file length: the types, and the      *)
(* claim table, that is who owns which claim and which path, through       *)
(* takeovers, refused INITs, releases, stale claims and crashes.           *)
EXTENDS StreamReceiver, TLAPS

(***************************************************************************)
(* What the provers need to know of sequences.                             *)
(***************************************************************************)
LEMMA SeqLen ==
    ASSUME NEW S, NEW s \in Seq(S)
    PROVE  Len(s) \in Nat /\ DOMAIN s = 1 .. Len(s)
  OBVIOUS

(***************************************************************************)
(* What WriteAt does to a sequence of blocks.                              *)
(***************************************************************************)
LEMMA IntervalEnd ==
    ASSUME NEW a \in Nat, NEW b \in Nat, 1 .. a = 1 .. b
    PROVE  a = b
<1>1. CASE a < b
  <2>1. b \in 1 .. b /\ b \notin 1 .. a
    BY <1>1
  <2> QED
    BY <2>1
<1>2. CASE b < a
  <2>1. a \in 1 .. a /\ a \notin 1 .. b
    BY <1>2
  <2> QED
    BY <2>1
<1> QED
  BY <1>1, <1>2

(***************************************************************************)
(* Every file is a sequence of blocks, and so has a length.                *)
(***************************************************************************)
LEMMA DataLen ==
    ASSUME TypeOK, NEW i \in Inodes
    PROVE  data[i] \in Seq(Block) /\ Len(data[i]) \in Nat
<1>1. data[i] \in Seq(Block)
  BY DEF TypeOK
<1> HIDE DEF Block
<1>2. Len(data[i]) \in Nat
  BY <1>1, SeqLen
<1> QED
  BY <1>1, <1>2

LEMMA WriteAtBlocks ==
    ASSUME NEW s \in Seq(Block), NEW off \in Nat, NEW n \in Nat, NEW blk,
           \A i \in 1 .. n : blk[i] \in Sent
    PROVE  /\ WriteAt(s, off, n, blk) \in Seq(Block)
           /\ Len(WriteAt(s, off, n, blk)) = IF Len(s) < off + n THEN off + n ELSE Len(s)
           /\ \A i \in 1 .. Len(WriteAt(s, off, n, blk)) :
                WriteAt(s, off, n, blk)[i] =
                  IF i > off /\ i <= off + n THEN blk[i - off]
                  ELSE IF i <= Len(s) THEN s[i] ELSE "hole"
<1> DEFINE m == IF Len(s) < off + n THEN off + n ELSE Len(s)
           f(i) == IF i > off /\ i <= off + n THEN blk[i - off]
                   ELSE IF i <= Len(s) THEN s[i] ELSE "hole"
           w == [i \in 1 .. m |-> f(i)]
<1>1. m \in Nat
  BY SeqLen
<1>2. \A i \in 1 .. m : f(i) \in Block
  BY SeqLen DEF Block
<1>3. w \in [1 .. m -> Block]
  BY <1>2
<1>4. w \in Seq(Block) /\ Len(w) = m
  <2> HIDE DEF m, w
  <2>1. w \in Seq(Block)
    BY <1>1, <1>3
  <2>2. DOMAIN w = 1 .. Len(w) /\ Len(w) \in Nat
    BY <2>1, SeqLen
  <2>3. DOMAIN w = 1 .. m
    BY <1>3
  <2> QED
    BY <1>1, <2>1, <2>2, <2>3, IntervalEnd, Zenon
<1>6. WriteAt(s, off, n, blk) = w
  BY DEF WriteAt
<1> QED
  BY <1>4, <1>6

(***************************************************************************)
(* The blocks a CHUNK writes: sent ones, and all below the largest size.   *)
(***************************************************************************)
LEMMA RunBlocks ==
    ASSUME NEW t \in Transfer, NEW b \in Sent, NEW n \in Nat, n <= MaxSize + 1,
           \A i \in 1 .. n : Run(t, b)[i] # "none"
    PROVE  /\ \A i \in 1 .. n : Run(t, b)[i] \in Sent
           /\ \A i \in 2 .. n : /\ t.cursor + i - 1 \in Offsets
                                /\ t.pending[t.cursor + i - 1] # "none"
           /\ n > 1 => t.cursor + n <= MaxSize
<1>1. MaxSize \in Nat /\ t.cursor \in 0 .. MaxSize
      /\ t.pending \in [Offsets -> Sent \cup {"none"}]
  BY SizeAssumption DEF Transfer, Sizes
<1>2. ASSUME NEW i \in 2 .. n
      PROVE  /\ t.cursor + i - 1 \in Offsets
             /\ t.pending[t.cursor + i - 1] # "none"
             /\ Run(t, b)[i] = t.pending[t.cursor + i - 1]
  <2>1. i \in 1 .. n /\ i \in 1 .. MaxSize + 1 /\ i # 1
    BY <1>1
  <2>2. Run(t, b)[i] # "none"
    BY <2>1
  <2>3. Run(t, b)[i] = IF t.cursor + i - 1 \in Offsets
                       THEN t.pending[t.cursor + i - 1] ELSE "none"
    BY <2>1 DEF Run
  <2> QED
    BY <2>2, <2>3
<1>3. ASSUME n > 1 PROVE t.cursor + n <= MaxSize
  <2>1. t.cursor + n - 1 \in Offsets
    BY <1>2, <1>3
  <2> QED
    BY <2>1, <1>1 DEF Offsets, Sizes
<1>4. ASSUME NEW i \in 1 .. n PROVE Run(t, b)[i] \in Sent
  <2>1. CASE i = 1
    BY <2>1, <1>1 DEF Run
  <2>2. CASE i # 1
    <3>1. i \in 2 .. n
      BY <2>2
    <3> QED
      BY <3>1, <1>1, <1>2 DEF Sent
  <2> QED
    BY <2>1, <2>2
<1> QED
  BY <1>2, <1>3, <1>4

(***************************************************************************)
(* Records: the empty locals, and locals and transfers with a field        *)
(* replaced, are of their types.                                           *)
(***************************************************************************)
LEMMA LocalType ==
    /\ NoLocal \in Local
    /\ \A l \in Local :
         /\ \A p \in Paths : [l EXCEPT !.partial = p] \in Local
         /\ \A k \in Claims \cup {None} : [l EXCEPT !.claim = k] \in Local
         /\ \A k \in Claims \cup {None} : [l EXCEPT !.prev = k] \in Local
         /\ \A n \in Sizes : [l EXCEPT !.size = n] \in Local
         /\ \A i \in Inodes \cup {None} : [l EXCEPT !.file = i] \in Local
         /\ \A n \in Nat : [l EXCEPT !.pos = n] \in Local
         /\ \A b \in BOOLEAN : [l EXCEPT !.match = b] \in Local
<1>1. NoLocal \in Local
  BY SizeAssumption DEF NoLocal, Local, Paths, Sizes
<1>2. ASSUME NEW l \in Local, NEW p \in Paths PROVE [l EXCEPT !.partial = p] \in Local
  BY DEF Local
<1>3. ASSUME NEW l \in Local, NEW k \in Claims \cup {None}
      PROVE  [l EXCEPT !.claim = k] \in Local /\ [l EXCEPT !.prev = k] \in Local
  BY DEF Local
<1>4. ASSUME NEW l \in Local, NEW n \in Sizes PROVE [l EXCEPT !.size = n] \in Local
  BY DEF Local
<1>5. ASSUME NEW l \in Local, NEW i \in Inodes \cup {None}
      PROVE  [l EXCEPT !.file = i] \in Local
  BY DEF Local
<1>6. ASSUME NEW l \in Local, NEW n \in Nat PROVE [l EXCEPT !.pos = n] \in Local
  BY DEF Local
<1>7. ASSUME NEW l \in Local, NEW b \in BOOLEAN PROVE [l EXCEPT !.match = b] \in Local
  BY DEF Local
<1> QED
  BY <1>1, <1>2, <1>3, <1>4, <1>5, <1>6, <1>7, Zenon

(***************************************************************************)
(* The transfer that InitInstall records and the one a CHUNK advances.     *)
(***************************************************************************)
LEMMA AdvancedType ==
    ASSUME NEW t \in Transfer, NEW n \in Nat, NEW m \in Nat, t.cursor + n <= MaxSize
    PROVE  /\ Advanced(t, n, m) \in Transfer
           /\ Advanced(t, n, m).file = t.file
           /\ Advanced(t, n, m).partial = t.partial
           /\ Advanced(t, n, m).claim = t.claim
           /\ Advanced(t, n, m).size = t.size
           /\ Advanced(t, n, m).cursor = t.cursor + n
           /\ Advanced(t, n, m).uncut = t.uncut
           /\ \A o \in Offsets : \/ Advanced(t, n, m).pending[o] = "none"
                                 \/ Advanced(t, n, m).pending[o] = t.pending[o]
<1> DEFINE pend == [o \in Offsets |-> IF o <= t.cursor + m /\ o > t.cursor
                                      THEN "none" ELSE t.pending[o]]
<1>1. t.cursor + n \in Sizes
  BY SizeAssumption DEF Transfer, Sizes
<1>2. pend \in [Offsets -> Sent \cup {"none"}]
  BY DEF Transfer
<1>3. Advanced(t, n, m) = [t EXCEPT !.cursor = t.cursor + n, !.pending = pend]
  BY DEF Advanced
<1>4. \A o \in Offsets : pend[o] = "none" \/ pend[o] = t.pending[o]
  OBVIOUS
<1> HIDE DEF pend
<1> QED
  BY <1>1, <1>2, <1>3, <1>4, Zenon DEF Transfer

(***************************************************************************)
(* Typing of the steps that end a handler.                                 *)
(***************************************************************************)
LEMMA ReturnType ==
    ASSUME TypeOK, NEW c \in Conns, Return(c)
    PROVE  /\ pc' \in [Conns -> PCs] /\ loc' \in [Conns -> Local]
           /\ pc'[c] = "idle" /\ loc'[c] = NoLocal
           /\ \A d \in Conns : d # c => pc'[d] = pc[d] /\ loc'[d] = loc[d]
  BY LocalType DEF TypeOK, Return, PCs

LEMMA ReleaseType ==
    ASSUME TypeOK, NEW p \in Paths, NEW k \in Claims, Release(p, k)
    PROVE  /\ paths' \in [Paths -> Claims \cup {None}]
           /\ live' \in SUBSET Claims
           /\ dir' \in [Paths -> Inodes \cup {None}]
  BY DEF TypeOK, Release, Unclaimed, WithoutPrivate

LEMMA DiscardType ==
    ASSUME TypeOK, NEW c \in Conns, Discard(c)
    PROVE  /\ TypeOK'
           /\ tr'[c] = None /\ \A d \in Conns : d # c => tr'[d] = tr[d]
<1>1. tr[c] \in Transfer /\ tr[c].partial \in Paths /\ tr[c].claim \in Claims
  BY DEF TypeOK, Discard, Transfer
<1>2. Release(tr[c].partial, tr[c].claim) /\ Return(c)
  BY DEF Discard
<1>3. tr' \in [Conns -> Transfer \cup {None}]
      /\ tr'[c] = None /\ \A d \in Conns : d # c => tr'[d] = tr[d]
  BY DEF Discard, TypeOK
<1>4. data' = data /\ final' = final
  BY DEF Discard
<1> QED
  BY <1>1, <1>2, <1>3, <1>4, ReturnType, ReleaseType DEF TypeOK

(***************************************************************************)
(* A resume offset is a size.                                              *)
(***************************************************************************)
LEMMA ResumeType ==
    ASSUME NEW len \in Nat, NEW size \in Sizes
    PROVE  ResumeOffset(len, size) \in Sizes
BY SizeAssumption DEF ResumeOffset, Sizes

(***************************************************************************)
(* What handleInit records: a transfer whose cursor the file reaches, in a *)
(* file that is truncated or left as it is, and no longer than the size    *)
(* declared unless the truncation failed.                                  *)
(***************************************************************************)
LEMMA Installed ==
    ASSUME TypeOK, NEW c \in Conns, HandlerOf(c), InitInstall(c)
    PROVE  \E t \in Transfer, w \in Seq(Block) :
             /\ tr' = [tr EXCEPT ![c] = t]
             /\ data' = [data EXCEPT ![loc[c].file] = w]
             /\ t.file = loc[c].file /\ t.partial = loc[c].partial
             /\ t.claim = loc[c].claim /\ t.size = loc[c].size
             /\ \A o \in Offsets : t.pending[o] = "none"
             /\ w = <<>> \/ w = data[loc[c].file]
             /\ t.cursor <= Len(w)
             /\ t.uncut \/ Len(w) <= t.size
<1> DEFINE l == loc[c]
           len == Len(data[l.file])
           pend == [o \in Offsets |-> "none"]
<1>1. l.partial \in Paths /\ l.claim \in Claims /\ l.file \in Inodes /\ l.size \in Sizes
  BY Zenon DEF InitInstall, HandlerOf, TypeOK, Local
<1>2. data[l.file] \in Seq(Block) /\ len \in Nat
  BY <1>1, DataLen
<1>3. PICK resume \in {ResumeOffset(len, l.size), 0}, cut \in BOOLEAN :
        /\ data' = IF resume = 0 /\ cut THEN [data EXCEPT ![l.file] = <<>>] ELSE data
        /\ tr' = [tr EXCEPT ![c] =
                    [file |-> l.file, partial |-> l.partial, claim |-> l.claim,
                     size |-> l.size, cursor |-> resume, pending |-> pend,
                     uncut |-> ~cut /\ len > l.size]]
  BY Zenon DEF InitInstall
<1> DEFINE uncut == ~cut /\ len > l.size
           t == [file |-> l.file, partial |-> l.partial, claim |-> l.claim, size |-> l.size,
                 cursor |-> resume, pending |-> pend, uncut |-> uncut]
           w == IF resume = 0 /\ cut THEN <<>> ELSE data[l.file]
<1>4. resume \in Sizes
  <2>1. 0 \in Sizes
    BY SizeAssumption DEF Sizes
  <2> QED
    BY <1>1, <1>2, <1>3, <2>1, ResumeType
<1>5. pend \in [Offsets -> Sent \cup {"none"}] /\ \A o \in Offsets : pend[o] = "none"
  OBVIOUS
<1>6. uncut \in BOOLEAN
  OBVIOUS
<1>7. resume <= Len(w) /\ (uncut \/ Len(w) <= l.size)
  <2>1. l.size \in Nat /\ Len(<<>>) = 0
    BY <1>1 DEF Sizes
  <2>2. resume # 0 => resume = len /\ len <= l.size
    BY <1>2, <1>3 DEF ResumeOffset
  <2>3. CASE resume = 0 /\ cut
    BY <2>1, <2>3
  <2>4. CASE ~(resume = 0 /\ cut)
    <3>1. w = data[l.file]
      BY <2>4
    <3> HIDE DEF w
    <3> QED
      BY <1>2, <2>1, <2>2, <2>4, <3>1
  <2> QED
    BY <2>3, <2>4
<1>8. w \in Seq(Block) /\ (w = <<>> \/ w = data[l.file])
  BY <1>2
<1>9. data' = [data EXCEPT ![l.file] = w]
  BY <1>1, <1>3, Zenon DEF TypeOK
<1>10. tr' = [tr EXCEPT ![c] = t]
  BY <1>3
<1> HIDE DEF l, pend, uncut, w
<1>11. /\ t \in Transfer /\ t.file = l.file /\ t.partial = l.partial /\ t.claim = l.claim
       /\ t.size = l.size /\ t.cursor = resume /\ t.pending = pend /\ t.uncut = uncut
  BY <1>1, <1>4, <1>5, <1>6 DEF Transfer
<1> HIDE DEF t
<1> QED
  BY <1>5, <1>7, <1>8, <1>9, <1>10, <1>11 DEF l

(***************************************************************************)
(* The locals of an INIT that has chosen its path.                         *)
(***************************************************************************)
LEMMA NewLocalType ==
    ASSUME NEW p \in Paths, NEW n \in Sizes, NEW l,
           l = [NoLocal EXCEPT !.partial = p, !.size = n]
    PROVE  l \in Local /\ l.claim = None /\ l.prev = None
<1>1. l \in Local
  BY LocalType, Zenon
<1>2. l.claim = None /\ l.prev = None
  BY DEF NoLocal
<1> QED
  BY <1>1, <1>2

\* A step of connection c leaves the other connections alone.
Frame(c) ==
    \A d \in Conns : d # c => /\ tr'[d] = tr[d]
                              /\ pc'[d] = pc[d]
                              /\ loc'[d] = loc[d]

(***************************************************************************)
(* handleInit preserves the types and the handlers' locals.                *)
(***************************************************************************)
LEMMA InitStepType ==
    ASSUME TypeOK, HandlerOK, NEW c \in Conns, HandleInit(c)
    PROVE  TypeOK' /\ HandlerOf(c)' /\ Frame(c)
<1> USE NoneAssumption, SizeAssumption
<1>0. HandlerOf(c) /\ tr[c] \in Transfer \cup {None} /\ loc[c] \in Local /\ pc[c] \in PCs
  BY DEF HandlerOK, TypeOK
<1>h. /\ NoLocal.partial = Shared /\ NoLocal.claim = None
      /\ NoLocal.prev = None /\ NoLocal.file = None
      /\ loc[c].partial \in Paths /\ loc[c].claim \in Claims \cup {None}
      /\ loc[c].prev \in Claims \cup {None} /\ loc[c].file \in Inodes \cup {None}
      /\ loc[c].size \in Sizes
      /\ tr[c] # None => /\ tr[c].partial \in Paths /\ tr[c].claim \in Claims
                         /\ tr[c].file \in Inodes /\ tr[c].size \in Sizes
  BY <1>0 DEF NoLocal, Local, Transfer
<1>1. CASE InitFull(c)
  BY <1>1, <1>0, <1>h DEF InitFull, TypeOK, HandlerOf, Frame
<1>2. CASE InitAgain(c)
  <2>1. PICK n \in Declared :
          loc' = [loc EXCEPT ![c] = [NoLocal EXCEPT !.partial = tr[c].partial,
                                       !.claim = tr[c].claim, !.size = n]]
    BY <1>2, Zenon DEF InitAgain
  <2> DEFINE l == [NoLocal EXCEPT !.partial = tr[c].partial,
                                  !.claim = tr[c].claim, !.size = n]
  <2>2. tr[c] # None /\ n \in Sizes
    BY <1>2 DEF InitAgain, Holds, Sizes
  <2>3. l \in Local /\ l.claim = tr[c].claim /\ l.partial = tr[c].partial
        /\ l.prev = None
    <3>1. tr[c].partial \in Paths /\ tr[c].claim \in Claims \cup {None} /\ n \in Sizes
      BY <2>2, <1>h
    <3>2. l \in Local
      BY <3>1, LocalType, Zenon
    <3>3. l.claim = tr[c].claim /\ l.partial = tr[c].partial /\ l.prev = None
      BY DEF NoLocal
    <3> QED
      BY <3>2, <3>3
  <2>4. loc' = [loc EXCEPT ![c] = l]
    BY <2>1
  <2> HIDE DEF l
  <2> QED
    BY <1>2, <1>0, <1>h, <2>2, <2>3, <2>4
    DEF InitAgain, Refresh, TypeOK, HandlerOf, Frame, PCs, InitPCs
<1>3. CASE InitNew(c)
  <2>1. PICK n \in Declared, p \in IF PartialHeld(Shared) THEN FreshSuffixes
                                                         ELSE {Shared} :
          loc' = [loc EXCEPT ![c] = [NoLocal EXCEPT !.partial = p, !.size = n]]
    BY <1>3, Zenon DEF InitNew
  <2> DEFINE l == [NoLocal EXCEPT !.partial = p, !.size = n]
  <2>2. p \in Paths /\ n \in Sizes
    BY DEF Paths, FreshSuffixes, Sizes
  <2>3. l \in Local /\ l.claim = None /\ l.prev = None
    <3>1. l = [NoLocal EXCEPT !.partial = p, !.size = n]
      OBVIOUS
    <3> HIDE DEF l
    <3> QED
      BY <2>2, <3>1, NewLocalType, Zenon
  <2>4. loc' = [loc EXCEPT ![c] = l]
    BY <2>1
  <2> HIDE DEF l
  <2> QED
    BY <1>3, <1>0, <1>h, <2>3, <2>4
    DEF InitNew, TypeOK, HandlerOf, Frame, PCs, InitPCs
<1>4. CASE InitNotAdmitted(c)
  <2>1. Return(c) /\ UNCHANGED <<paths, live, dir, data, final, tr>>
    BY <1>4 DEF InitNotAdmitted
  <2> QED
    BY <2>1, <1>h, ReturnType DEF TypeOK, HandlerOf, Frame
<1>5. CASE InitLostRace(c)
  <2>1. PICK s \in FreshSuffixes : loc' = [loc EXCEPT ![c].partial = s]
    BY <1>5, Zenon DEF InitLostRace
  <2> DEFINE l == [loc[c] EXCEPT !.partial = s]
  <2>2. s \in Paths
    BY DEF Paths, FreshSuffixes
  <2>3. l \in Local /\ l.claim = loc[c].claim /\ l.prev = loc[c].prev
    <3>1. l \in Local
      BY <2>2, <1>0, LocalType
    <3>2. l.claim = loc[c].claim /\ l.prev = loc[c].prev
      BY <1>0 DEF Local
    <3> QED
      BY <3>1, <3>2
  <2>4. loc' = [loc EXCEPT ![c] = l]
    BY <2>1
  <2> HIDE DEF l
  <2> QED
    BY <1>5, <1>0, <1>h, <2>3, <2>4, Zenon
    DEF InitLostRace, TypeOK, HandlerOf, Frame
<1>6. CASE ClaimPartial(c)
  <2>1. PICK k \in FreshClaims :
          /\ paths' = [paths EXCEPT ![loc[c].partial] = k]
          /\ live' = live \cup {k}
          /\ loc' = [loc EXCEPT ![c].claim = k,
                                ![c].prev = paths[loc[c].partial]]
    BY <1>6, Zenon DEF ClaimPartial
  <2> DEFINE l == [loc[c] EXCEPT !.claim = k, !.prev = paths[loc[c].partial]]
  <2>2. k \in Claims /\ paths[loc[c].partial] \in Claims \cup {None}
    BY <1>h DEF FreshClaims, TypeOK
  <2>3. l \in Local /\ l.claim = k
    <3>1. l \in Local
      BY <2>2, <1>0, LocalType, Zenon
    <3>2. l.claim = k
      BY <1>0 DEF Local
    <3> QED
      BY <3>1, <3>2
  <2>4. loc' = [loc EXCEPT ![c] = l]
    BY <2>1, Zenon
  <2> HIDE DEF l
  <2>5. /\ pc' = [pc EXCEPT ![c] = "open"] /\ pc[c] = "claim"
        /\ UNCHANGED <<dir, data, final, tr>>
    BY <1>6 DEF ClaimPartial
  <2>6. paths' \in [Paths -> Claims \cup {None}] /\ live' \in SUBSET Claims
    BY <1>h, <2>1, <2>2 DEF TypeOK
  <2>7. TypeOK'
    BY <2>3, <2>4, <2>5, <2>6 DEF TypeOK, PCs, InitPCs
  <2> QED
    BY <1>0, <2>2, <2>3, <2>4, <2>5, <2>7 DEF TypeOK, HandlerOf, Frame
<1>7. CASE InitFails(c)
  <2>1. Return(c) /\ UNCHANGED <<data, final, tr>>
    BY <1>7 DEF InitFails
  <2>2. /\ paths' \in [Paths -> Claims \cup {None}]
        /\ live' \in SUBSET Claims
        /\ dir' \in [Paths -> Inodes \cup {None}]
    BY <1>7, <1>h, Zenon DEF InitFails, Unclaimed, WithoutPrivate, TypeOK
  <2> QED
    BY <2>1, <2>2, <1>h, ReturnType DEF TypeOK, HandlerOf, Frame
<1>8. CASE OpenPartial(c)
  <2>1. PICK i \in Inodes :
          /\ loc' = [loc EXCEPT ![c].file = i, ![c].prev = None]
          /\ \/ UNCHANGED <<dir, data>>
             \/ /\ dir' = [dir EXCEPT ![loc[c].partial] = i]
                /\ data' = [data EXCEPT ![i] = <<>>]
    BY <1>8, <1>h, Zenon DEF OpenPartial, FreshInodes, TypeOK
  <2> DEFINE l == [loc[c] EXCEPT !.file = i, !.prev = None]
  <2>2. l \in Local /\ l.claim = loc[c].claim /\ l.partial = loc[c].partial
        /\ l.file = i /\ l.prev = None
    <3>1. l \in Local
      BY <1>0, LocalType, Zenon
    <3>2. l.claim = loc[c].claim /\ l.partial = loc[c].partial
      BY <1>0 DEF Local
    <3>3. l.file = i /\ l.prev = None
      BY <1>0 DEF Local
    <3> QED
      BY <3>1, <3>2, <3>3
  <2>3. loc' = [loc EXCEPT ![c] = l]
    BY <2>1, Zenon
  <2>4. dir' \in [Paths -> Inodes \cup {None}]
    BY <2>1 DEF TypeOK
  <2>5. data' \in [Inodes -> Seq(Block)]
    <3>1. <<>> \in Seq(Block)
      OBVIOUS
    <3> QED
      BY <2>1, <3>1, Zenon DEF TypeOK
  <2> HIDE DEF l
  <2> QED
    BY <1>8, <1>0, <1>h, <2>2, <2>3, <2>4, <2>5, Zenon
    DEF OpenPartial, TypeOK, HandlerOf, Frame, PCs, InitPCs
<1>9. CASE InitInstall(c)
  <2>1. PICK t \in Transfer, w \in Seq(Block) :
          tr' = [tr EXCEPT ![c] = t] /\ data' = [data EXCEPT ![loc[c].file] = w]
    <3>1. HandlerOf(c) /\ InitInstall(c)
      BY <1>0, <1>9
    <3> QED BY <3>1, Installed
  <2>2. Return(c) /\ UNCHANGED <<paths, live, dir, final>>
    BY <1>9 DEF InitInstall
  <2>3. data' \in [Inodes -> Seq(Block)]
    BY <2>1, Zenon DEF TypeOK
  <2> QED
    BY <2>1, <2>2, <2>3, <1>h, ReturnType DEF TypeOK, HandlerOf, Frame
<1> QED
  BY <1>1, <1>2, <1>3, <1>4, <1>5, <1>6, <1>7, <1>8, <1>9 DEF HandleInit

\* What a CHUNK at the cursor does when its transfer goes on: n blocks of the
\* run are written, m of them counted.
Wrote(c, n, m, r) ==
    /\ \A i \in 1 .. n : r[i] \in Sent
    /\ tr[c].cursor + n <= MaxSize
    /\ \A i \in 2 .. n : /\ tr[c].cursor + i - 1 \in Offsets
                         /\ tr[c].pending[tr[c].cursor + i - 1] # "none"
    /\ data' = [data EXCEPT ![tr[c].file] =
                  WriteAt(data[tr[c].file], tr[c].cursor, n, r)]
    /\ m <= n

LEMMA ChunkWrites ==
    ASSUME TypeOK, NEW c \in Conns, ChunkWritten(c) \/ ChunkFails(c)
    PROVE  /\ tr[c] \in Transfer /\ Holds(c) /\ pc[c] = "idle"
           /\ tr[c].cursor < tr[c].size
           /\ UNCHANGED <<paths, dir, final>> /\ live' = live \cup {tr[c].claim}
           /\ \E n, m, r :
                /\ n \in Nat /\ m \in Nat
                /\ Wrote(c, n, m, r)
                /\ \/ /\ \E j \in Nat : tr' = [tr EXCEPT ![c] = Advanced(tr[c], m, j)]
                      /\ UNCHANGED <<pc, loc>>
                   \/ /\ tr' = [tr EXCEPT ![c] = None]
                      /\ pc' = [pc EXCEPT ![c] = "abandon"]
                      /\ loc' = [loc EXCEPT ![c] = [NoLocal EXCEPT
                                    !.partial = tr[c].partial, !.claim = tr[c].claim]]
<1> USE SizeAssumption
<1>1. /\ tr[c] \in Transfer /\ Holds(c) /\ pc[c] = "idle"
      /\ tr[c].cursor < tr[c].size
      /\ UNCHANGED <<paths, dir, final>> /\ live' = live \cup {tr[c].claim}
  BY DEF ChunkWritten, ChunkFails, Holds, Refresh, TypeOK
<1>2. tr[c].cursor \in Nat /\ tr[c].size \in Nat /\ tr[c].size <= MaxSize
  BY <1>1 DEF Transfer, Sizes
<1>3. CASE ChunkWritten(c)
  <2>1. PICK b \in Sent, n \in 1 .. MaxSize :
          /\ IsRun(Run(tr[c], b), n)
          /\ data' = [data EXCEPT ![tr[c].file] =
                        WriteAt(data[tr[c].file], tr[c].cursor, n, Run(tr[c], b))]
          /\ tr' = [tr EXCEPT ![c] = Advanced(tr[c], n, n - 1)]
          /\ UNCHANGED <<pc, loc>>
    BY <1>3, Zenon DEF ChunkWritten
  <2>2. n \in Nat /\ n - 1 \in Nat /\ n <= MaxSize + 1
    OBVIOUS
  <2>3. \A i \in 1 .. n : Run(tr[c], b)[i] # "none"
    BY <2>1 DEF IsRun
  <2>4. Wrote(c, n, n, Run(tr[c], b))
    BY <2>1, <2>2, <2>3, <1>1, <1>2, RunBlocks DEF Wrote
  <2> QED
    BY <1>1, <2>1, <2>2, <2>4, Zenon
<1>4. CASE ChunkFails(c)
  <2>1. PICK b \in Sent, n \in 0 .. MaxSize, torn \in 0 .. 1, full \in BOOLEAN :
          /\ \A i \in 1 .. n + 1 : Run(tr[c], b)[i] # "none"
          /\ data' = [data EXCEPT ![tr[c].file] =
                        WriteAt(data[tr[c].file], tr[c].cursor, n + torn, Run(tr[c], b))]
          /\ IF full
             THEN /\ tr' = [tr EXCEPT ![c] = None]
                  /\ pc' = [pc EXCEPT ![c] = "abandon"]
                  /\ loc' = [loc EXCEPT ![c] = [NoLocal EXCEPT
                                !.partial = tr[c].partial, !.claim = tr[c].claim]]
             ELSE /\ tr' = [tr EXCEPT ![c] = Advanced(tr[c], n, n)]
                  /\ UNCHANGED <<pc, loc>>
    BY <1>4, Zenon DEF ChunkFails
  <2>2. n \in Nat /\ n + 1 \in Nat /\ n + 1 <= MaxSize + 1
        /\ n + torn \in Nat /\ n + torn <= n + 1 /\ n <= n + torn
    OBVIOUS
  <2>3. /\ \A i \in 1 .. n + 1 : Run(tr[c], b)[i] \in Sent
        /\ \A i \in 2 .. n + 1 : /\ tr[c].cursor + i - 1 \in Offsets
                                 /\ tr[c].pending[tr[c].cursor + i - 1] # "none"
        /\ n + 1 > 1 => tr[c].cursor + (n + 1) <= MaxSize
    BY <2>1, <2>2, <1>1, RunBlocks
  <2>4. tr[c].cursor + (n + torn) <= MaxSize
    BY <2>2, <2>3, <1>1, <1>2
  <2>5. Wrote(c, n + torn, n, Run(tr[c], b))
    BY <2>1, <2>2, <2>3, <2>4 DEF Wrote
  <2> QED
    BY <1>1, <2>1, <2>2, <2>5
<1> QED
  BY <1>1, <1>3, <1>4

(***************************************************************************)
(* handleChunk preserves the types and the handlers' locals.               *)
(***************************************************************************)
LEMMA ChunkStepType ==
    ASSUME TypeOK, HandlerOK, NEW c \in Conns, HandleChunk(c)
    PROVE  TypeOK' /\ HandlerOf(c)' /\ Frame(c)
<1> USE NoneAssumption, SizeAssumption
<1>0. HandlerOf(c) /\ tr[c] \in Transfer \cup {None} /\ loc[c] \in Local /\ pc[c] \in PCs
  BY DEF HandlerOK, TypeOK
<1>h. /\ loc[c].partial \in Paths /\ loc[c].claim \in Claims \cup {None}
      /\ tr[c] # None => /\ tr[c].partial \in Paths /\ tr[c].claim \in Claims
                         /\ tr[c].file \in Inodes /\ tr[c].cursor \in Nat
  BY <1>0 DEF Local, Transfer, Sizes
<1>1. CASE ChunkWritten(c) \/ ChunkFails(c)
  <2>1. /\ tr[c] \in Transfer /\ pc[c] = "idle"
        /\ UNCHANGED <<paths, dir, final>> /\ live' = live \cup {tr[c].claim}
    BY <1>1, ChunkWrites, Zenon
  <2>2. PICK n, m, r :
                /\ n \in Nat /\ m \in Nat
                /\ Wrote(c, n, m, r)
                /\ \/ /\ \E j \in Nat : tr' = [tr EXCEPT ![c] = Advanced(tr[c], m, j)]
                      /\ UNCHANGED <<pc, loc>>
                   \/ /\ tr' = [tr EXCEPT ![c] = None]
                      /\ pc' = [pc EXCEPT ![c] = "abandon"]
                      /\ loc' = [loc EXCEPT ![c] = [NoLocal EXCEPT
                                    !.partial = tr[c].partial, !.claim = tr[c].claim]]
    BY <1>1, ChunkWrites, Zenon
  <2> n \in Nat /\ m \in Nat
    BY <2>2
  <2>3. data' \in [Inodes -> Seq(Block)]
    <3>1. WriteAt(data[tr[c].file], tr[c].cursor, n, r) \in Seq(Block)
      BY <2>1, <2>2, <1>h, WriteAtBlocks DEF Wrote, TypeOK
    <3> QED
      BY <3>1, <2>2, Zenon DEF Wrote, TypeOK
  <2>4. live' \in SUBSET Claims
    BY <2>1, <1>h DEF TypeOK
  <2>5. CASE /\ \E j \in Nat : tr' = [tr EXCEPT ![c] = Advanced(tr[c], m, j)]
             /\ UNCHANGED <<pc, loc>>
    <3>1. PICK j \in Nat : tr' = [tr EXCEPT ![c] = Advanced(tr[c], m, j)]
      BY <2>5, Zenon
    <3>2. tr[c].cursor + m <= MaxSize
      BY <2>2, <2>1, <1>h DEF Wrote
    <3>3. Advanced(tr[c], m, j) \in Transfer
      BY <3>2, <2>1, AdvancedType
    <3> QED
      BY <3>1, <3>3, <2>1, <2>3, <2>4, <2>5, <1>0 DEF TypeOK, HandlerOf, Frame
  <2>6. CASE /\ tr' = [tr EXCEPT ![c] = None]
             /\ pc' = [pc EXCEPT ![c] = "abandon"]
             /\ loc' = [loc EXCEPT ![c] = [NoLocal EXCEPT
                           !.partial = tr[c].partial, !.claim = tr[c].claim]]
    <3> DEFINE l == [NoLocal EXCEPT !.partial = tr[c].partial, !.claim = tr[c].claim]
    <3>0. tr[c].partial \in Paths /\ tr[c].claim \in Claims
      BY <2>1, <1>h
    <3>1. l \in Local /\ l.claim = tr[c].claim /\ l.prev = None
      <4>1. l \in Local
        BY <3>0, LocalType, Zenon
      <4>2. l.claim = tr[c].claim /\ l.prev = None
        BY DEF NoLocal
      <4> QED
        BY <4>1, <4>2
    <3>2. loc' = [loc EXCEPT ![c] = l]
      BY <2>6
    <3> HIDE DEF l
    <3> QED
      BY <3>1, <3>2, <2>1, <2>3, <2>4, <2>6, <1>0, <1>h DEF TypeOK, HandlerOf, Frame, PCs
  <2> QED
    BY <2>2, <2>5, <2>6
<1>2. CASE ChunkBuffered(c)
  <2>1. PICK o \in Offsets, b \in Sent : tr' = [tr EXCEPT ![c].pending[o] = b]
    BY <1>2, Zenon DEF ChunkBuffered
  <2> DEFINE pend == [tr[c].pending EXCEPT ![o] = b]
             t == [tr[c] EXCEPT !.pending = pend]
  <2>2. tr[c] \in Transfer /\ pc[c] = "idle" /\ UNCHANGED <<paths, live, dir, data, final, pc, loc>>
    BY <1>2, <1>0 DEF ChunkBuffered
  <2>3. pend \in [Offsets -> Sent \cup {"none"}]
    BY <2>2 DEF Transfer
  <2>4. tr' = [tr EXCEPT ![c] = t]
    BY <2>1
  <2>5. t \in Transfer
    <3> HIDE DEF pend
    <3> QED
      BY <2>2, <2>3 DEF Transfer
  <2> HIDE DEF t
  <2> QED
    BY <2>2, <2>4, <2>5, <1>0 DEF TypeOK, HandlerOf, Frame
<1>3. CASE AbandonRemove(c)
  <2>1. dir' \in [Paths -> Inodes \cup {None}]
    BY <1>3, <1>h, Zenon DEF AbandonRemove, AfterRemove, WithoutPrivate, TypeOK
  <2> QED
    BY <1>3, <1>0, <1>h, <2>1, Zenon DEF AbandonRemove, Refresh, TypeOK, HandlerOf, Frame, PCs
<1>4. CASE AbandonRelease(c)
  <2>1. Release(loc[c].partial, loc[c].claim) /\ Return(c) /\ UNCHANGED <<data, final, tr>>
    BY <1>4 DEF AbandonRelease
  <2>2. loc[c].claim \in Claims
    BY <1>4, <1>0, <1>h DEF AbandonRelease, HandlerOf
  <2>3. NoLocal.claim = None /\ NoLocal.prev = None
    BY DEF NoLocal
  <2> QED
    BY <2>1, <2>2, <2>3, <1>h, ReturnType, ReleaseType DEF TypeOK, HandlerOf, Frame
<1> QED
  BY <1>1, <1>2, <1>3, <1>4 DEF HandleChunk

(***************************************************************************)
(* handleDone, ABORT and teardown preserve them too.                       *)
(***************************************************************************)
LEMMA DoneStepType ==
    ASSUME TypeOK, HandlerOK, NEW c \in Conns, HandleDone(c) \/ Abort(c) \/ Close(c)
    PROVE  TypeOK' /\ HandlerOf(c)' /\ Frame(c)
<1> USE NoneAssumption, SizeAssumption
<1>0. HandlerOf(c) /\ tr[c] \in Transfer \cup {None} /\ loc[c] \in Local /\ pc[c] \in PCs
  BY DEF HandlerOK, TypeOK
<1>h. /\ NoLocal.partial = Shared /\ NoLocal.claim = None /\ NoLocal.prev = None
      /\ tr[c] # None => /\ tr[c].partial \in Paths /\ tr[c].claim \in Claims
                         /\ tr[c].file \in Inodes
  BY <1>0 DEF Local, Transfer, NoLocal
<1>1. CASE Discard(c)
  <2>1. Return(c)
    BY <1>1 DEF Discard
  <2> QED
    BY <1>1, <2>1, <1>h, DiscardType, ReturnType DEF HandlerOf, Frame
<1>2. CASE DoneRefused(c)
  BY <1>2, <1>0, <1>h DEF DoneRefused, Refresh, Holds, TypeOK, HandlerOf, Frame
<1>3. CASE DoneVerify(c)
  <2>1. /\ tr[c] # None /\ pc[c] = "idle" /\ live' = live \cup {tr[c].claim}
        /\ pc' = [pc EXCEPT ![c] = "verify"]
        /\ UNCHANGED <<paths, dir, data, final, tr, loc>>
    BY <1>3 DEF DoneVerify, Refresh, Holds
  <2>2. TypeOK'
    BY <2>1, <1>h DEF TypeOK, PCs
  <2>3. loc[c] = NoLocal
    BY <2>1, <1>0 DEF HandlerOf
  <2> QED
    BY <2>1, <2>2, <2>3, <1>h DEF TypeOK, HandlerOf, Frame
<1>4. CASE VerifyRead(c)
  <2> DEFINE pos == loc[c].pos + 1
             match == loc[c].match /\ data[tr[c].file][loc[c].pos + 1] = "good"
             l == [loc[c] EXCEPT !.pos = pos, !.match = match]
  <2>1. /\ tr[c] # None /\ pc[c] = "verify" /\ live' = live \cup {tr[c].claim}
        /\ loc' = [loc EXCEPT ![c] = l]
        /\ UNCHANGED <<paths, dir, data, final, tr, pc>>
    BY <1>4, Zenon DEF VerifyRead, Refresh, Holds
  <2>2. pos \in Nat /\ match \in BOOLEAN
    BY <1>0 DEF Local
  <2>3. l \in Local /\ l.claim = loc[c].claim /\ l.prev = loc[c].prev
        /\ l.partial = loc[c].partial
    <3> HIDE DEF pos, match
    <3>1. l \in Local
      BY <2>2, <1>0, LocalType, Zenon
    <3>2. l.claim = loc[c].claim /\ l.prev = loc[c].prev
      BY <1>0 DEF Local
    <3>3. l.partial = loc[c].partial
      BY <1>0 DEF Local
    <3> QED
      BY <3>1, <3>2, <3>3
  <2> HIDE DEF l
  <2>4. TypeOK'
    BY <2>1, <2>3, <1>h DEF TypeOK
  <2> QED
    BY <2>1, <2>3, <2>4, <1>0 DEF TypeOK, HandlerOf, Frame
<1>5. CASE VerifyFails(c)
  <2>1. /\ tr[c] # None /\ live' = live \cup {tr[c].claim} /\ Return(c)
        /\ UNCHANGED <<paths, dir, data, final, tr>>
    BY <1>5 DEF VerifyFails, Refresh, Holds
  <2> QED
    BY <2>1, <1>h, ReturnType DEF TypeOK, HandlerOf, Frame
<1>6. CASE VerifyMatch(c)
  BY <1>6, <1>0, <1>h DEF VerifyMatch, Refresh, Holds, TypeOK, HandlerOf, Frame, PCs
<1>7. CASE Rename(c)
  <2> DEFINE i == dir[tr[c].partial]
             l == [loc[c] EXCEPT !.file = i]
  <2>1. /\ tr[c] # None /\ pc[c] = "rename" /\ live' = live \cup {tr[c].claim}
        /\ i # None /\ final' = final \cup {i}
        /\ loc' = [loc EXCEPT ![c] = l]
        /\ dir' = [dir EXCEPT ![tr[c].partial] = None]
        /\ pc' = [pc EXCEPT ![c] = "commit"]
        /\ UNCHANGED <<paths, data, tr>>
    BY <1>7 DEF Rename, Refresh, Holds
  <2>2. i \in Inodes
    BY <2>1, <1>h DEF TypeOK
  <2>3. l \in Local /\ l.claim = loc[c].claim /\ l.prev = loc[c].prev
        /\ l.partial = loc[c].partial
    <3> HIDE DEF i
    <3>1. l \in Local
      BY <2>2, <1>0, LocalType
    <3>2. l.claim = loc[c].claim /\ l.prev = loc[c].prev
      BY <1>0 DEF Local
    <3>3. l.partial = loc[c].partial
      BY <1>0 DEF Local
    <3> QED
      BY <3>1, <3>2, <3>3
  <2> HIDE DEF l, i
  <2>4. TypeOK'
    BY <2>1, <2>2, <2>3, <1>h DEF TypeOK, PCs
  <2> QED
    BY <2>1, <2>3, <2>4, <1>0 DEF TypeOK, HandlerOf, Frame
<1>8. CASE CommitFails(c)
  <2>1. /\ pc[c] = "commit" /\ final' \subseteq final
        /\ tr' = [tr EXCEPT ![c] = None]
        /\ Release(tr[c].partial, tr[c].claim) /\ Return(c) /\ UNCHANGED data
    BY <1>8 DEF CommitFails
  <2>2. tr[c] # None
    BY <2>1, <1>0 DEF HandlerOf
  <2> QED
    BY <2>1, <2>2, <1>h, ReturnType, ReleaseType DEF TypeOK, HandlerOf, Frame
<1> QED
  BY <1>1, <1>2, <1>3, <1>4, <1>5, <1>6, <1>7, <1>8
  DEF HandleDone, Superseded, VerifyMismatch, RenameFails, Commit, Abort, Close

(***************************************************************************)
(* Types and locals together are an invariant.                             *)
(***************************************************************************)
LEMMA TypeStep ==
    ASSUME TypeOK, HandlerOK, [Next]_vars
    PROVE  TypeOK' /\ HandlerOK'
<1>1. ASSUME NEW c \in Conns, TypeOK' /\ HandlerOf(c)' /\ Frame(c)
      PROVE  HandlerOK'
  BY <1>1 DEF HandlerOK, HandlerOf, Frame
<1>2. ASSUME NEW c \in Conns, HandleInit(c) PROVE TypeOK' /\ HandlerOK'
  BY <1>1, <1>2, InitStepType
<1>3. ASSUME NEW c \in Conns, HandleChunk(c) PROVE TypeOK' /\ HandlerOK'
  BY <1>1, <1>3, ChunkStepType
<1>4. ASSUME NEW c \in Conns, HandleDone(c) \/ Abort(c) \/ Close(c)
      PROVE  TypeOK' /\ HandlerOK'
  BY <1>1, <1>4, DoneStepType
<1>5. ASSUME NEW k \in Claims, GoesQuiet(k) PROVE TypeOK' /\ HandlerOK'
  BY <1>5 DEF GoesQuiet, TypeOK, HandlerOK, HandlerOf
<1>6. CASE Crash
  <2>1. NoLocal.claim = None /\ NoLocal.prev = None
    BY DEF NoLocal
  <2> QED
    BY <1>6, <2>1, LocalType DEF Crash, TypeOK, HandlerOK, HandlerOf, PCs
<1>7. CASE UNCHANGED vars
  BY <1>7 DEF vars, TypeOK, HandlerOK, HandlerOf
<1> QED
  BY <1>2, <1>3, <1>4, <1>5, <1>6, <1>7 DEF Next

LEMMA TypeInit ==
    ASSUME Init
    PROVE  TypeOK /\ HandlerOK
<1>1. NoLocal.claim = None /\ NoLocal.prev = None
  BY DEF NoLocal
<1>2. <<>> \in Seq(Block)
  OBVIOUS
<1> QED
  BY <1>1, <1>2, LocalType DEF Init, TypeOK, HandlerOK, HandlerOf, PCs

(***************************************************************************)
(* Every variable keeps its type through every interleaving of the         *)
(* handlers, stale claims and crashes.                                     *)
(***************************************************************************)
THEOREM TypeCorrect == Spec => []TypeOK
<1>1. Init => TypeOK /\ HandlerOK
  BY TypeInit
<1>2. TypeOK /\ HandlerOK /\ [Next]_vars => TypeOK' /\ HandlerOK'
  BY TypeStep
<1> QED
  BY <1>1, <1>2, PTL DEF Spec

-----------------------------------------------------------------------------
(***************************************************************************)
(* The claim table.  Most steps leave it alone: they may drop a transfer   *)
(* whose claim is no longer in the table, move a claim between a transfer  *)
(* and its handler, and refresh or age claims.                             *)
(***************************************************************************)
Claimed == ClaimsOwned /\ PrevQuiet /\ LiveClaimOwned

LEMMA TableKept ==
    ASSUME TypeOK, TypeOK', Claimed,
           paths' = paths,
           \A d \in Conns, k \in Claims, p \in Paths : Has(d, k, p)' => Has(d, k, p),
           \A d \in Conns, k \in Claims, p \in Paths :
             Has(d, k, p) /\ paths[p] = k => \E e \in Conns, q \in Paths : Has(e, k, q)',
           \A d \in Conns : loc'[d].prev # None =>
             loc'[d].prev = loc[d].prev /\ loc'[d].partial = loc[d].partial,
           \A k \in live' : \/ k \in live
                            \/ \E d \in Conns, p \in Paths : Has(d, k, p) /\ paths[p] = k
    PROVE  Claimed'
<1> USE NoneAssumption
<1>1. ClaimsOwned'
  BY DEF Claimed, ClaimsOwned
<1>2. PrevQuiet'
  <2> SUFFICES ASSUME NEW c \in Conns, loc'[c].prev # None
               PROVE  /\ loc'[c].prev \notin live'
                      /\ loc'[c].partial = Shared
                      /\ \A p \in Paths : paths'[p] # loc'[c].prev
                      /\ \A d \in Conns : loc'[d].prev = loc'[c].prev => d = c
                      /\ \A d \in Conns, p \in Paths :
                           Has(d, loc[c].prev, p)' => d # c /\ p = Shared
    BY DEF PrevQuiet
  <2>1. loc'[c].prev = loc[c].prev /\ loc'[c].partial = loc[c].partial
    OBVIOUS
  <2>2. loc[c].prev \in Claims
    BY <2>1 DEF TypeOK, Local
  <2>3. /\ loc[c].prev \notin live
        /\ loc[c].partial = Shared
        /\ \A p \in Paths : paths[p] # loc[c].prev
        /\ \A d \in Conns : loc[d].prev = loc[c].prev => d = c
        /\ \A d \in Conns, p \in Paths : Has(d, loc[c].prev, p) => d # c /\ p = Shared
    BY <2>1 DEF Claimed, PrevQuiet
  <2> QED
    BY <2>1, <2>2, <2>3 DEF Has
<1>3. LiveClaimOwned'
  <2> SUFFICES ASSUME NEW p \in Paths, paths'[p] # None, paths'[p] \in live'
               PROVE  \E c \in Conns : \/ tr'[c] # None /\ tr'[c].claim = paths'[p]
                                       \/ loc'[c].claim = paths'[p]
    BY DEF LiveClaimOwned, PartialHeld, Live
  <2>1. paths[p] \in Claims
    BY DEF TypeOK
  <2>2. \E d \in Conns, q \in Paths : Has(d, paths[p], q)
    <3>1. CASE paths[p] \in live
      <4>1. PICK c \in Conns : \/ tr[c] # None /\ tr[c].claim = paths[p]
                               \/ loc[c].claim = paths[p]
        BY <3>1, <2>1 DEF Claimed, LiveClaimOwned, PartialHeld, Live
      <4>2. loc[c].partial \in Paths /\ (tr[c] # None => tr[c].partial \in Paths)
        BY DEF TypeOK, Local, Transfer
      <4> QED
        BY <4>1, <4>2 DEF Has
    <3>2. CASE paths[p] \notin live
      BY <3>2
    <3> QED
      BY <3>1, <3>2
  <2>3. PICK d \in Conns, q \in Paths : Has(d, paths[p], q)
    BY <2>2
  <2>4. q = p
    BY <2>1, <2>3 DEF Claimed, ClaimsOwned
  <2>5. PICK e \in Conns, r \in Paths : Has(e, paths[p], r)'
    BY <2>1, <2>3, <2>4
  <2> QED
    BY <2>5 DEF Has
<1> QED
  BY <1>1, <1>2, <1>3 DEF Claimed

(***************************************************************************)
(* The same for time passing, or nothing happening at all.                 *)
(***************************************************************************)
LEMMA AgingKept ==
    ASSUME TypeOK, TypeOK', Claimed, UNCHANGED <<paths, tr, loc>>, live' \subseteq live
    PROVE  Claimed'
<1>1. \A d \in Conns, k \in Claims, p \in Paths : Has(d, k, p)' <=> Has(d, k, p)
  BY DEF Has
<1>2. \A d \in Conns, k \in Claims, p \in Paths :
        Has(d, k, p) /\ paths[p] = k => \E e \in Conns, q \in Paths : Has(e, k, q)'
  BY <1>1
<1>3. \A d \in Conns : loc'[d].prev # None =>
        loc'[d].prev = loc[d].prev /\ loc'[d].partial = loc[d].partial
  OBVIOUS
<1>4. \A k \in live' : k \in live
  OBVIOUS
<1> QED
  BY <1>1, <1>2, <1>3, <1>4, TableKept

(***************************************************************************)
(* The same for a step of one connection, which may refresh a claim that   *)
(* is in the table and drop one that is not.                               *)
(***************************************************************************)
Keeps(c) ==
    /\ paths' = paths
    /\ \A k \in live' : \/ k \in live
                        \/ \E p \in Paths : Has(c, k, p) /\ paths[p] = k
    /\ \A k \in Claims, p \in Paths : /\ Has(c, k, p)' => Has(c, k, p)
                                      /\ Has(c, k, p) /\ paths[p] = k => Has(c, k, p)'
    /\ loc'[c].prev = None

LEMMA ConnKept ==
    ASSUME TypeOK, TypeOK', Claimed, NEW c \in Conns, Frame(c), Keeps(c)
    PROVE  Claimed'
<1>1. \A d \in Conns : d # c =>
        /\ \A k \in Claims, p \in Paths : Has(d, k, p)' <=> Has(d, k, p)
        /\ loc'[d] = loc[d]
  BY DEF Frame, Has
<1>2. \A d \in Conns, k \in Claims, p \in Paths : Has(d, k, p)' => Has(d, k, p)
  <2> SUFFICES ASSUME NEW d \in Conns, NEW k \in Claims, NEW p \in Paths, Has(d, k, p)'
               PROVE  Has(d, k, p)
    OBVIOUS
  <2>1. CASE d = c
    BY <2>1 DEF Keeps, Has
  <2>2. CASE d # c
    BY <1>1, <2>2
  <2> QED
    BY <2>1, <2>2
<1>3. \A d \in Conns, k \in Claims, p \in Paths :
        Has(d, k, p) /\ paths[p] = k => \E e \in Conns, q \in Paths : Has(e, k, q)'
  <2> SUFFICES ASSUME NEW d \in Conns, NEW k \in Claims, NEW p \in Paths,
                      Has(d, k, p), paths[p] = k
               PROVE  Has(d, k, p)'
    OBVIOUS
  <2>1. CASE d = c
    BY <2>1 DEF Keeps, Has
  <2>2. CASE d # c
    BY <1>1, <2>2
  <2> QED
    BY <2>1, <2>2
<1>4. \A d \in Conns : loc'[d].prev # None =>
        loc'[d].prev = loc[d].prev /\ loc'[d].partial = loc[d].partial
  BY <1>1 DEF Keeps
<1>5. \A k \in live' : \/ k \in live
                      \/ \E d \in Conns, p \in Paths : Has(d, k, p) /\ paths[p] = k
  BY DEF Keeps
<1>6. paths' = paths
  BY DEF Keeps
<1> QED
  BY <1>2, <1>3, <1>4, <1>5, <1>6, TableKept

(***************************************************************************)
(* Releasing a claim: c gives up claim k on path p.                        *)
(***************************************************************************)
LEMMA TableReleased ==
    ASSUME TypeOK, TypeOK', Claimed, NEW c \in Conns, NEW k \in Claims, NEW p \in Paths,
           Has(c, k, p),
           paths' = Unclaimed(p, k, None),
           live' = IF paths[p] = k THEN live \ {k} ELSE live,
           \A d \in Conns, x \in Claims, q \in Paths :
             Has(d, x, q)' <=> Has(d, x, q) /\ x # k,
           \A d \in Conns : loc'[d].prev # None =>
             loc'[d].prev = loc[d].prev /\ loc'[d].partial = loc[d].partial
    PROVE  Claimed'
<1> USE NoneAssumption
<1>0. \A q \in Paths : paths'[q] = IF q = p /\ paths[p] = k THEN None ELSE paths[q]
  BY DEF Unclaimed, TypeOK
<1>1. ClaimsOwned'
  <2>1. \A d, e \in Conns, q, r \in Paths, x \in Claims :
         Has(d, x, q)' /\ Has(e, x, r)' => d = e /\ q = r
    BY DEF Claimed, ClaimsOwned
  <2>2. \A d \in Conns, q, r \in Paths, x \in Claims : Has(d, x, q)' /\ paths'[r] = x => q = r
    BY <1>0 DEF Claimed, ClaimsOwned
  <2>3. \A q, r \in Paths : paths'[q] # None /\ paths'[q] = paths'[r] => q = r
    BY <1>0 DEF Claimed, ClaimsOwned
  <2> QED
    BY <2>1, <2>2, <2>3 DEF ClaimsOwned
<1>2. PrevQuiet'
  <2> SUFFICES ASSUME NEW d \in Conns, loc'[d].prev # None
               PROVE  /\ loc'[d].prev \notin live'
                      /\ loc'[d].partial = Shared
                      /\ \A q \in Paths : paths'[q] # loc'[d].prev
                      /\ \A e \in Conns : loc'[e].prev = loc'[d].prev => e = d
                      /\ \A e \in Conns, q \in Paths :
                           Has(e, loc[d].prev, q)' => e # d /\ q = Shared
    BY DEF PrevQuiet
  <2>1. loc'[d].prev = loc[d].prev /\ loc'[d].partial = loc[d].partial
    OBVIOUS
  <2>2. loc[d].prev \in Claims
    BY <2>1 DEF TypeOK, Local
  <2>3. /\ loc[d].prev \notin live
        /\ loc[d].partial = Shared
        /\ \A q \in Paths : paths[q] # loc[d].prev
        /\ \A e \in Conns : loc[e].prev = loc[d].prev => e = d
        /\ \A e \in Conns, q \in Paths : Has(e, loc[d].prev, q) => e # d /\ q = Shared
    BY <2>1 DEF Claimed, PrevQuiet
  <2>4. \A e \in Conns, q \in Paths : Has(e, loc[d].prev, q)' => e # d /\ q = Shared
    <3> SUFFICES ASSUME NEW e \in Conns, NEW q \in Paths, Has(e, loc[d].prev, q)'
                 PROVE  e # d /\ q = Shared
      OBVIOUS
    <3>1. PICK x \in Claims : x = loc[d].prev
      BY <2>2
    <3>2. Has(e, x, q)'
      BY <2>1, <3>1 DEF Has
    <3>3. Has(e, x, q)
      BY <3>2
    <3> QED
      BY <2>3, <3>1, <3>3
  <2>5. loc'[d].prev \notin live'
    BY <2>1, <2>3
  <2>6. \A q \in Paths : paths'[q] # loc'[d].prev
    BY <2>1, <2>2, <2>3, <1>0
  <2>7. \A e \in Conns : loc'[e].prev = loc'[d].prev => e = d
    BY <2>1, <2>2, <2>3
  <2> QED
    BY <2>1, <2>3, <2>4, <2>5, <2>6, <2>7
<1>3. LiveClaimOwned'
  <2> SUFFICES ASSUME NEW q \in Paths, paths'[q] # None, paths'[q] \in live'
               PROVE  \E d \in Conns : \/ tr'[d] # None /\ tr'[d].claim = paths'[q]
                                       \/ loc'[d].claim = paths'[q]
    BY DEF LiveClaimOwned, PartialHeld, Live
  <2>1. paths'[q] = paths[q] /\ paths[q] \in Claims /\ paths[q] \in live
    BY <1>0 DEF TypeOK
  <2>2. paths[q] # k
    BY <1>0, <2>1 DEF Claimed, ClaimsOwned
  <2>3. PICK d \in Conns : \/ tr[d] # None /\ tr[d].claim = paths[q]
                           \/ loc[d].claim = paths[q]
    BY <2>1, NoneAssumption DEF Claimed, LiveClaimOwned, PartialHeld, Live
  <2>4. loc[d].partial \in Paths /\ (tr[d] # None => tr[d].partial \in Paths)
    BY DEF TypeOK, Local, Transfer
  <2>5. \E r \in Paths : Has(d, paths[q], r)
    BY <2>3, <2>4 DEF Has
  <2>6. \E r \in Paths : Has(d, paths[q], r)'
    BY <2>1, <2>2, <2>5
  <2> QED
    BY <2>1, <2>6 DEF Has
<1> QED
  BY <1>1, <1>2, <1>3 DEF Claimed

(***************************************************************************)
(* Private paths: a step of c may start to use a fresh one, and creates or *)
(* claims a file only on a path it uses itself.                            *)
(***************************************************************************)
LEMMA PrivateKept ==
    ASSUME TypeOK, PrivateUnshared, NEW c \in Conns, Frame(c),
           \A s \in Suffixes : Uses(c, s)' => Uses(c, s) \/ s \in FreshSuffixes,
           pc'[c] = "claim" =>
             \/ loc'[c].partial \in FreshSuffixes \cup {Shared}
             \/ pc[c] = "claim" /\ loc'[c].partial = loc[c].partial,
           pc'[c] = "claim" => \A s \in Suffixes : dir'[s] = dir[s] /\ paths'[s] = paths[s],
           \A s \in Suffixes : /\ dir'[s] # None => dir[s] # None \/ Uses(c, s)
                               /\ paths'[s] # None => paths[s] # None \/ Uses(c, s)
    PROVE  PrivateUnshared'
<1>1. \A d \in Conns, s \in Suffixes : d # c => (Uses(d, s)' <=> Uses(d, s))
  BY DEF Frame, Uses
<1>2. \A d \in Conns, s \in FreshSuffixes : ~Uses(d, s)
  BY DEF FreshSuffixes, Uses
<1>3. \A s \in FreshSuffixes : s \in Suffixes /\ dir[s] = None /\ paths[s] = None
  BY DEF FreshSuffixes
<1>4. \A d, e \in Conns, s \in Suffixes : Uses(d, s)' /\ Uses(e, s)' => d = e
  BY <1>1, <1>2, <1>3 DEF PrivateUnshared
<1>5. ASSUME NEW d \in Conns, NEW s \in Suffixes, pc'[d] = "claim", loc'[d].partial = s
      PROVE  paths'[s] = None /\ dir'[s] = None
  <2>1. CASE d = c
    BY <2>1, <1>3, <1>5, NoneAssumption DEF PrivateUnshared
  <2>2. CASE d # c
    <3>1. pc[d] = "claim" /\ loc[d].partial = s
      BY <2>2, <1>5 DEF Frame
    <3>2. paths[s] = None /\ dir[s] = None /\ Uses(d, s)
      BY <3>1 DEF PrivateUnshared, Uses
    <3>3. ~Uses(c, s)
      BY <3>2, <2>2 DEF PrivateUnshared
    <3> QED
      BY <3>2, <3>3
  <2> QED
    BY <2>1, <2>2
<1> QED
  BY <1>4, <1>5 DEF PrivateUnshared

\* The claim table's invariant.
Table == Claimed /\ InitHolds /\ PrivateUnshared

(***************************************************************************)
(* An INIT claims its path with a new claim, perhaps over a quiet one.     *)
(***************************************************************************)
LEMMA ClaimTable ==
    ASSUME NEW c \in Conns, TypeOK, TypeOK', HandlerOf(c), Frame(c), Claimed, InitHolds,
           PrivateUnshared, ClaimPartial(c)
    PROVE  Claimed' /\ InitHolds' /\ PrivateUnshared'
<1> USE NoneAssumption
<1> DEFINE p == loc[c].partial
<1>1. PICK k \in FreshClaims :
        /\ paths' = [paths EXCEPT ![p] = k] /\ live' = live \cup {k}
        /\ loc' = [loc EXCEPT ![c].claim = k, ![c].prev = paths[p]]
  BY Zenon DEF ClaimPartial
<1>2. pc[c] = "claim" /\ pc'[c] = "open" /\ tr[c] = None /\ UNCHANGED <<dir, data, final, tr>>
  BY DEF ClaimPartial, HandlerOf, TypeOK
<1>3. /\ p \in Paths /\ k \in Claims /\ paths[p] \in Claims \cup {None}
      /\ \A q \in Paths : paths'[q] = IF q = p THEN k ELSE paths[q]
      /\ loc'[c].claim = k /\ loc'[c].prev = paths[p] /\ loc'[c].partial = p
  BY <1>1 DEF TypeOK, Local, FreshClaims
<1>4. /\ \A q \in Paths : paths[q] # k
      /\ \A d \in Conns : loc[d].claim # k /\ loc[d].prev # k
      /\ \A d \in Conns, q \in Paths : ~Has(d, k, q)
  BY <1>1 DEF FreshClaims, Has
<1>5. paths[p] # None => paths[p] \notin live
  BY DEF ClaimPartial, PartialHeld, Live
<1>6. paths[p] # None => p = Shared
  BY <1>2, <1>3 DEF PrivateUnshared, Paths
<1>7. /\ loc[c].claim = None
      /\ \A q \in Paths, x \in Claims : Has(c, x, q)' <=> x = k /\ q = p
      /\ \A q \in Paths, x \in Claims : ~Has(c, x, q)
  BY <1>2, <1>3 DEF HandlerOf, Has
<1>f. \A d \in Conns : d # c =>
        /\ \A x \in Claims, q \in Paths : Has(d, x, q)' <=> Has(d, x, q)
        /\ tr'[d] = tr[d] /\ pc'[d] = pc[d] /\ loc'[d] = loc[d]
  BY DEF Frame, Has
<1> HIDE DEF p
<1>8. ClaimsOwned'
  <2>1. \A d, e \in Conns, q, r \in Paths, x \in Claims :
         Has(d, x, q)' /\ Has(e, x, r)' => d = e /\ q = r
    <3> SUFFICES ASSUME NEW d \in Conns, NEW e \in Conns, NEW q \in Paths, NEW r \in Paths,
                        NEW x \in Claims, Has(d, x, q)', Has(e, x, r)'
                 PROVE  d = e /\ q = r
      OBVIOUS
    <3>1. CASE d = c \/ e = c
      <4>1. x = k
        BY <1>7, <3>1
      <4>2. d = c /\ e = c
        BY <1>4, <1>f, <4>1
      <4> QED
        BY <1>7, <4>2
    <3>2. CASE d # c /\ e # c
      <4>1. Has(d, x, q) /\ Has(e, x, r)
        BY <1>f, <3>2
      <4> QED
        BY <4>1 DEF Claimed, ClaimsOwned
    <3> QED
      BY <3>1, <3>2
  <2>2. \A d \in Conns, q, r \in Paths, x \in Claims : Has(d, x, q)' /\ paths'[r] = x => q = r
    <3> SUFFICES ASSUME NEW d \in Conns, NEW q \in Paths, NEW r \in Paths, NEW x \in Claims,
                        Has(d, x, q)', paths'[r] = x
                 PROVE  q = r
      OBVIOUS
    <3>1. CASE d = c
      <4>1. x = k /\ q = p
        BY <1>7, <3>1
      <4> QED
        BY <1>3, <1>4, <4>1
    <3>2. CASE d # c
      <4>1. Has(d, x, q)
        BY <1>f, <3>2
      <4>2. x # k
        BY <1>4, <4>1
      <4>3. paths[r] = x
        BY <1>3, <4>2
      <4> QED
        BY <4>1, <4>3 DEF Claimed, ClaimsOwned
    <3> QED
      BY <3>1, <3>2
  <2>3. \A q, r \in Paths : paths'[q] # None /\ paths'[q] = paths'[r] => q = r
    <3> SUFFICES ASSUME NEW q \in Paths, NEW r \in Paths, paths'[q] # None, paths'[q] = paths'[r]
                 PROVE  q = r
      OBVIOUS
    <3>1. CASE q = p \/ r = p
      BY <1>3, <1>4, <3>1
    <3>2. CASE q # p /\ r # p
      <4>1. paths[q] # None /\ paths[q] = paths[r]
        BY <1>3, <3>2
      <4> QED
        BY <4>1 DEF Claimed, ClaimsOwned
    <3> QED
      BY <3>1, <3>2
  <2> QED
    BY <2>1, <2>2, <2>3 DEF ClaimsOwned
<1>9. PrevQuiet'
  <2> SUFFICES ASSUME NEW d \in Conns, loc'[d].prev # None
               PROVE  /\ loc'[d].prev \notin live'
                      /\ loc'[d].partial = Shared
                      /\ \A q \in Paths : paths'[q] # loc'[d].prev
                      /\ \A e \in Conns : loc'[e].prev = loc'[d].prev => e = d
                      /\ \A e \in Conns, q \in Paths :
                           Has(e, loc[d].prev, q)' => e # d /\ q = Shared
    BY DEF PrevQuiet
  <2>0. loc'[d].prev \in Claims
    BY DEF TypeOK, Local
  <2>1. CASE d = c
    <3>1. loc'[d].prev = paths[p] /\ paths[p] # None /\ paths[p] # k /\ paths[p] \in Claims
      BY <2>1, <1>3, <1>4
    <3>2. \A q \in Paths : q # p => paths[q] # paths[p]
      BY <3>1, <1>3 DEF Claimed, ClaimsOwned
    <3>3. \A e \in Conns : loc[e].prev # paths[p]
      BY <3>1, <1>3 DEF Claimed, PrevQuiet
    <3>4. \A e \in Conns, q \in Paths : Has(e, paths[p], q) => q = p
      BY <3>1, <1>3 DEF Claimed, ClaimsOwned
    <3>5. \A e \in Conns, q \in Paths : Has(e, loc[d].prev, q)' => e # d /\ q = Shared
      <4> SUFFICES ASSUME NEW e \in Conns, NEW q \in Paths, Has(e, loc[d].prev, q)'
                   PROVE  e # d /\ q = Shared
        OBVIOUS
      <4>1. PICK x \in Claims : x = paths[p]
        BY <3>1
      <4>2. Has(e, x, q)'
        BY <4>1, <3>1 DEF Has
      <4>3. x # k /\ e # c
        BY <4>1, <4>2, <3>1, <1>7
      <4> QED
        BY <4>1, <4>2, <4>3, <3>1, <3>4, <1>6, <1>f, <2>1
    <3>6. loc'[d].prev \notin live'
      BY <3>1, <1>1, <1>5
    <3>7. loc'[d].partial = Shared
      BY <2>1, <3>1, <1>3, <1>6
    <3>8. \A q \in Paths : paths'[q] # loc'[d].prev
      BY <3>1, <3>2, <1>3
    <3>9. \A e \in Conns : loc'[e].prev = loc'[d].prev => e = d
      BY <2>1, <3>1, <3>3, <1>f
    <3> QED
      BY <3>5, <3>6, <3>7, <3>8, <3>9
  <2>2. CASE d # c
    <3>1. loc'[d] = loc[d] /\ loc[d].prev # k
      BY <2>2, <1>4, <1>f, Zenon
    <3>2. /\ loc[d].prev \notin live
          /\ loc[d].partial = Shared
          /\ \A q \in Paths : paths[q] # loc[d].prev
          /\ \A e \in Conns : loc[e].prev = loc[d].prev => e = d
          /\ \A e \in Conns, q \in Paths : Has(e, loc[d].prev, q) => e # d /\ q = Shared
      BY <3>1 DEF Claimed, PrevQuiet
    <3>3. \A e \in Conns, q \in Paths : Has(e, loc[d].prev, q)' => Has(e, loc[d].prev, q)
      <4> SUFFICES ASSUME NEW e \in Conns, NEW q \in Paths, Has(e, loc[d].prev, q)'
                   PROVE  Has(e, loc[d].prev, q)
        OBVIOUS
      <4>1. PICK x \in Claims : x = loc[d].prev
        BY <2>0, <3>1
      <4>2. Has(e, x, q)' /\ x # k
        BY <3>1, <4>1 DEF Has
      <4>3. e # c
        BY <1>7, <4>2
      <4>4. Has(e, x, q)
        BY <1>f, <4>2, <4>3
      <4> QED
        BY <4>1, <4>4
    <3>4. loc'[d].prev \notin live'
      BY <3>1, <3>2, <1>1
    <3>5. \A q \in Paths : paths'[q] # loc'[d].prev
      BY <3>1, <3>2, <1>3, Zenon
    <3>6. \A e \in Conns : loc'[e].prev = loc'[d].prev => e = d
      BY <2>0, <3>1, <3>2, <1>3, <1>f, Zenon
    <3>7. \A e \in Conns, q \in Paths : Has(e, loc[d].prev, q)' => e # d /\ q = Shared
      BY <3>2, <3>3
    <3>8. loc'[d].partial = Shared
      BY <3>1, <3>2
    <3> QED
      BY <3>4, <3>5, <3>6, <3>7, <3>8
  <2> QED
    BY <2>1, <2>2
<1>10. LiveClaimOwned'
  <2> SUFFICES ASSUME NEW q \in Paths, paths'[q] # None, paths'[q] \in live'
               PROVE  \E d \in Conns : \/ tr'[d] # None /\ tr'[d].claim = paths'[q]
                                       \/ loc'[d].claim = paths'[q]
    BY DEF LiveClaimOwned, PartialHeld, Live
  <2>1. CASE q = p
    BY <2>1, <1>3
  <2>2. CASE q # p
    <3>1. paths[q] # None /\ paths[q] \in live /\ paths'[q] = paths[q]
      BY <2>2, <1>1, <1>3, <1>4
    <3>2. PICK d \in Conns : \/ tr[d] # None /\ tr[d].claim = paths[q]
                             \/ loc[d].claim = paths[q]
      BY <3>1 DEF Claimed, LiveClaimOwned, PartialHeld, Live
    <3>3. d # c
      BY <3>1, <3>2, <1>2, <1>7
    <3> QED
      BY <3>1, <3>2, <3>3, <1>f
  <2> QED
    BY <2>1, <2>2
<1>11. InitHolds'
  <2>1. \A d \in Conns : d # c /\ pc[d] \in {"open", "install"} =>
          /\ loc[d].partial # p /\ loc[d].partial \in Paths
          /\ paths[loc[d].partial] = loc[d].claim /\ loc[d].claim \in live
    BY <1>3, <1>5 DEF InitHolds, TypeOK, Local
  <2>2. paths'[loc'[c].partial] = loc'[c].claim /\ loc'[c].claim \in live'
    BY <1>1, <1>3
  <2>3. ASSUME NEW d \in Conns, d # c, pc'[d] \in {"open", "install"}
        PROVE  paths'[loc'[d].partial] = loc'[d].claim /\ loc'[d].claim \in live'
    <3>1. loc'[d] = loc[d] /\ pc[d] \in {"open", "install"}
      BY <2>3, <1>f, Zenon
    <3>2. paths'[loc[d].partial] = loc[d].claim
      BY <3>1, <2>1, <2>3, <1>3
    <3> QED
      BY <3>1, <3>2, <2>1, <2>3, <1>1
  <2> QED
    BY <2>2, <2>3 DEF InitHolds
<1>12. PrivateUnshared'
  <2>1. \A s \in Suffixes : Uses(c, s)' <=> Uses(c, s)
    BY <1>2, <1>3 DEF Uses, p
  <2>2. \A s \in Suffixes : s \in Paths
    BY DEF Paths
  <2>3. \A s \in Suffixes : paths'[s] # None => paths[s] # None \/ Uses(c, s)
    BY <2>2, <1>3 DEF Uses, p
  <2> QED
    BY <2>1, <2>3, <1>2, PrivateKept
<1> QED
  BY <1>8, <1>9, <1>10, <1>11, <1>12 DEF Claimed

(***************************************************************************)
(* An INIT that fails hands its path back to the quiet claim it took over. *)
(***************************************************************************)
LEMMA FailsTable ==
    ASSUME NEW c \in Conns, TypeOK, TypeOK', HandlerOf(c), HandlerOf(c)', Frame(c),
           Claimed, InitHolds, PrivateUnshared, InitFails(c)
    PROVE  Claimed' /\ InitHolds' /\ PrivateUnshared'
<1> USE NoneAssumption
<1> DEFINE p == loc[c].partial
           k == loc[c].claim
           v == loc[c].prev
<1>1. /\ pc[c] = "open" /\ pc'[c] = "idle" /\ loc'[c] = NoLocal
      /\ UNCHANGED <<data, final, tr>>
  BY DEF InitFails, Return, TypeOK
<1>2. /\ p \in Paths /\ k \in Claims /\ v \in Claims \cup {None}
      /\ NoLocal.claim = None /\ NoLocal.prev = None /\ NoLocal.partial = Shared
      /\ paths[p] = k /\ k \in live
      /\ \A s \in Suffixes : s # Shared /\ s \in Paths
  BY <1>1, Zenon DEF HandlerOf, InitHolds, TypeOK, Local, NoLocal, Paths
<1>f. \A d \in Conns : d # c =>
        /\ \A x \in Claims, q \in Paths : Has(d, x, q)' <=> Has(d, x, q)
        /\ tr'[d] = tr[d] /\ pc'[d] = pc[d] /\ loc'[d] = loc[d]
  BY DEF Frame, Has
<1>u. \A s \in Suffixes : Uses(c, s)' => Uses(c, s)
  BY <1>1, <1>2 DEF Uses
<1>3. CASE tr[c] # None
  <2>1. UNCHANGED <<paths, live, dir>> /\ tr[c].claim = k /\ tr[c].partial = p
    BY <1>1, <1>3, Zenon DEF InitFails, HandlerOf
  <2>2. \A x \in Claims, q \in Paths : Has(c, x, q)' <=> Has(c, x, q)
    BY <1>1, <1>2, <1>3, <2>1, Zenon DEF Has
  <2>3. Claimed'
    <3>1. Keeps(c)
      BY <1>1, <1>2, <2>1, <2>2 DEF Keeps
    <3> QED
      BY <3>1, ConnKept
  <2>4. InitHolds'
    BY <1>1, <1>f, <2>1 DEF InitHolds
  <2> QED
    BY <1>1, <1>u, <2>1, <2>3, <2>4, PrivateKept, Zenon
<1>4. CASE tr[c] = None
  <2>1. /\ live' = live \ {k}
        /\ \A q \in Paths : paths'[q] = IF q = p THEN v ELSE paths[q]
        /\ \A q \in Paths : dir'[q] # None => dir[q] # None
    BY <1>4, <1>2, Zenon DEF InitFails, Unclaimed, WithoutPrivate, TypeOK
  <2>2. /\ \A x \in Claims, q \in Paths : ~Has(c, x, q)'
        /\ Has(c, k, p)
    BY <1>1, <1>2, <1>4, Zenon DEF Has
  <2>3. \A d \in Conns, q \in Paths : d # c => ~Has(d, k, q)
    BY <1>2, <2>2 DEF Claimed, ClaimsOwned
  <2>4. v # None =>
          /\ v \in Claims /\ v \notin live /\ p = Shared
          /\ \A q \in Paths : paths[q] # v
          /\ \A d \in Conns : loc[d].prev = v => d = c
          /\ \A d \in Conns, q \in Paths : Has(d, v, q) => q = Shared
    BY <1>2 DEF Claimed, PrevQuiet
  <2> HIDE DEF p, k, v
  <2>5. ClaimsOwned'
    <3>1. \A d, e \in Conns, q, r \in Paths, x \in Claims :
           Has(d, x, q)' /\ Has(e, x, r)' => d = e /\ q = r
      <4> SUFFICES ASSUME NEW d \in Conns, NEW e \in Conns, NEW q \in Paths, NEW r \in Paths,
                          NEW x \in Claims, Has(d, x, q)', Has(e, x, r)'
                   PROVE  d = e /\ q = r
        OBVIOUS
      <4>1. d # c /\ e # c
        BY <2>2
      <4>2. Has(d, x, q) /\ Has(e, x, r)
        BY <1>f, <4>1
      <4> QED
        BY <4>2 DEF Claimed, ClaimsOwned
    <3>2. \A d \in Conns, q, r \in Paths, x \in Claims :
           Has(d, x, q)' /\ paths'[r] = x => q = r
      <4> SUFFICES ASSUME NEW d \in Conns, NEW q \in Paths, NEW r \in Paths, NEW x \in Claims,
                          Has(d, x, q)', paths'[r] = x
                   PROVE  q = r
        OBVIOUS
      <4>1. d # c
        BY <2>2
      <4>2. Has(d, x, q)
        BY <4>1, <1>f
      <4>3. CASE r = p
        <5>1. x = v /\ v # None
          BY <4>3, <2>1, NoneAssumption
        <5> QED
          BY <5>1, <4>2, <4>3, <2>4
      <4>4. CASE r # p
        <5>1. paths[r] = x
          BY <4>4, <2>1
        <5> QED
          BY <5>1, <4>2 DEF Claimed, ClaimsOwned
      <4> QED
        BY <4>3, <4>4
    <3>3. \A q, r \in Paths : paths'[q] # None /\ paths'[q] = paths'[r] => q = r
      BY <2>1, <2>4 DEF Claimed, ClaimsOwned
    <3> QED
      BY <3>1, <3>2, <3>3 DEF ClaimsOwned
  <2>6. PrevQuiet'
    <3> SUFFICES ASSUME NEW d \in Conns, loc'[d].prev # None
                 PROVE  /\ loc'[d].prev \notin live'
                        /\ loc'[d].partial = Shared
                        /\ \A q \in Paths : paths'[q] # loc'[d].prev
                        /\ \A e \in Conns : loc'[e].prev = loc'[d].prev => e = d
                        /\ \A e \in Conns, q \in Paths :
                             Has(e, loc[d].prev, q)' => e # d /\ q = Shared
      BY DEF PrevQuiet
    <3>1. d # c /\ loc'[d] = loc[d] /\ loc[d].prev \in Claims
      BY <1>1, <1>2, <1>f DEF TypeOK, Local
    <3>2. /\ loc[d].prev \notin live
          /\ loc[d].partial = Shared
          /\ \A q \in Paths : paths[q] # loc[d].prev
          /\ \A e \in Conns : loc[e].prev = loc[d].prev => e = d
          /\ \A e \in Conns, q \in Paths : Has(e, loc[d].prev, q) => e # d /\ q = Shared
      BY <3>1, Zenon DEF Claimed, PrevQuiet
    <3>3. \A e \in Conns, q \in Paths : Has(e, loc[d].prev, q)' => Has(e, loc[d].prev, q)
      <4> SUFFICES ASSUME NEW e \in Conns, NEW q \in Paths, Has(e, loc[d].prev, q)'
                   PROVE  Has(e, loc[d].prev, q)
        OBVIOUS
      <4>1. PICK x \in Claims : x = loc[d].prev
        BY <3>1
      <4>2. Has(e, x, q)'
        BY <3>1, <4>1 DEF Has
      <4>3. e # c
        BY <2>2, <4>2
      <4>4. Has(e, x, q)
        BY <1>f, <4>2, <4>3 DEF Has
      <4> QED
        BY <4>1, <4>4
    <3>4. loc[d].prev # v
      BY <3>1, <2>4, Zenon
    <3>5. \A e \in Conns : loc'[e].prev = loc'[d].prev => e = d
      BY <3>1, <3>2, <1>1, <1>2, <1>f, Zenon
    <3> QED
      BY <3>1, <3>2, <3>3, <3>4, <3>5, <2>1, Zenon
  <2>7. LiveClaimOwned'
    <3> SUFFICES ASSUME NEW q \in Paths, paths'[q] # None, paths'[q] \in live'
                 PROVE  \E d \in Conns : \/ tr'[d] # None /\ tr'[d].claim = paths'[q]
                                         \/ loc'[d].claim = paths'[q]
      BY DEF LiveClaimOwned, PartialHeld, Live
    <3>1. q # p /\ paths'[q] = paths[q] /\ paths[q] \in live
      BY <2>1, <2>4, Zenon
    <3>2. paths[q] # k
      BY <3>1, <1>2 DEF Claimed, ClaimsOwned, p, k
    <3>3. PICK d \in Conns : \/ tr[d] # None /\ tr[d].claim = paths[q]
                             \/ loc[d].claim = paths[q]
      BY <3>1 DEF Claimed, LiveClaimOwned, PartialHeld, Live
    <3>4. d # c
      BY <3>2, <3>3, <1>4 DEF k
    <3> QED
      BY <3>1, <3>3, <3>4, <1>f, Zenon
  <2>8. InitHolds'
    <3>1. \A d \in Conns : d # c /\ pc[d] \in {"open", "install"} =>
            /\ loc[d].partial \in Paths /\ loc[d].claim \in Claims
            /\ paths[loc[d].partial] = loc[d].claim /\ loc[d].claim \in live
            /\ Has(d, loc[d].claim, loc[d].partial)
      BY Zenon DEF InitHolds, TypeOK, Local, Has
    <3>2. \A d \in Conns : d # c /\ pc[d] \in {"open", "install"} =>
            loc[d].claim # k /\ loc[d].partial # p
      BY <3>1, <2>3, <1>2, Zenon DEF p, k
    <3> SUFFICES ASSUME NEW d \in Conns, pc'[d] \in {"open", "install"}
                 PROVE  paths'[loc'[d].partial] = loc'[d].claim /\ loc'[d].claim \in live'
      BY DEF InitHolds
    <3>3. d # c
      BY <1>1
    <3>4. pc'[d] = pc[d] /\ loc'[d] = loc[d]
      BY <3>3, <1>f, Zenon
    <3> QED
      BY <3>1, <3>2, <3>3, <3>4, <2>1, Zenon
  <2>9. PrivateUnshared'
    <3>1. \A s \in Suffixes : /\ dir'[s] # None => dir[s] # None
                              /\ paths'[s] # None => paths[s] # None
      BY <2>1, <2>4, <1>2, Zenon
    <3> QED
      BY <1>1, <1>u, <3>1, PrivateKept, Zenon
  <2> QED
    BY <2>5, <2>6, <2>7, <2>8, <2>9 DEF Claimed
<1> QED
  BY <1>3, <1>4

(***************************************************************************)
(* handleInit preserves the claim table's invariant.                       *)
(***************************************************************************)
LEMMA InitStepTable ==
    ASSUME TypeOK, HandlerOK, Table, NEW c \in Conns, HandleInit(c)
    PROVE  Table'
<1> USE NoneAssumption
<1>0. TypeOK' /\ HandlerOf(c) /\ HandlerOf(c)' /\ Frame(c)
  BY InitStepType DEF HandlerOK
<1>t. /\ tr[c] # None => /\ tr[c].partial \in Paths /\ tr[c].claim \in Claims
                         /\ tr[c].claim # None
      /\ loc[c].partial \in Paths
      /\ NoLocal.claim = None /\ NoLocal.prev = None /\ NoLocal.partial = Shared
      /\ \A s \in Suffixes : s # Shared /\ s \in Paths
  BY Zenon DEF TypeOK, Transfer, Local, NoLocal, Paths
<1>f. \A d \in Conns : d # c =>
        /\ \A k \in Claims, p \in Paths : Has(d, k, p)' <=> Has(d, k, p)
        /\ tr'[d] = tr[d] /\ pc'[d] = pc[d] /\ loc'[d] = loc[d]
  BY <1>0, Zenon DEF Frame, Has
<1>c. Claimed /\ InitHolds /\ PrivateUnshared
  BY DEF Table
<1>1. CASE InitFull(c)
  <2>1. /\ pc[c] = "idle" /\ ~Holds(c) /\ tr'[c] = None
        /\ UNCHANGED <<paths, live, dir, data, final, pc, loc>>
    BY <1>1 DEF InitFull, TypeOK
  <2>2. \A k \in Claims, p \in Paths : Has(c, k, p)' => Has(c, k, p)
    BY <2>1 DEF Has
  <2>3. \A k \in Claims, p \in Paths : Has(c, k, p) /\ paths[p] = k => Has(c, k, p)'
    BY <2>1 DEF Has, Holds, StillHolds
  <2>4. Claimed'
    <3>1. loc'[c].prev = None
      BY <1>0, <1>t, <2>1, Zenon DEF HandlerOf
    <3>2. Keeps(c)
      BY <2>1, <2>2, <2>3, <3>1, Zenon DEF Keeps
    <3> QED
      BY <1>0, <1>c, <3>2, ConnKept
  <2>5. InitHolds'
    BY <1>c, <2>1, Zenon DEF InitHolds
  <2>6. PrivateUnshared'
    <3>1. \A s \in Suffixes : Uses(c, s)' => Uses(c, s)
      BY <2>1 DEF Uses
    <3> QED
      BY <1>0, <1>c, <2>1, <3>1, PrivateKept, Zenon
  <2> QED
    BY <2>4, <2>5, <2>6 DEF Table
<1>2. CASE InitAgain(c)
  <2>1. /\ pc[c] = "idle" /\ Holds(c) /\ live' = live \cup {tr[c].claim}
        /\ pc'[c] = "open" /\ UNCHANGED <<paths, dir, data, final, tr>>
    BY <1>2 DEF InitAgain, Refresh, TypeOK
  <2>2. loc[c].claim = None /\ loc'[c].claim = tr[c].claim /\ loc'[c].partial = tr[c].partial
        /\ loc'[c].prev = None /\ tr[c] # None
    BY <1>0, <2>1, <1>t, Zenon DEF HandlerOf, Holds
  <2>3. \A k \in Claims, p \in Paths : Has(c, k, p)' <=> Has(c, k, p)
    BY <2>1, <2>2, Zenon DEF Has
  <2>4. Has(c, tr[c].claim, tr[c].partial) /\ paths[tr[c].partial] = tr[c].claim
    BY <2>1, <2>2 DEF Has, Holds, StillHolds
  <2>5. Claimed'
    <3>1. Keeps(c)
      BY <1>t, <2>1, <2>2, <2>3, <2>4, Zenon DEF Keeps
    <3> QED
      BY <1>0, <1>c, <3>1, ConnKept
  <2>6. InitHolds'
    BY <1>c, <1>f, <2>1, <2>2, <2>4, Zenon DEF InitHolds
  <2>7. PrivateUnshared'
    <3>1. \A s \in Suffixes : Uses(c, s)' => Uses(c, s)
      BY <2>1, <2>2, Zenon DEF Uses
    <3> QED
      BY <1>0, <1>c, <2>1, <3>1, PrivateKept, Zenon
  <2> QED
    BY <2>5, <2>6, <2>7 DEF Table
<1>3. CASE InitNew(c)
  <2>1. /\ pc[c] = "idle" /\ ~Holds(c) /\ tr'[c] = None /\ pc'[c] = "claim"
        /\ UNCHANGED <<paths, live, dir, data, final>>
    BY <1>3 DEF InitNew, TypeOK
  <2>2. loc[c].claim = None /\ loc'[c].claim = None /\ loc'[c].prev = None
    BY <1>0, <2>1, <1>t, Zenon DEF HandlerOf
  <2>3. loc'[c].partial \in FreshSuffixes \cup {Shared}
    <3>1. PICK n \in Declared, p \in IF PartialHeld(Shared) THEN FreshSuffixes ELSE {Shared} :
            loc' = [loc EXCEPT ![c] = [NoLocal EXCEPT !.partial = p, !.size = n]]
      BY <1>3, Zenon DEF InitNew
    <3>2. loc'[c].partial = p
      BY <3>1 DEF TypeOK, NoLocal
    <3> QED
      BY <3>2
  <2>4. \A k \in Claims, p \in Paths : /\ Has(c, k, p)' => Has(c, k, p)
                                       /\ ~(Has(c, k, p) /\ paths[p] = k)
    BY <2>1, <2>2, Zenon DEF Has, Holds, StillHolds
  <2>5. Claimed'
    <3>1. Keeps(c)
      BY <2>1, <2>2, <2>4, Zenon DEF Keeps
    <3> QED
      BY <1>0, <1>c, <3>1, ConnKept
  <2>6. InitHolds'
    BY <1>c, <1>f, <2>1 DEF InitHolds
  <2>7. PrivateUnshared'
    <3>1. \A s \in Suffixes : Uses(c, s)' => s \in FreshSuffixes
      BY <2>1, <2>3, <1>t, Zenon DEF Uses
    <3> QED
      BY <1>0, <1>c, <2>1, <2>3, <3>1, PrivateKept, Zenon
  <2> QED
    BY <2>5, <2>6, <2>7 DEF Table
<1>4. CASE InitNotAdmitted(c)
  <2>1. /\ pc[c] = "claim" /\ pc'[c] = "idle" /\ loc'[c] = NoLocal
        /\ UNCHANGED <<paths, live, dir, data, final, tr>>
    BY <1>4 DEF InitNotAdmitted, Return, TypeOK
  <2>2. loc[c].claim = None /\ tr[c] = None
    BY <1>0, <2>1 DEF HandlerOf
  <2>3. \A k \in Claims, p \in Paths : ~Has(c, k, p)' /\ ~Has(c, k, p)
    BY <2>1, <2>2, <1>t, Zenon DEF Has
  <2>5. Claimed'
    <3>1. Keeps(c)
      BY <1>t, <2>1, <2>3 DEF Keeps
    <3> QED
      BY <1>0, <1>c, <3>1, ConnKept
  <2>6. InitHolds'
    BY <1>c, <1>f, <2>1 DEF InitHolds
  <2>7. PrivateUnshared'
    <3>1. \A s \in Suffixes : ~Uses(c, s)'
      BY <2>1, <2>2, <1>t DEF Uses
    <3> QED
      BY <1>0, <1>c, <2>1, <3>1, PrivateKept
  <2> QED
    BY <2>5, <2>6, <2>7 DEF Table
<1>5. CASE InitLostRace(c)
  <2>1. /\ pc[c] = "claim" /\ UNCHANGED <<paths, live, dir, data, final, tr, pc>>
        /\ \E s \in FreshSuffixes : loc' = [loc EXCEPT ![c].partial = s]
    BY <1>5, Zenon DEF InitLostRace
  <2>2. loc[c].claim = None /\ tr[c] = None /\ loc'[c].claim = None /\ loc'[c].prev = None
    BY <1>0, <2>1 DEF HandlerOf
  <2>3. loc'[c].partial \in FreshSuffixes
    BY <2>1 DEF TypeOK, Local
  <2>4. \A k \in Claims, p \in Paths : ~Has(c, k, p)' /\ ~Has(c, k, p)
    BY <2>1, <2>2 DEF Has
  <2>5. Claimed'
    <3>1. Keeps(c)
      BY <2>1, <2>2, <2>4 DEF Keeps
    <3> QED
      BY <1>0, <1>c, <3>1, ConnKept
  <2>6. InitHolds'
    BY <1>c, <1>f, <2>1 DEF InitHolds
  <2>7. PrivateUnshared'
    <3>1. \A s \in Suffixes : Uses(c, s)' => s \in FreshSuffixes
      BY <2>1, <2>2, <2>3 DEF Uses
    <3> QED
      BY <1>0, <1>c, <2>1, <2>3, <3>1, PrivateKept
  <2> QED
    BY <2>5, <2>6, <2>7 DEF Table
<1>8. CASE OpenPartial(c)
  <2>1. /\ pc[c] = "open" /\ pc'[c] = "install" /\ UNCHANGED <<paths, live, final, tr>>
        /\ \A q \in Paths : q # loc[c].partial => dir'[q] = dir[q]
        /\ \E i : loc' = [loc EXCEPT ![c].file = i, ![c].prev = None]
    BY <1>8, <1>t, Zenon DEF OpenPartial, TypeOK
  <2>2. loc'[c].claim = loc[c].claim /\ loc'[c].partial = loc[c].partial /\ loc'[c].prev = None
    BY <2>1 DEF TypeOK, Local
  <2>4. \A k \in Claims, p \in Paths : Has(c, k, p)' <=> Has(c, k, p)
    BY <2>1, <2>2 DEF Has
  <2>5. Claimed'
    <3>1. Keeps(c)
      BY <2>1, <2>2, <2>4 DEF Keeps
    <3> QED
      BY <1>0, <1>c, <3>1, ConnKept
  <2>6. InitHolds'
    <3>1. paths[loc[c].partial] = loc[c].claim /\ loc[c].claim \in live
      BY <1>c, <2>1 DEF InitHolds
    <3>2. paths' = paths /\ live' = live
      BY <2>1
    <3> QED
      BY <1>c, <1>f, <2>2, <3>1, <3>2, Zenon DEF InitHolds
  <2>7. PrivateUnshared'
    <3>1. \A s \in Suffixes : Uses(c, s)' <=> Uses(c, s)
      BY <2>1, <2>2 DEF Uses
    <3>2. \A s \in Suffixes : dir'[s] # None => dir[s] # None \/ Uses(c, s)
      BY <2>1, <1>t DEF Uses
    <3> QED
      BY <1>0, <1>c, <2>1, <3>1, <3>2, PrivateKept
  <2> QED
    BY <2>5, <2>6, <2>7 DEF Table
<1>9. CASE InitInstall(c)
  <2>0. PICK t \in Transfer :
          /\ tr' = [tr EXCEPT ![c] = t]
          /\ t.partial = loc[c].partial /\ t.claim = loc[c].claim
    BY <1>9, <1>0, Installed, Zenon
  <2>1. /\ pc[c] = "install" /\ pc'[c] = "idle" /\ loc'[c] = NoLocal
        /\ UNCHANGED <<paths, live, dir, final>>
        /\ tr'[c] = t /\ tr'[c].claim = loc[c].claim /\ tr'[c].partial = loc[c].partial
    BY <1>9, <1>0, <2>0, Zenon DEF InitInstall, Return, TypeOK
  <2>2. /\ tr'[c] # None
        /\ tr[c] # None => tr[c].claim = loc[c].claim /\ tr[c].partial = loc[c].partial
    BY <1>0, <2>0, <2>1, Zenon DEF HandlerOf
  <2>4. \A k \in Claims, p \in Paths : Has(c, k, p)' <=> Has(c, k, p)
    BY <2>1, <2>2, <1>t DEF Has
  <2>5. Claimed'
    <3>1. Keeps(c)
      BY <1>t, <2>1, <2>2, <2>4, Zenon DEF Keeps
    <3> QED
      BY <1>0, <1>c, <3>1, ConnKept
  <2>6. InitHolds'
    BY <1>c, <1>f, <2>1 DEF InitHolds
  <2>7. PrivateUnshared'
    <3>1. \A s \in Suffixes : Uses(c, s)' => Uses(c, s)
      BY <2>1, <2>2, <1>t DEF Uses
    <3> QED
      BY <1>0, <1>c, <2>1, <3>1, PrivateKept, Zenon
  <2> QED
    BY <2>5, <2>6, <2>7 DEF Table
<1>6. CASE ClaimPartial(c)
  BY <1>0, <1>6, <1>c, ClaimTable DEF Table
<1>7. CASE InitFails(c)
  BY <1>0, <1>7, <1>c, FailsTable DEF Table
<1> QED
  BY <1>1, <1>2, <1>3, <1>4, <1>5, <1>6, <1>7, <1>8, <1>9 DEF HandleInit

(***************************************************************************)
(* A step of c outside handleInit that leaves the table alone: it may      *)
(* refresh a claim that c has in the table and drop one that is not there. *)
(***************************************************************************)
LEMMA StepKept ==
    ASSUME TypeOK, TypeOK', Table, NEW c \in Conns, Frame(c),
           paths' = paths, live \subseteq live',
           \A k \in live' : \/ k \in live
                            \/ \E p \in Paths : Has(c, k, p) /\ paths[p] = k,
           \A k \in Claims, p \in Paths : Has(c, k, p)' => Has(c, k, p),
           \A k \in Claims, p \in Paths : Has(c, k, p) /\ paths[p] = k => Has(c, k, p)',
           loc'[c].prev = None,
           pc'[c] \notin InitPCs,
           \A s \in Suffixes : Uses(c, s)' => Uses(c, s),
           \A p \in Paths : dir'[p] # None => dir[p] # None
    PROVE  Table'
<1>1. \A d \in Conns : d # c =>
        /\ \A k \in Claims, p \in Paths : Has(d, k, p)' <=> Has(d, k, p)
        /\ tr'[d] = tr[d] /\ pc'[d] = pc[d] /\ loc'[d] = loc[d]
  BY Zenon DEF Frame, Has
<1>2. Claimed /\ InitHolds /\ PrivateUnshared
  BY DEF Table
<1>3. Claimed'
  <2>1. Keeps(c)
    BY Zenon DEF Keeps
  <2> QED
    BY <1>2, <2>1, ConnKept, Zenon
<1>4. InitHolds'
  BY <1>1, <1>2, Zenon DEF InitHolds, InitPCs
<1>5. PrivateUnshared'
  <2>1. pc'[c] # "claim"
    BY Zenon DEF InitPCs
  <2>2. \A s \in Suffixes : s \in Paths
    BY DEF Paths
  <2> QED
    BY <1>2, <2>1, <2>2, PrivateKept, Zenon
<1> QED
  BY <1>3, <1>4, <1>5, Zenon DEF Table

(***************************************************************************)
(* A step of c outside handleInit that releases claim k on path p, the     *)
(* only claim it has.                                                      *)
(***************************************************************************)
LEMMA StepReleased ==
    ASSUME TypeOK, TypeOK', Table, NEW c \in Conns, Frame(c),
           NEW k \in Claims, NEW p \in Paths, Has(c, k, p), Release(p, k),
           \A x \in Claims, q \in Paths : Has(c, x, q) => x = k,
           tr'[c] = None, pc'[c] = "idle", loc'[c] = NoLocal
    PROVE  Table'
<1> USE NoneAssumption
<1>0. /\ NoLocal.claim = None /\ NoLocal.prev = None /\ NoLocal.partial = Shared
      /\ \A s \in Suffixes : s # Shared /\ s \in Paths
  BY Zenon DEF NoLocal, Paths
<1>1. \A d \in Conns : d # c =>
        /\ \A x \in Claims, q \in Paths : Has(d, x, q)' <=> Has(d, x, q)
        /\ tr'[d] = tr[d] /\ pc'[d] = pc[d] /\ loc'[d] = loc[d]
  BY DEF Frame, Has
<1>2. Claimed /\ InitHolds /\ PrivateUnshared
  BY DEF Table
<1>3. \A d \in Conns, q \in Paths : d # c => ~Has(d, k, q)
  BY <1>2 DEF Claimed, ClaimsOwned
<1>4. \A x \in Claims, q \in Paths : ~Has(c, x, q)'
  BY <1>0 DEF Has
<1>5. /\ paths' = Unclaimed(p, k, None)
      /\ live' = IF paths[p] = k THEN live \ {k} ELSE live
      /\ \A q \in Paths : paths'[q] = IF q = p /\ paths[p] = k THEN None ELSE paths[q]
      /\ \A q \in Paths : dir'[q] # None => dir[q] # None
  BY DEF Release, Unclaimed, WithoutPrivate, TypeOK
<1>6. Claimed'
  <2>1. \A d \in Conns, x \in Claims, q \in Paths : Has(d, x, q)' <=> Has(d, x, q) /\ x # k
    BY <1>1, <1>3, <1>4, Zenon
  <2>2. \A d \in Conns : loc'[d].prev # None =>
          loc'[d].prev = loc[d].prev /\ loc'[d].partial = loc[d].partial
    BY <1>0, <1>1
  <2> QED
    BY <1>2, <1>5, <2>1, <2>2, TableReleased, Zenon
<1>7. InitHolds'
  <2> SUFFICES ASSUME NEW d \in Conns, pc'[d] \in {"open", "install"}
               PROVE  paths'[loc'[d].partial] = loc'[d].claim /\ loc'[d].claim \in live'
    BY Zenon DEF InitHolds
  <2>1. d # c /\ pc[d] \in {"open", "install"} /\ loc'[d] = loc[d]
    BY <1>1
  <2>2. /\ loc[d].partial \in Paths /\ loc[d].claim \in Claims
        /\ paths[loc[d].partial] = loc[d].claim /\ loc[d].claim \in live
        /\ Has(d, loc[d].claim, loc[d].partial)
    BY <2>1, <1>2, Zenon DEF InitHolds, TypeOK, Local, Has
  <2>3. loc[d].claim # k
    BY <2>1, <2>2, <1>3, Zenon
  <2>4. paths'[loc[d].partial] = loc[d].claim
    BY <2>2, <2>3, <1>5, Zenon
  <2> QED
    BY <2>1, <2>2, <2>3, <2>4, <1>5, Zenon
<1>8. PrivateUnshared'
  <2>1. \A s \in Suffixes : ~Uses(c, s)'
    BY <1>0 DEF Uses
  <2>2. \A s \in Suffixes : /\ dir'[s] # None => dir[s] # None
                            /\ paths'[s] # None => paths[s] # None
    BY <1>0, <1>5, Zenon
  <2> QED
    BY <1>2, <2>1, <2>2, PrivateKept, Zenon
<1> QED
  BY <1>6, <1>7, <1>8, Zenon DEF Table

(***************************************************************************)
(* handleChunk preserves the claim table's invariant.                      *)
(***************************************************************************)
LEMMA ChunkStepTable ==
    ASSUME TypeOK, HandlerOK, Table, NEW c \in Conns, HandleChunk(c)
    PROVE  Table'
<1> USE NoneAssumption
<1>0. TypeOK' /\ HandlerOf(c) /\ HandlerOf(c)' /\ Frame(c)
  BY ChunkStepType DEF HandlerOK
<1>t. /\ tr[c] # None => /\ tr[c].partial \in Paths /\ tr[c].claim \in Claims
                         /\ tr[c].cursor \in Nat
      /\ loc[c].partial \in Paths /\ loc[c].claim \in Claims \cup {None}
      /\ NoLocal.claim = None /\ NoLocal.prev = None /\ NoLocal.partial = Shared
      /\ \A s \in Suffixes : s # Shared /\ s \in Paths
  BY DEF TypeOK, Transfer, Local, NoLocal, Paths, Sizes
<1>1. CASE ChunkWritten(c) \/ ChunkFails(c)
  <2>1. /\ tr[c] \in Transfer /\ Holds(c) /\ pc[c] = "idle" /\ tr[c] # None
        /\ UNCHANGED <<paths, dir, final>> /\ live' = live \cup {tr[c].claim}
    BY <1>1, ChunkWrites, Zenon DEF Holds
  <2>2. PICK n, m, r :
          /\ n \in Nat /\ m \in Nat
          /\ Wrote(c, n, m, r)
          /\ \/ /\ \E j \in Nat : tr' = [tr EXCEPT ![c] = Advanced(tr[c], m, j)]
                /\ UNCHANGED <<pc, loc>>
             \/ /\ tr' = [tr EXCEPT ![c] = None]
                /\ pc' = [pc EXCEPT ![c] = "abandon"]
                /\ loc' = [loc EXCEPT ![c] = [NoLocal EXCEPT
                              !.partial = tr[c].partial, !.claim = tr[c].claim]]
    BY <1>1, ChunkWrites, Zenon
  <2> n \in Nat /\ m \in Nat
    BY <2>2
  <2>3. loc[c] = NoLocal
    BY <1>0, <2>1 DEF HandlerOf
  <2>4. \/ /\ tr'[c] # None /\ tr'[c].claim = tr[c].claim
           /\ tr'[c].partial = tr[c].partial /\ loc'[c] = NoLocal /\ pc'[c] = "idle"
        \/ /\ tr'[c] = None /\ loc'[c].claim = tr[c].claim /\ loc'[c].prev = None
           /\ loc'[c].partial = tr[c].partial /\ pc'[c] = "abandon"
    <3>1. CASE \E j \in Nat : tr' = [tr EXCEPT ![c] = Advanced(tr[c], m, j)] /\ UNCHANGED <<pc, loc>>
      <4>1. PICK j \in Nat : tr' = [tr EXCEPT ![c] = Advanced(tr[c], m, j)] /\ UNCHANGED <<pc, loc>>
        BY <3>1, Zenon
      <4>2. tr[c].cursor + m <= MaxSize
        BY <2>1, <2>2, <1>t, SizeAssumption DEF Wrote
      <4>3. /\ Advanced(tr[c], m, j) \in Transfer
            /\ Advanced(tr[c], m, j).partial = tr[c].partial
            /\ Advanced(tr[c], m, j).claim = tr[c].claim
        BY <2>1, <4>2, AdvancedType, Zenon
      <4>4. tr'[c] = Advanced(tr[c], m, j)
        BY <4>1 DEF TypeOK
      <4>5. tr'[c] # None
        BY <4>3, <4>4
      <4> QED
        BY <4>1, <4>3, <4>4, <4>5, <2>1, <2>3, Zenon
    <3>2. CASE /\ tr' = [tr EXCEPT ![c] = None]
               /\ pc' = [pc EXCEPT ![c] = "abandon"]
               /\ loc' = [loc EXCEPT ![c] = [NoLocal EXCEPT
                             !.partial = tr[c].partial, !.claim = tr[c].claim]]
      BY <3>2 DEF TypeOK, NoLocal
    <3> QED
      BY <2>2, <3>1, <3>2
  <2>5. \A k \in Claims, p \in Paths : Has(c, k, p)' <=> Has(c, k, p)
    BY <2>1, <2>3, <2>4, <1>t, Zenon DEF Has
  <2>6. Has(c, tr[c].claim, tr[c].partial) /\ paths[tr[c].partial] = tr[c].claim
    BY <2>1, Zenon DEF Has, Holds, StillHolds
  <2>7. \A s \in Suffixes : Uses(c, s)' => Uses(c, s)
    BY <2>1, <2>4, <1>t DEF Uses
  <2>8. loc'[c].prev = None /\ pc'[c] \notin InitPCs
    BY <2>4, <1>t, Zenon DEF InitPCs
  <2>9. \A k \in live' : \/ k \in live
                         \/ \E p \in Paths : Has(c, k, p) /\ paths[p] = k
    BY <2>1, <2>6, <1>t, Zenon
  <2> QED
    BY <1>0, <2>1, <2>5, <2>7, <2>8, <2>9, StepKept, Zenon
<1>2. CASE ChunkBuffered(c)
  <2>1. /\ tr[c] # None /\ pc[c] = "idle" /\ UNCHANGED <<paths, live, dir, data, final, pc, loc>>
        /\ \E o \in Offsets, b \in Sent : tr' = [tr EXCEPT ![c].pending[o] = b]
    BY <1>2, Zenon DEF ChunkBuffered
  <2>2. tr'[c].claim = tr[c].claim /\ tr'[c].partial = tr[c].partial /\ tr'[c] # None
    <3>1. PICK o \in Offsets, b \in Sent : tr' = [tr EXCEPT ![c].pending[o] = b]
      BY <2>1, Zenon
    <3> DEFINE pend == [tr[c].pending EXCEPT ![o] = b]
               t == [tr[c] EXCEPT !.pending = pend]
    <3>2. tr[c] \in Transfer
      BY <2>1 DEF TypeOK
    <3>3. pend \in [Offsets -> Sent \cup {"none"}]
      BY <3>2 DEF Transfer
    <3>4. tr'[c] = t
      BY <3>1 DEF TypeOK
    <3>5. t \in Transfer /\ t.claim = tr[c].claim /\ t.partial = tr[c].partial
      <4> HIDE DEF pend
      <4> QED
        BY <3>2, <3>3 DEF Transfer
    <3> HIDE DEF t
    <3> QED
      BY <3>4, <3>5
  <2>3. loc[c] = NoLocal
    BY <1>0, <2>1 DEF HandlerOf
  <2>5. \A k \in Claims, p \in Paths : Has(c, k, p)' <=> Has(c, k, p)
    BY <2>1, <2>2 DEF Has
  <2>7. \A s \in Suffixes : Uses(c, s)' => Uses(c, s)
    BY <2>1, <2>2 DEF Uses
  <2>8. loc'[c].prev = None /\ pc'[c] \notin InitPCs
    BY <2>1, <2>3, <1>t DEF InitPCs
  <2> QED
    BY <1>0, <2>1, <2>5, <2>7, <2>8, StepKept
<1>3. CASE AbandonRemove(c)
  <2>1. /\ pc[c] = "abandon" /\ pc'[c] = "release" /\ UNCHANGED <<paths, data, final, tr, loc>>
        /\ \/ UNCHANGED <<dir, live>>
           \/ /\ paths[loc[c].partial] = loc[c].claim
              /\ dir' \in {dir, [dir EXCEPT ![loc[c].partial] = None]}
              /\ live' = live \cup {loc[c].claim}
    BY <1>3, Zenon DEF AbandonRemove, AfterRemove, WithoutPrivate, StillHolds, Refresh, TypeOK
  <2>2. loc[c].claim \in Claims /\ loc[c].prev = None
    BY <1>0, <2>1, <1>t, Zenon DEF HandlerOf
  <2>3. Has(c, loc[c].claim, loc[c].partial)
    BY DEF Has
  <2>4. \A k \in live' : \/ k \in live
                         \/ \E p \in Paths : Has(c, k, p) /\ paths[p] = k
    BY <2>1, <2>3, <1>t, Zenon
  <2>5. \A k \in Claims, p \in Paths : Has(c, k, p)' <=> Has(c, k, p)
    BY <2>1 DEF Has
  <2>6. \A p \in Paths : dir'[p] # None => dir[p] # None
    BY <2>1, <1>t, Zenon DEF TypeOK
  <2>7. \A s \in Suffixes : Uses(c, s)' => Uses(c, s)
    BY <2>1, Zenon DEF Uses
  <2>8. loc'[c].prev = None /\ pc'[c] \notin InitPCs /\ live \subseteq live' /\ paths' = paths
    BY <2>1, <2>2 DEF InitPCs
  <2> QED
    BY <1>0, <2>4, <2>5, <2>6, <2>7, <2>8, StepKept, Zenon
<1>4. CASE AbandonRelease(c)
  <2>1. /\ pc[c] = "release" /\ Release(loc[c].partial, loc[c].claim)
        /\ Return(c) /\ tr' = tr
    BY <1>4 DEF AbandonRelease
  <2>2. loc[c].claim \in Claims /\ tr[c] = None
    BY <1>0, <2>1, <1>t, Zenon DEF HandlerOf
  <2>3. /\ Has(c, loc[c].claim, loc[c].partial)
        /\ \A x \in Claims, q \in Paths : Has(c, x, q) => x = loc[c].claim
    BY <2>2, Zenon DEF Has
  <2> QED
    BY <1>0, <1>t, <2>1, <2>2, <2>3, ReturnType, StepReleased, Zenon
<1> QED
  BY <1>1, <1>2, <1>3, <1>4 DEF HandleChunk

(***************************************************************************)
(* handleDone, ABORT and teardown preserve it.                             *)
(***************************************************************************)
LEMMA DoneStepTable ==
    ASSUME TypeOK, HandlerOK, Table, NEW c \in Conns, HandleDone(c) \/ Abort(c) \/ Close(c)
    PROVE  Table'
<1> USE NoneAssumption
<1>0. TypeOK' /\ HandlerOf(c) /\ HandlerOf(c)' /\ Frame(c)
  BY DoneStepType DEF HandlerOK
<1>t. /\ tr[c] # None => tr[c].partial \in Paths /\ tr[c].claim \in Claims
      /\ NoLocal.claim = None /\ NoLocal.prev = None /\ NoLocal.partial = Shared
      /\ \A s \in Suffixes : s # Shared /\ s \in Paths
  BY DEF TypeOK, Transfer, NoLocal, Paths
<1>p. /\ pc[c] \notin {"claim", "open", "install", "abandon", "release"}
      /\ loc[c].claim = None /\ loc[c].prev = None /\ loc[c].partial = Shared
  <2>1. pc[c] \in {"idle", "verify", "rename", "commit"}
    BY DEF HandleDone, Abort, Close, Superseded, DoneRefused, DoneVerify, VerifyRead,
           VerifyFails, VerifyMatch, VerifyMismatch, RenameFails, Rename, Commit, CommitFails
  <2> QED
    BY <2>1, <1>0, <1>t, Zenon DEF HandlerOf
<1>1. CASE tr[c] # None /\ Release(tr[c].partial, tr[c].claim) /\ Return(c) /\ tr'[c] = None
  <2>1. /\ Has(c, tr[c].claim, tr[c].partial)
        /\ \A x \in Claims, q \in Paths : Has(c, x, q) => x = tr[c].claim
    BY <1>1, <1>p, Zenon DEF Has
  <2> QED
    BY <1>0, <1>1, <1>t, <2>1, ReturnType, StepReleased, Zenon
<1>2. CASE /\ Holds(c) /\ paths' = paths /\ tr' = tr /\ live' = live \cup {tr[c].claim}
           /\ loc'[c].claim = None /\ loc'[c].prev = None /\ loc'[c].partial = Shared
           /\ pc'[c] \notin InitPCs /\ \A p \in Paths : dir'[p] # None => dir[p] # None
  <2>1. \A k \in Claims, p \in Paths : Has(c, k, p)' <=> Has(c, k, p)
    BY <1>2, <1>p, Zenon DEF Has
  <2>2. \A s \in Suffixes : Uses(c, s)' => Uses(c, s)
    BY <1>2, <1>t DEF Uses
  <2>3. \A k \in live' : \/ k \in live
                         \/ \E p \in Paths : Has(c, k, p) /\ paths[p] = k
    BY <1>2, <1>t DEF Has, Holds, StillHolds
  <2>4. live \subseteq live'
    BY <1>2
  <2> QED
    BY <1>0, <1>2, <2>1, <2>2, <2>3, <2>4, StepKept, Zenon
<1>3. CASE Discard(c)
  BY <1>1, <1>3 DEF Discard, TypeOK
<1>4. CASE CommitFails(c)
  BY <1>0, <1>1, <1>4, Zenon DEF CommitFails, TypeOK, HandlerOf
<1>5. CASE DoneRefused(c) \/ DoneVerify(c) \/ VerifyMatch(c)
  <2>1. /\ Holds(c) /\ live' = live \cup {tr[c].claim} /\ UNCHANGED <<paths, dir, tr, loc>>
        /\ pc'[c] \in {"idle", "verify", "rename"}
    BY <1>5, Zenon DEF DoneRefused, DoneVerify, VerifyMatch, Refresh, TypeOK
  <2> QED
    BY <1>2, <1>p, <2>1, Zenon DEF InitPCs
<1>6. CASE VerifyFails(c)
  <2>1. /\ Holds(c) /\ live' = live \cup {tr[c].claim} /\ UNCHANGED <<paths, dir, tr>>
        /\ pc'[c] = "idle" /\ loc'[c] = NoLocal
    BY <1>6, ReturnType DEF VerifyFails, Refresh
  <2> QED
    BY <1>2, <1>t, <2>1, Zenon DEF InitPCs
<1>7. CASE VerifyRead(c)
  <2>1. /\ Holds(c) /\ live' = live \cup {tr[c].claim} /\ UNCHANGED <<paths, dir, tr, pc>>
        /\ pc[c] = "verify"
    BY <1>7 DEF VerifyRead, Refresh
  <2>2. /\ loc'[c].claim = loc[c].claim /\ loc'[c].prev = loc[c].prev
        /\ loc'[c].partial = loc[c].partial
    <3>1. \E n, b : loc' = [loc EXCEPT ![c].pos = n, ![c].match = b]
      BY <1>7, Zenon DEF VerifyRead
    <3> QED
      BY <3>1 DEF TypeOK, Local
  <2> QED
    BY <1>2, <1>p, <2>1, <2>2, Zenon DEF InitPCs
<1>8. CASE Rename(c)
  <2>1. /\ Holds(c) /\ live' = live \cup {tr[c].claim} /\ UNCHANGED <<paths, tr>>
        /\ pc'[c] = "commit" /\ \A p \in Paths : dir'[p] # None => dir[p] # None
    BY <1>8, <1>t DEF Rename, Refresh, TypeOK
  <2>2. /\ loc'[c].claim = loc[c].claim /\ loc'[c].prev = loc[c].prev
        /\ loc'[c].partial = loc[c].partial
    <3>1. \E i : loc' = [loc EXCEPT ![c].file = i]
      BY <1>8, Zenon DEF Rename
    <3> QED
      BY <3>1 DEF TypeOK, Local
  <2> QED
    BY <1>2, <1>p, <2>1, <2>2, Zenon DEF InitPCs
<1> QED
  BY <1>3, <1>4, <1>5, <1>6, <1>7, <1>8, Zenon
  DEF HandleDone, Superseded, VerifyMismatch, RenameFails, Commit, Abort, Close

(***************************************************************************)
(* The claim table's invariant is inductive.                               *)
(***************************************************************************)
LEMMA ClaimStep ==
    ASSUME ClaimInv, [Next]_vars
    PROVE  ClaimInv'
<1> USE NoneAssumption
<1>0. TypeOK /\ HandlerOK /\ Table /\ Claimed
  BY DEF ClaimInv, Table, Claimed
<1>t. TypeOK' /\ HandlerOK'
  BY <1>0, TypeStep
<1> SUFFICES Table'
  BY <1>t DEF ClaimInv, Table, Claimed
<1>1. ASSUME NEW c \in Conns, HandleInit(c) \/ HandleChunk(c) \/ HandleDone(c)
                              \/ Abort(c) \/ Close(c)
      PROVE  Table'
  BY <1>0, <1>1, InitStepTable, ChunkStepTable, DoneStepTable
<1>2. ASSUME NEW k \in Claims, GoesQuiet(k) PROVE Table'
  <2>1. /\ live' = live \ {k} /\ UNCHANGED <<paths, dir, data, final, tr, pc, loc>>
        /\ \A c \in Conns : pc[c] \in InitPCs => loc[c].claim # k
    BY <1>2 DEF GoesQuiet
  <2>2. \A c \in Conns, x \in Claims, p \in Paths : Has(c, x, p)' <=> Has(c, x, p)
    BY <2>1 DEF Has
  <2>3. Claimed'
    BY <1>0, <1>t, <2>1, AgingKept
  <2>4. InitHolds'
    BY <1>0, <2>1 DEF Table, InitHolds, InitPCs
  <2>5. PrivateUnshared'
    BY <1>0, <2>1 DEF Table, PrivateUnshared, Uses
  <2> QED
    BY <2>3, <2>4, <2>5 DEF Table
<1>3. CASE Crash
  <2>1. /\ \A p \in Paths : paths'[p] = None
        /\ live' = {}
        /\ \A c \in Conns : tr'[c] = None /\ pc'[c] = "idle" /\ loc'[c] = NoLocal
        /\ NoLocal.claim = None /\ NoLocal.prev = None /\ NoLocal.partial = Shared
    BY <1>3 DEF Crash, NoLocal
  <2>2. \A c \in Conns, x \in Claims, p \in Paths : ~Has(c, x, p)'
    BY <2>1 DEF Has
  <2>3. ClaimsOwned'
    BY <2>1, <2>2 DEF ClaimsOwned
  <2>4. PrevQuiet' /\ LiveClaimOwned' /\ InitHolds'
    BY <2>1, Zenon DEF PrevQuiet, LiveClaimOwned, PartialHeld, InitHolds
  <2>5. PrivateUnshared'
    BY <2>1, Zenon DEF PrivateUnshared, Uses
  <2> QED
    BY <2>3, <2>4, <2>5 DEF Table, Claimed
<1>4. CASE UNCHANGED vars
  <2>1. UNCHANGED <<paths, live, dir, tr, pc, loc>>
    BY <1>4 DEF vars
  <2>2. Claimed'
    BY <1>0, <1>t, <2>1, AgingKept
  <2>3. InitHolds' /\ PrivateUnshared'
    BY <1>0, <2>1 DEF Table, InitHolds, PrivateUnshared, Uses
  <2> QED
    BY <2>2, <2>3 DEF Table
<1> QED
  BY <1>1, <1>2, <1>3, <1>4 DEF Next

LEMMA ClaimInit ==
    ASSUME Init
    PROVE  ClaimInv
<1> USE NoneAssumption
<1>1. /\ \A p \in Paths : paths[p] = None
      /\ \A c \in Conns : tr[c] = None /\ pc[c] = "idle" /\ loc[c] = NoLocal
      /\ NoLocal.claim = None /\ NoLocal.prev = None /\ NoLocal.partial = Shared
  BY DEF Init, NoLocal
<1>2. \A c \in Conns, x \in Claims, p \in Paths : ~Has(c, x, p)
  BY <1>1 DEF Has
<1>3. ClaimsOwned
  BY <1>1, <1>2, Zenon DEF ClaimsOwned
<1>4. PrevQuiet /\ LiveClaimOwned /\ InitHolds
  BY <1>1, Zenon DEF PrevQuiet, LiveClaimOwned, PartialHeld, InitHolds
<1>5. PrivateUnshared
  BY <1>1 DEF PrivateUnshared, Uses
<1> QED
  BY <1>3, <1>4, <1>5, TypeInit DEF ClaimInv

(***************************************************************************)
(* activePartials stays consistent through claimPartial, unclaimPartial and *)
(* release: one owner and one path to a claim, and a claim that was taken  *)
(* over is quiet and no longer in the table.                               *)
(***************************************************************************)
THEOREM ClaimsCorrect == Spec => []ClaimInv
<1>1. ClaimInv /\ [Next]_vars => ClaimInv'
  BY ClaimStep
<1> QED
  BY <1>1, ClaimInit, PTL DEF Spec

(***************************************************************************)
(* No path is blocked for ever: a live claim in activePartials.paths is    *)
(* always one that a transfer or a handler will release.                   *)
(***************************************************************************)
THEOREM NoLeakedClaim == Spec => []LiveClaimOwned
<1>1. ClaimInv => LiveClaimOwned
  BY DEF ClaimInv
<1> QED
  BY <1>1, ClaimsCorrect, PTL

(***************************************************************************)
(* How a step changes the table: a path changes hands only if its claim is *)
(* quiet, or its owner gives it up.                                        *)
(***************************************************************************)
LEMMA PathChanges ==
    ASSUME ClaimInv, [Next]_vars, NEW p \in Paths, paths'[p] # paths[p]
    PROVE  \/ ~PartialHeld(p)
           \/ \E c \in Conns : Has(c, paths[p], p) /\ tr'[c] = None
<1> USE NoneAssumption
<1>0. TypeOK /\ HandlerOK /\ Table
  BY Zenon DEF ClaimInv, Table, Claimed
<1>1. ASSUME NEW c \in Conns, HandleInit(c)
      PROVE  \/ ~PartialHeld(p)
             \/ \E d \in Conns : Has(d, paths[p], p) /\ tr'[d] = None
  <2>1. CASE ClaimPartial(c)
    <3>1. ~PartialHeld(loc[c].partial)
          /\ \E k : paths' = [paths EXCEPT ![loc[c].partial] = k]
      BY <2>1, Zenon DEF ClaimPartial
    <3> QED
      BY <1>0, <3>1, Zenon DEF TypeOK
  <2>2. CASE InitFails(c)
    <3>1. tr[c] = None /\ tr' = tr
          /\ paths' = Unclaimed(loc[c].partial, loc[c].claim, loc[c].prev)
      BY <2>2, Zenon DEF InitFails
    <3>2. p = loc[c].partial /\ paths[p] = loc[c].claim
      BY <1>0, <3>1, Zenon DEF Unclaimed, TypeOK
    <3> QED
      BY <3>1, <3>2, Zenon DEF Has
  <2> QED
    BY <1>1, <2>1, <2>2, Zenon DEF HandleInit, InitFull, InitAgain, InitNew, InitNotAdmitted,
                            InitLostRace, OpenPartial, InitInstall
<1>2. ASSUME NEW c \in Conns, HandleChunk(c)
      PROVE  \E d \in Conns : Has(d, paths[p], p) /\ tr'[d] = None
  <2>1. AbandonRelease(c)
    BY <1>2 DEF HandleChunk, ChunkWritten, ChunkFails, ChunkBuffered, AbandonRemove
  <2>2. paths' = Unclaimed(loc[c].partial, loc[c].claim, None) /\ tr' = tr /\ tr[c] = None
    BY <1>0, <2>1, Zenon DEF AbandonRelease, Release, HandlerOK, HandlerOf
  <2>3. p = loc[c].partial /\ paths[p] = loc[c].claim
    BY <1>0, <2>2, Zenon DEF Unclaimed, TypeOK
  <2> QED
    BY <2>2, <2>3 DEF Has
<1>3. ASSUME NEW c \in Conns, HandleDone(c) \/ Abort(c) \/ Close(c)
      PROVE  \E d \in Conns : Has(d, paths[p], p) /\ tr'[d] = None
  <2>1. Discard(c) \/ CommitFails(c)
    BY <1>3 DEF HandleDone, Abort, Close, Superseded, DoneRefused, DoneVerify, VerifyRead,
           VerifyFails, VerifyMatch, VerifyMismatch, RenameFails, Rename, Commit
  <2>2. /\ tr[c] # None /\ tr'[c] = None
        /\ paths' = Unclaimed(tr[c].partial, tr[c].claim, None)
    BY <1>0, <2>1, Zenon DEF Discard, CommitFails, Release, HandlerOK, HandlerOf, TypeOK
  <2>3. p = tr[c].partial /\ paths[p] = tr[c].claim
    BY <1>0, <2>2, Zenon DEF Unclaimed, TypeOK
  <2> QED
    BY <2>2, <2>3, Zenon DEF Has
<1>4. CASE Crash
  <2>1. CASE PartialHeld(p)
    <3>1. PICK c \in Conns : \/ tr[c] # None /\ tr[c].claim = paths[p]
                             \/ loc[c].claim = paths[p]
      BY <2>1 DEF ClaimInv, LiveClaimOwned
    <3>2. paths[p] \in Claims
      BY <1>0, <2>1 DEF PartialHeld, TypeOK
    <3>3. \E q \in Paths : Has(c, paths[p], q)
      BY <1>0, <3>1 DEF Has, TypeOK, Local, Transfer
    <3>4. Has(c, paths[p], p)
      BY <3>2, <3>3, Zenon DEF ClaimInv, ClaimsOwned
    <3>5. tr'[c] = None
      BY <1>4 DEF Crash
    <3> QED
      BY <3>4, <3>5
  <2> QED
    BY <2>1
<1> QED
  BY <1>1, <1>2, <1>3, <1>4, Zenon DEF Next, GoesQuiet, vars

(***************************************************************************)
(* A transfer that keeps writing keeps its file: while its claim is live,  *)
(* no INIT, release or failure of another connection takes the path.       *)
(***************************************************************************)
THEOREM LiveHolderKeepsPath == Spec => LiveNotTakenOver
<1> DEFINE Kept == \A c \in Conns :
                     Holds(c) /\ Live(tr[c].claim) /\ tr'[c] = tr[c]
                       => paths'[tr[c].partial] = tr[c].claim
<1>1. ASSUME ClaimInv, [Next]_vars PROVE Kept
  <2> SUFFICES ASSUME NEW c \in Conns, Holds(c), Live(tr[c].claim), tr'[c] = tr[c],
                      paths'[tr[c].partial] # tr[c].claim
               PROVE  FALSE
    OBVIOUS
  <2>1. /\ tr[c] # None /\ tr[c].partial \in Paths /\ tr[c].claim \in Claims
        /\ paths[tr[c].partial] = tr[c].claim
    BY <1>1 DEF ClaimInv, TypeOK, Transfer, Holds, StillHolds
  <2>2. PartialHeld(tr[c].partial)
    BY <2>1, NoneAssumption DEF PartialHeld
  <2>3. PICK d \in Conns : Has(d, tr[c].claim, tr[c].partial) /\ tr'[d] = None
    BY <1>1, <2>1, <2>2, PathChanges, Zenon
  <2>4. Has(c, tr[c].claim, tr[c].partial)
    BY <2>1, Zenon DEF Has
  <2>5. d = c
    BY <1>1, <2>1, <2>3, <2>4, Zenon DEF ClaimInv, ClaimsOwned
  <2> QED
    BY <2>1, <2>3, <2>5
<1>2. ClaimInv /\ [Next]_vars => [Kept]_vars
  BY <1>1, Zenon
<1> QED
  BY <1>2, ClaimsCorrect, PTL DEF Spec, LiveNotTakenOver

(***************************************************************************)
(* An INIT that fails after claiming gives the path back to the quiet      *)
(* transfer it took it from.                                               *)
(***************************************************************************)
THEOREM RefusedInitRestores == Spec => RefusalRestoresHolder
<1> DEFINE Restored == \A c, d \in Conns :
             ( /\ pc[c] = "open" /\ pc'[c] = "idle" /\ tr[c] = None
               /\ tr[d] # None /\ tr'[d] = tr[d]
               /\ tr[d].claim = loc[c].prev )
             => paths'[tr[d].partial] = tr[d].claim
<1>1. ASSUME ClaimInv, [Next]_vars PROVE Restored
  <2> SUFFICES ASSUME NEW c \in Conns, NEW d \in Conns,
                      pc[c] = "open", pc'[c] = "idle", tr[c] = None, tr[d] # None,
                      tr'[d] = tr[d], tr[d].claim = loc[c].prev
               PROVE  paths'[tr[d].partial] = tr[d].claim
    OBVIOUS
  <2>0. TypeOK /\ HandlerOK
    BY <1>1 DEF ClaimInv
  <2>1. InitFails(c)
    <3>1. ~Crash /\ ~UNCHANGED vars
      BY DEF Crash, vars
    <3>2. ASSUME NEW k \in Claims PROVE ~GoesQuiet(k)
      BY DEF GoesQuiet
    <3>3. PICK e \in Conns : HandleInit(e) \/ HandleChunk(e) \/ HandleDone(e)
                             \/ Abort(e) \/ Close(e)
      BY <1>1, <3>1, <3>2 DEF Next
    <3>4. e = c
      <4>1. Frame(e)
        BY <2>0, <3>3, InitStepType, ChunkStepType, DoneStepType
      <4> QED
        BY <4>1 DEF Frame
    <3> QED
      BY <2>0, <3>3, <3>4, Zenon
      DEF HandleInit, HandleChunk, HandleDone, Abort, Close, InitFull, InitAgain, InitNew,
          InitNotAdmitted, InitLostRace, ClaimPartial, OpenPartial, InitInstall, ChunkWritten,
          ChunkFails, ChunkBuffered, AbandonRemove, AbandonRelease, Superseded, DoneRefused,
          DoneVerify, VerifyRead, VerifyFails, VerifyMatch, VerifyMismatch, RenameFails,
          Rename, Commit, CommitFails, TypeOK
  <2>2. paths' = Unclaimed(loc[c].partial, loc[c].claim, loc[c].prev)
    BY <2>1 DEF InitFails
  <2>3. loc[c].partial \in Paths /\ tr[d].partial \in Paths /\ tr[d].claim \in Claims
    BY <2>0, Zenon DEF TypeOK, Local, Transfer
  <2>4. paths[loc[c].partial] = loc[c].claim
    BY <1>1, Zenon DEF ClaimInv, InitHolds
  <2>5. Has(d, loc[c].prev, tr[d].partial) /\ loc[c].prev # None
    BY <2>3, NoneAssumption DEF Has
  <2>6. tr[d].partial = Shared /\ loc[c].partial = Shared
    BY <1>1, <2>3, <2>5, Zenon DEF ClaimInv, PrevQuiet
  <2> QED
    BY <2>0, <2>2, <2>3, <2>4, <2>6 DEF Unclaimed, TypeOK
<1>2. ClaimInv /\ [Next]_vars => [Restored]_vars
  BY <1>1, Zenon
<1> QED
  BY <1>2, ClaimsCorrect, PTL DEF Spec, RefusalRestoresHolder
=============================================================================
