--------------------------- MODULE ReceivedQuota ---------------------------
(***************************************************************************)
(* The space that received files take: the quota and disk-space checks of  *)
(* admit and writeAt (filestream.go) for streams, and of                   *)
(* prepareReceivedFile (service.go) for whole files sent as TypeFile.      *)
(*                                                                         *)
(* Streams of different contents, each with a .partial of its own, and     *)
(* TypeFile frames arrive on different connections; who may use a .partial *)
(* is StreamReceiver's subject.  Space is checked once, at the start, from *)
(* a walk over the directory; then files grow block by block with nothing  *)
(* held.  The walk is one step here.  Other programs use the disk too.     *)
(***************************************************************************)
EXTENDS Integers, FiniteSets, FiniteSetsExt, Functions

CONSTANTS
    Streams,    \* the contents sent as streams
    Saves,      \* connections that receive TypeFile frames
    Sizes,      \* sizes of what is sent
    Quota,      \* effectiveReceivedMaxBytes; 0: no quota
    Disk,       \* the size of the disk
    Reserve,    \* diskReserveBytes
    Wrap,       \* 2^64: where unsigned arithmetic wraps around
    MaxFails,   \* bound: failed writes of a transfer
    None        \* nil

ASSUME QuotaAssumption ==
    /\ Sizes \subseteq Nat \ {0} /\ Sizes # {}
    /\ {Quota, Disk, Reserve, MaxFails, Wrap} \subseteq Nat
    /\ \A n \in Sizes \cup {Quota, Disk, Reserve} : n < Wrap
    /\ IsFiniteSet(Sizes) /\ IsFiniteSet(Streams) /\ IsFiniteSet(Saves)
    /\ Streams \cap Saves = {} /\ Streams \cup Saves # {}

VARIABLES
    part,     \* the length of each stream's .partial
    tr,       \* each stream's transfer, or None: "admitted" or "active", its
              \* size, cursor, budget (-1: none) and failed writes
    sv,       \* each TypeFile save in progress, or None: its size, and how
              \* much is written
    final,    \* bytes of the finished files
    other,    \* bytes that others use on the disk
    overlap   \* history: a check was made while another write was under way,
              \* or others took space since; until all is quiet again

vars == <<part, tr, sv, final, other, overlap>>

Transfers == [at : {"admitted", "active"}, size : Sizes, cursor : Nat,
              failed : Nat, budget : Int]
Written == [size : Sizes, written : Nat]

ASSUME NoneAssumption == None \notin Transfers \cup Written

Init ==
    /\ part = [t \in Streams |-> 0]
    /\ tr = [t \in Streams |-> None]
    /\ sv = [s \in Saves |-> None]
    /\ final = 0 /\ other = 0
    /\ overlap = FALSE

-----------------------------------------------------------------------------
Saving == {s \in Saves : sv[s] # None}

\* dirSizeExcluding: finished files, the .partial files but the ones in own,
\* and files being written.
DirSize(own) ==
    final + SumFunction([t \in Streams \ own |-> part[t]])
          + SumFunction([s \in Saving |-> sv[s].written])

\* dirTotalBytes
DirTotal == DirSize({})

\* freeDiskBytes
Free == Disk - other - DirTotal

\* Whether anything but t is being received.
Busy(t) == (\E u \in Streams \ {t} : tr[u] # None) \/ Saving \ {t} # {}

\* resumeOffset
ResumeOffset(len, size) == IF len <= size THEN len ELSE 0

\* Mutant of Budget: what .partial files hold is not counted.
BudgetFinal(t) ==
    LET left == Quota - final IN IF left < 0 THEN 0 ELSE left

Budget(t) ==
    LET left == Quota - DirSize({t}) IN IF left < 0 THEN 0 ELSE left

\* The difference of two uint64 values.
Unsigned(n) == IF n < 0 THEN n + Wrap ELSE n

\* Mutant of FitsDisk: only the second comparison, whose difference wraps.
FitsDiskBare(t, n) == Unsigned(Free - (n - ResumeOffset(part[t], n))) >= Reserve

\* The disk gate of admit: not need > free, and not free-need < reserve.
FitsDisk(t, n) ==
    LET need == n - ResumeOffset(part[t], n) IN
      need <= Free /\ Unsigned(Free - need) >= Reserve

\* Mutant of Admit: the declared size is not compared with the budget.
AdmitAny(t) ==
    /\ tr[t] # None => tr[t].at = "active"
    /\ \E n \in Sizes :
         /\ FitsDisk(t, n)
         /\ tr' = [tr EXCEPT ![t] =
                     [at |-> "admitted", size |-> n, cursor |-> 0, failed |-> 0,
                      budget |-> IF Quota > 0 THEN Budget(t) ELSE -1]]
    /\ overlap' = Busy(t)
    /\ UNCHANGED <<part, sv, final, other>>

\* admit accepts an INIT, or an INIT that repeats one, of a declared size.
Admit(t) ==
    /\ tr[t] # None => tr[t].at = "active"
    /\ \E n \in Sizes :
         /\ Quota > 0 => n <= Budget(t)
         /\ FitsDisk(t, n)
         /\ tr' = [tr EXCEPT ![t] =
                     [at |-> "admitted", size |-> n, cursor |-> 0, failed |-> 0,
                      budget |-> IF Quota > 0 THEN Budget(t) ELSE -1]]
    /\ overlap' = Busy(t)
    /\ UNCHANGED <<part, sv, final, other>>

\* handleInit opens the .partial and truncates what cannot be resumed.  A Stat
\* that fails means starting over; a Truncate that fails is ignored.
Install(t) ==
    /\ tr[t] # None /\ tr[t].at = "admitted"
    /\ \E resume \in {ResumeOffset(part[t], tr[t].size), 0} :
         /\ tr' = [tr EXCEPT ![t].at = "active", ![t].cursor = resume]
         /\ part' \in {part} \cup (IF resume = 0 THEN {[part EXCEPT ![t] = 0]} ELSE {})
    /\ UNCHANGED <<sv, final, other, overlap>>

Active(t) == tr[t] # None /\ tr[t].at = "active"

\* writeAt's check of the budget, before the write.
WithinBudget(t) == tr[t].budget >= 0 => tr[t].budget >= 1

Debited(t) == IF tr[t].budget >= 0 THEN tr[t].budget - 1 ELSE -1

\* The .partial files with the next block of t.
Grown(t) == [part EXCEPT ![t] = IF tr[t].cursor < part[t] THEN part[t]
                                ELSE tr[t].cursor + 1]

\* A CHUNK at the cursor is written.
Write(t) ==
    /\ Active(t) /\ tr[t].cursor < tr[t].size
    /\ WithinBudget(t)
    /\ Free > 0 \/ tr[t].cursor < part[t]
    /\ tr' = [tr EXCEPT ![t].cursor = tr[t].cursor + 1, ![t].budget = Debited(t)]
    /\ part' = Grown(t)
    /\ UNCHANGED <<sv, final, other, overlap>>

\* The write fails after the budget was debited, with the block on disk or
\* not; the transfer stays.
WriteFails(t) ==
    /\ Active(t) /\ tr[t].cursor < tr[t].size
    /\ WithinBudget(t) /\ tr[t].failed < MaxFails
    /\ tr' = [tr EXCEPT ![t].budget = Debited(t), ![t].failed = tr[t].failed + 1]
    /\ part' \in {part} \cup (IF Free > 0 THEN {Grown(t)} ELSE {})
    /\ UNCHANGED <<sv, final, other, overlap>>

\* The disk is full: abandonIfDiskFull deletes the .partial, if it can.
Abandon(t) ==
    /\ Active(t) /\ tr[t].cursor < tr[t].size
    /\ WithinBudget(t)
    /\ Free <= 0 /\ tr[t].cursor >= part[t]
    /\ tr' = [tr EXCEPT ![t] = None]
    /\ part' \in {part, [part EXCEPT ![t] = 0]}
    /\ UNCHANGED <<sv, final, other, overlap>>

\* handleDone: the .partial becomes a finished file.
Done(t) ==
    /\ Active(t) /\ tr[t].cursor = tr[t].size
    /\ final' = final + part[t]
    /\ part' = [part EXCEPT ![t] = 0]
    /\ tr' = [tr EXCEPT ![t] = None]
    /\ UNCHANGED <<sv, other, overlap>>

\* The transfer ends in any other way; the .partial stays.
Drop(t) ==
    /\ tr[t] # None
    /\ tr' = [tr EXCEPT ![t] = None]
    /\ UNCHANGED <<part, sv, final, other, overlap>>

-----------------------------------------------------------------------------
(* prepareReceivedFile *)

\* Mutant of SaveAdmit: only streams are held to the quota.
SaveAdmitAny(s) ==
    /\ sv[s] = None
    /\ \E n \in Sizes : sv' = [sv EXCEPT ![s] = [size |-> n, written |-> 0]]
    /\ overlap' = Busy(s)
    /\ UNCHANGED <<part, tr, final, other>>

SaveAdmit(s) ==
    /\ sv[s] = None
    /\ \E n \in Sizes :
         /\ Quota > 0 => DirTotal + n <= Quota
         /\ sv' = [sv EXCEPT ![s] = [size |-> n, written |-> 0]]
    /\ overlap' = Busy(s)
    /\ UNCHANGED <<part, tr, final, other>>

\* os.WriteFile grows the file ...
SaveWrite(s) ==
    /\ sv[s] # None /\ sv[s].written < sv[s].size /\ Free > 0
    /\ sv' = [sv EXCEPT ![s].written = sv[s].written + 1]
    /\ UNCHANGED <<part, tr, final, other, overlap>>

\* ... until it is complete,
SaveDone(s) ==
    /\ sv[s] # None /\ sv[s].written = sv[s].size
    /\ final' = final + sv[s].size
    /\ sv' = [sv EXCEPT ![s] = None]
    /\ UNCHANGED <<part, tr, other, overlap>>

\* or fails, and what was written is removed, if it can be.
SaveFails(s) ==
    /\ sv[s] # None
    /\ final' \in {final, final + sv[s].written}
    /\ sv' = [sv EXCEPT ![s] = None]
    /\ UNCHANGED <<part, tr, other, overlap>>

-----------------------------------------------------------------------------
\* A finished file is deleted by its owner.
Remove ==
    /\ final > 0
    /\ \E n \in Sizes : n <= final /\ final' = final - n
    /\ UNCHANGED <<part, tr, sv, other, overlap>>

\* Other programs take disk space, or free it.
OtherUse ==
    /\ other' \in {other - 1, other + 1} \cap 0 .. Disk - DirTotal
    /\ overlap' = (overlap \/ other' > other)
    /\ UNCHANGED <<part, tr, sv, final>>

Stream(t) == Admit(t) \/ Install(t) \/ Write(t) \/ WriteFails(t) \/ Abandon(t)
             \/ Done(t) \/ Drop(t)

SaveFile(s) == SaveAdmit(s) \/ SaveWrite(s) \/ SaveDone(s) \/ SaveFails(s)

Next ==
    \/ \E t \in Streams : Stream(t)
    \/ \E s \in Saves : SaveFile(s)
    \/ Remove
    \/ OtherUse

Spec == Init /\ [][Next]_vars

-----------------------------------------------------------------------------
\* A file that is received while nothing else is never takes the directory
\* above the quota, retained .partial files and resumed bytes included.
QuotaWhenAlone ==
    [][ Quota > 0 /\ ~overlap' /\ DirTotal' > DirTotal
          => DirTotal' <= Quota ]_vars

\* Received together, files exceed the quota by less than what the others
\* may be: the excess does not build up, however often transfers fail and
\* resume.
OvershootBounded ==
    Quota > 0 =>
      DirTotal <= Quota + (Cardinality(Streams \cup Saves) - 1) * Max(Sizes)

\* An admitted transfer is not refused for the quota half way: its budget
\* covers what is left of it, but for the bytes of writes that failed.
BudgetSuffices ==
    \A t \in Streams : Active(t) /\ tr[t].budget >= 0 =>
      tr[t].size - tr[t].cursor <= tr[t].budget + tr[t].failed

\* A transfer that was let in alone is not stopped by a full disk, and
\* leaves the reserve untouched ("Refuse now what cannot fit, instead of
\* failing mid-transfer", admit).
ReserveKept ==
    ~overlap => \A t \in Streams : tr[t] # None =>
      Free - (tr[t].size - ResumeOffset(part[t], tr[t].size)) >= Reserve

\* "ReceivedMaxBytes caps the total on-disk bytes used by the received-files
\* directory ... Enforced before every write" (ServiceConfig).
QuotaRespected == Quota > 0 => DirTotal <= Quota
=============================================================================
