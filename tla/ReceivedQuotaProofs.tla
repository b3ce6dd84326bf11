------------------------ MODULE ReceivedQuotaProofs ------------------------
(***************************************************************************)
(* Proofs about ReceivedQuota: the budget of an admitted transfer, the     *)
(* quota for files received one at a time and together, and the reserve of *)
(* the disk.                                                               *)
(***************************************************************************)
EXTENDS ReceivedQuota, SumProofs

TypeOK ==
    /\ part \in [Streams -> Nat]
    /\ tr \in [Streams -> Transfers \cup {None}]
    /\ sv \in [Saves -> Written \cup {None}]
    /\ final \in Nat /\ other \in Nat /\ overlap \in BOOLEAN

\* A transfer writes its .partial from where it resumes to the size that was
\* declared, within its budget; no .partial is longer than what may be sent.
\* It may be ahead of the cursor: a Truncate may fail, or a write that left
\* its block.
TransfersOK ==
    /\ \A t \in Streams : part[t] <= Max(Sizes)
    /\ \A t \in Streams : tr[t] # None =>
         /\ tr[t].at = "admitted" => tr[t].cursor = 0
         /\ tr[t].at = "active" => tr[t].cursor <= part[t] /\ tr[t].cursor <= tr[t].size
         /\ tr[t].budget >= 0 => tr[t].size - tr[t].cursor <= tr[t].budget + tr[t].failed
    /\ \A s \in Saves : sv[s] # None => sv[s].written <= sv[s].size

\* What was let in alone is alone, and there is room for all of it.
AloneOK ==
    ~overlap =>
      /\ \A t \in Streams : tr[t] # None =>
           /\ ~Busy(t)
           /\ Quota > 0 => DirSize({t}) + tr[t].size <= Quota
           /\ Free - (tr[t].size - ResumeOffset(part[t], tr[t].size)) >= Reserve
      /\ \A s \in Saves : sv[s] # None =>
           /\ ~Busy(s)
           /\ Quota > 0 => DirTotal + sv[s].size - sv[s].written <= Quota

\* The lengths that .partial files and saves may reach without another check.
Reach(p, x) ==
    [t \in Streams |-> IF x[t] = None THEN p[t]
                       ELSE IF x[t].size <= p[t] THEN p[t] ELSE x[t].size]
Whole(v) == [s \in Saves |-> IF v[s] = None THEN 0 ELSE v[s].size]

Potential(f, p, x, v) ==
    f + SumFunctionOnSet(Reach(p, x), Streams) + SumFunctionOnSet(Whole(v), Saves)

\* The bound holds for what the directory may become, not only for what it is.
OvershootOK ==
    Quota > 0 =>
      Potential(final, part, tr, sv) <=
        Quota + (Cardinality(Streams \cup Saves) - 1) * Max(Sizes)

QuotaInv == TypeOK /\ TransfersOK /\ AloneOK /\ OvershootOK

-----------------------------------------------------------------------------
(* The size of the directory as a function of the state *)

\* The bytes of the files being saved.
Saved(v) == [s \in Saves |-> IF v[s] = None THEN 0 ELSE v[s].written]

Rest(p, own) == SumFunctionOnSet(p, Streams \ own)
SavedSum(v) == SumFunctionOnSet(Saved(v), Saves)

LEMMA Sums ==
    ASSUME NEW p \in [Streams -> Nat], NEW v \in [Saves -> Written \cup {None}], NEW own
    PROVE  /\ SumFunction([t \in Streams \ own |-> p[t]]) = Rest(p, own)
           /\ SumFunction([s \in {s \in Saves : v[s] # None} |-> v[s].written]) = SavedSum(v)
           /\ Rest(p, own) \in Nat /\ SavedSum(v) \in Nat
<1> USE QuotaAssumption
<1>1. IsFiniteSet(Streams \ own) /\ IntsOn(p, Streams \ own) /\ NatsOn(p, Streams \ own)
  BY FS_Subset DEF IntsOn, NatsOn
<1>2. SumFunction([t \in Streams \ own |-> p[t]]) = Rest(p, own)
  BY <1>1, SumOver DEF Rest
<1> DEFINE T == {s \in Saves : v[s] # None}
           f == Saved(v)
<1>3. \A s \in Saves : v[s] # None => v[s].written \in Nat
  BY DEF Written
<1>4. \A s \in Saves : f[s] = IF v[s] = None THEN 0 ELSE v[s].written
  BY DEF Saved
<1>5. IsFiniteSet(T) /\ T \in SUBSET Saves
  BY FS_Subset
<1>6. /\ \A s \in Saves : f[s] \in Nat
      /\ \A s \in T : f[s] = v[s].written
      /\ \A s \in Saves \ T : f[s] = 0
  BY <1>3, <1>4
<1> HIDE DEF f, T
<1>7. IntsOn(f, Saves) /\ NatsOn(f, Saves) /\ IntsOn(f, T)
  BY <1>5, <1>6 DEF IntsOn, NatsOn
<1>8. SumFunction([s \in T |-> v[s].written]) = SumFunctionOnSet(f, T)
  BY <1>5, <1>6, <1>7, SumOver
<1>9. SumFunctionOnSet(f, Saves) = SumFunctionOnSet(f, T)
  BY <1>5, <1>6, <1>7, SumZeros
<1>10. Rest(p, own) \in Nat /\ SavedSum(v) \in Nat
  BY <1>1, <1>7, SumNat DEF Rest, SavedSum, f
<1> QED BY <1>2, <1>8, <1>9, <1>10 DEF SavedSum, f, T

LEMMA RestOwn ==
    ASSUME NEW p \in [Streams -> Nat], NEW t \in Streams
    PROVE  Rest(p, {}) = p[t] + Rest(p, {t})
<1>1. Streams \ {} = Streams /\ IsFiniteSet(Streams) /\ IntsOn(p, Streams)
  BY QuotaAssumption DEF IntsOn
<1>2. SumFunctionOnSet(p, Streams) = p[t] + SumFunctionOnSet(p, Streams \ {t})
  BY <1>1, SumRemove
<1> QED BY <1>1, <1>2 DEF Rest

LEMMA Size ==
    ASSUME TypeOK, NEW own
    PROVE  /\ DirSize(own) = final + Rest(part, own) + SavedSum(sv)
           /\ Rest(part, own) \in Nat /\ SavedSum(sv) \in Nat /\ DirSize(own) \in Nat
<1>1. part \in [Streams -> Nat] /\ sv \in [Saves -> Written \cup {None}] /\ final \in Nat
  BY DEF TypeOK
<1>2. DirSize(own) = final + Rest(part, own) + SavedSum(sv)
  BY <1>1, Sums, Zenon DEF DirSize, Saving
<1>3. Rest(part, own) \in Nat /\ SavedSum(sv) \in Nat
  BY <1>1, Sums, Zenon
<1> QED BY <1>1, <1>2, <1>3

LEMMA SizeNext ==
    ASSUME TypeOK', NEW own
    PROVE  DirSize(own)' = final' + Rest(part', own) + SavedSum(sv')
<1>1. part' \in [Streams -> Nat] /\ sv' \in [Saves -> Written \cup {None}]
  BY DEF TypeOK
<1> QED BY <1>1, Sums, Zenon DEF DirSize, Saving

LEMMA RestChange ==
    ASSUME NEW p \in [Streams -> Nat], NEW q \in [Streams -> Nat], NEW t \in Streams,
           \A u \in Streams \ {t} : q[u] = p[u]
    PROVE  /\ Rest(q, {}) = Rest(p, {}) - p[t] + q[t]
           /\ Rest(q, {t}) = Rest(p, {t})
<1>1. /\ Streams \ {} = Streams /\ IsFiniteSet(Streams) /\ IsFiniteSet(Streams \ {t})
      /\ IntsOn(p, Streams) /\ IntsOn(p, Streams \ {t})
  BY QuotaAssumption, FS_RemoveElement DEF IntsOn
<1>2. SumFunctionOnSet(q, Streams) = SumFunctionOnSet(p, Streams) - p[t] + q[t]
  BY <1>1, SumChange
<1>3. SumFunctionOnSet(q, Streams \ {t}) = SumFunctionOnSet(p, Streams \ {t})
  BY <1>1, SumSame
<1> QED BY <1>1, <1>2, <1>3 DEF Rest

LEMMA SavedType ==
    ASSUME NEW v \in [Saves -> Written \cup {None}]
    PROVE  /\ Saved(v) \in [Saves -> Nat] /\ Whole(v) \in [Saves -> Nat]
           /\ \A s \in Saves :
                /\ v[s] = None => Saved(v)[s] = 0 /\ Whole(v)[s] = 0
                /\ v[s] # None => /\ Saved(v)[s] = v[s].written /\ Whole(v)[s] = v[s].size
                                  /\ v[s].size \in Sizes /\ v[s].written \in Nat
<1>1. \A s \in Saves : v[s] # None => v[s].written \in Nat /\ v[s].size \in Sizes
  BY DEF Written
<1>2. Sizes \subseteq Nat
  BY QuotaAssumption
<1> QED BY <1>1, <1>2, Zenon DEF Saved, Whole

LEMMA SavedChange ==
    ASSUME NEW v \in [Saves -> Written \cup {None}], NEW w \in [Saves -> Written \cup {None}],
           NEW s \in Saves, \A u \in Saves \ {s} : w[u] = v[u]
    PROVE  /\ SavedSum(w) = SavedSum(v) - Saved(v)[s] + Saved(w)[s]
           /\ SumFunctionOnSet(Whole(w), Saves) =
                SumFunctionOnSet(Whole(v), Saves) - Whole(v)[s] + Whole(w)[s]
           /\ SavedSum(v) \in Nat /\ SumFunctionOnSet(Whole(v), Saves) \in Nat
<1>1. /\ Saved(v) \in [Saves -> Nat] /\ Saved(w) \in [Saves -> Nat]
      /\ Whole(v) \in [Saves -> Nat] /\ Whole(w) \in [Saves -> Nat] /\ IsFiniteSet(Saves)
  BY SavedType, QuotaAssumption
<1>2. \A u \in Saves \ {s} : Saved(w)[u] = Saved(v)[u] /\ Whole(w)[u] = Whole(v)[u]
  BY DEF Saved, Whole
<1>3. /\ IntsOn(Saved(v), Saves) /\ IntsOn(Whole(v), Saves) /\ Saved(w)[s] \in Int
      /\ Whole(w)[s] \in Int /\ NatsOn(Saved(v), Saves) /\ NatsOn(Whole(v), Saves)
  BY <1>1 DEF IntsOn, NatsOn
<1>4. SavedSum(w) = SavedSum(v) - Saved(v)[s] + Saved(w)[s]
  BY <1>1, <1>2, <1>3, SumChange DEF SavedSum
<1>5. SumFunctionOnSet(Whole(w), Saves) =
        SumFunctionOnSet(Whole(v), Saves) - Whole(v)[s] + Whole(w)[s]
  BY <1>1, <1>2, <1>3, SumChange
<1>6. SavedSum(v) \in Nat /\ SumFunctionOnSet(Whole(v), Saves) \in Nat
  BY <1>1, <1>3, SumNat DEF SavedSum
<1> QED BY <1>4, <1>5, <1>6

LEMMA ReachType ==
    ASSUME NEW p \in [Streams -> Nat], NEW x \in [Streams -> Transfers \cup {None}]
    PROVE  /\ Reach(p, x) \in [Streams -> Nat]
           /\ \A t \in Streams :
                /\ p[t] <= Reach(p, x)[t]
                /\ x[t] = None => Reach(p, x)[t] = p[t]
                /\ x[t] # None => /\ Reach(p, x)[t] = IF x[t].size <= p[t] THEN p[t] ELSE x[t].size
                                  /\ x[t].size \in Sizes
<1>1. \A t \in Streams : x[t] # None => x[t].size \in Sizes /\ x[t].size \in Nat
  BY QuotaAssumption, Zenon DEF Transfers
<1> QED BY <1>1 DEF Reach

LEMMA ReachChange ==
    ASSUME NEW p \in [Streams -> Nat], NEW x \in [Streams -> Transfers \cup {None}],
           NEW q \in [Streams -> Nat], NEW y \in [Streams -> Transfers \cup {None}],
           NEW t \in Streams, \A u \in Streams \ {t} : q[u] = p[u] /\ y[u] = x[u]
    PROVE  /\ SumFunctionOnSet(Reach(q, y), Streams) =
                SumFunctionOnSet(Reach(p, x), Streams) - Reach(p, x)[t] + Reach(q, y)[t]
           /\ SumFunctionOnSet(Reach(p, x), Streams) \in Nat
<1>1. Reach(p, x) \in [Streams -> Nat] /\ Reach(q, y) \in [Streams -> Nat]
      /\ IsFiniteSet(Streams)
  BY ReachType, QuotaAssumption
<1>2. \A u \in Streams \ {t} : Reach(q, y)[u] = Reach(p, x)[u]
  BY DEF Reach
<1>3. /\ IntsOn(Reach(p, x), Streams) /\ Reach(q, y)[t] \in Int
      /\ NatsOn(Reach(p, x), Streams)
  BY <1>1 DEF IntsOn, NatsOn
<1>4. SumFunctionOnSet(Reach(q, y), Streams) =
        SumFunctionOnSet(Reach(p, x), Streams) - Reach(p, x)[t] + Reach(q, y)[t]
  BY <1>1, <1>2, <1>3, SumChange
<1>5. SumFunctionOnSet(Reach(p, x), Streams) \in Nat
  BY <1>1, <1>3, SumNat
<1> QED BY <1>4, <1>5

LEMMA MaxSize == Max(Sizes) \in Nat /\ \A n \in Sizes : n <= Max(Sizes) /\ n \in Nat /\ n > 0
<1>1. Sizes \in SUBSET Int /\ IsFiniteSet(Sizes) /\ Sizes # {} /\ Sizes \subseteq Nat \ {0}
  BY QuotaAssumption
<1>2. \E x \in Sizes : \A y \in Sizes : x >= y
  BY <1>1, FiniteMax
<1>3. Max(Sizes) \in Sizes /\ \A y \in Sizes : Max(Sizes) >= y
  BY <1>2 DEF Max
<1> DEFINE m == Max(Sizes)
<1>4. m \in Sizes /\ \A y \in Sizes : m >= y
  BY <1>3
<1> HIDE DEF m
<1>5. m \in Nat /\ \A n \in Sizes : n <= m /\ n \in Nat /\ n > 0
  BY <1>1, <1>4
<1> QED BY <1>5 DEF m

-----------------------------------------------------------------------------
(* What the steps do *)

\* A step of stream t leaves it with transfer x, a .partial of n bytes and f
\* bytes in finished files.
StreamStep(t, x, n, f) ==
    /\ x \in Transfers \cup {None} /\ n \in Nat /\ f \in Nat
    /\ tr' = [tr EXCEPT ![t] = x] /\ part' = [part EXCEPT ![t] = n] /\ final' = f
    /\ sv' = sv /\ other' = other

\* The transfer is admitted, ...
Admitted(t, x, n, f) ==
    /\ x # None /\ x.at = "admitted" /\ x.cursor = 0
    /\ x.budget >= 0 => x.size <= x.budget
    /\ Quota > 0 => x.size <= Budget(t)
    /\ FitsDisk(t, x.size)
    /\ n = part[t] /\ f = final /\ overlap' = Busy(t)

\* ... goes on, ...
GoesOn(t, x, n, f) ==
    /\ tr[t] # None /\ x # None /\ x.at = "active" /\ x.size = tr[t].size
    /\ x.cursor <= n /\ x.cursor <= x.size /\ (n <= x.size \/ n <= part[t])
    /\ n + x.size - ResumeOffset(n, x.size) <= part[t] + x.size - ResumeOffset(part[t], x.size)
    /\ x.budget >= 0 => x.size - x.cursor <= x.budget + x.failed
    /\ f = final /\ overlap' = overlap

\* ... or ends.
Ends(t, x, n, f) ==
    /\ tr[t] # None /\ x = None
    /\ n <= part[t] /\ f + n <= final + part[t] /\ overlap' = overlap

LEMMA Budgets ==
    ASSUME TypeOK, NEW t \in Streams
    PROVE  /\ Budget(t) \in Nat /\ DirSize({t}) \in Nat /\ Quota \in Nat
           /\ Budget(t) > 0 => Budget(t) = Quota - DirSize({t})
<1>1. DirSize({t}) \in Nat /\ Quota \in Nat
  BY Size, QuotaAssumption
<1> QED BY <1>1 DEF Budget

LEMMA AdmitStep ==
    ASSUME TypeOK, NEW t \in Streams, Admit(t)
    PROVE  \E x, n, f : StreamStep(t, x, n, f) /\ Admitted(t, x, n, f)
<1>1. PICK k \in Sizes :
        /\ Quota > 0 => k <= Budget(t)
        /\ FitsDisk(t, k)
        /\ tr' = [tr EXCEPT ![t] =
                    [at |-> "admitted", size |-> k, cursor |-> 0, failed |-> 0,
                     budget |-> IF Quota > 0 THEN Budget(t) ELSE -1]]
  BY Zenon DEF Admit
<1> DEFINE b == IF Quota > 0 THEN Budget(t) ELSE -1
           x == [at |-> "admitted", size |-> k, cursor |-> 0, failed |-> 0, budget |-> b]
<1>2. b \in Int /\ (b >= 0 => k <= b)
  <2>1. Budget(t) \in Nat /\ Quota \in Nat
    BY Budgets, Zenon
  <2> QED BY <1>1, <2>1
<1> HIDE DEF b
<1>3. x \in Transfers /\ x.at = "admitted" /\ x.cursor = 0 /\ x.size = k /\ x.budget = b
  <2>1. x.at = "admitted" /\ x.cursor = 0 /\ x.size = k /\ x.budget = b
    OBVIOUS
  <2>2. x \in Transfers
    BY <1>2, Zenon DEF Transfers
  <2> QED BY <2>1, <2>2
<1>4. tr' = [tr EXCEPT ![t] = x]
  BY <1>1 DEF b
<1> HIDE DEF x
<1>5. x # None
  BY <1>3, NoneAssumption
<1>6. /\ overlap' = Busy(t) /\ part' = part /\ sv' = sv /\ final' = final /\ other' = other
      /\ part[t] \in Nat /\ final \in Nat /\ part' = [part EXCEPT ![t] = part[t]]
  BY DEF Admit, TypeOK
<1>7. StreamStep(t, x, part[t], final)
  BY <1>3, <1>4, <1>6, Zenon DEF StreamStep
<1>8. Admitted(t, x, part[t], final)
  BY <1>1, <1>2, <1>3, <1>5, <1>6 DEF Admitted
<1> QED BY <1>7, <1>8

LEMMA InstallStep ==
    ASSUME TypeOK, TransfersOK, NEW t \in Streams, Install(t)
    PROVE  \E x, n, f : StreamStep(t, x, n, f) /\ GoesOn(t, x, n, f)
<1>1. /\ tr[t] \in Transfers /\ tr[t].at = "admitted" /\ tr[t] # None /\ part[t] \in Nat
      /\ final \in Nat /\ part \in [Streams -> Nat]
  BY DEF Install, TypeOK
<1>2. /\ tr[t].size \in Nat /\ tr[t].size > 0 /\ tr[t].cursor = 0 /\ tr[t].budget \in Int
      /\ tr[t].failed \in Nat
      /\ tr[t].budget >= 0 => tr[t].size <= tr[t].budget + tr[t].failed
  <2>1. tr[t].size \in Sizes /\ tr[t].budget \in Int /\ tr[t].failed \in Nat
    BY <1>1 DEF Transfers
  <2>2. tr[t].cursor = 0
        /\ (tr[t].budget >= 0 => tr[t].size - tr[t].cursor <= tr[t].budget + tr[t].failed)
    BY <1>1 DEF TransfersOK
  <2>3. tr[t].size \in Nat /\ tr[t].size > 0
    BY <2>1, MaxSize
  <2> QED BY <2>1, <2>2, <2>3
<1>3. PICK r \in {ResumeOffset(part[t], tr[t].size), 0} :
        /\ tr' = [tr EXCEPT ![t].at = "active", ![t].cursor = r]
        /\ part' \in {part} \cup (IF r = 0 THEN {[part EXCEPT ![t] = 0]} ELSE {})
  BY Zenon DEF Install
<1> DEFINE x == [tr[t] EXCEPT !.at = "active", !.cursor = r]
<1>4. \E n \in {part[t], 0} : part' = [part EXCEPT ![t] = n] /\ (r = 0 \/ n = part[t])
  <2>1. part = [part EXCEPT ![t] = part[t]]
    BY <1>1
  <2>2. CASE part' = part
    BY <2>1, <2>2, Zenon
  <2>3. CASE r = 0 /\ part' = [part EXCEPT ![t] = 0]
    BY <2>3, Zenon
  <2> QED BY <1>3, <2>2, <2>3, Zenon
<1>5. PICK n \in {part[t], 0} : part' = [part EXCEPT ![t] = n] /\ (r = 0 \/ n = part[t])
  BY <1>4
<1>6. /\ r \in Nat /\ n \in Nat /\ r <= n /\ r <= tr[t].size /\ n <= part[t]
      /\ n + tr[t].size - ResumeOffset(n, tr[t].size)
           <= part[t] + tr[t].size - ResumeOffset(part[t], tr[t].size)
  <2>1. r \in Nat /\ r <= part[t] /\ r <= tr[t].size
    BY <1>1, <1>2, <1>3 DEF ResumeOffset
  <2>2. n \in Nat /\ n <= part[t] /\ r <= n
    BY <1>1, <1>5, <2>1
  <2>3. n + tr[t].size - ResumeOffset(n, tr[t].size)
          <= part[t] + tr[t].size - ResumeOffset(part[t], tr[t].size)
    BY <1>1, <1>2, <1>5 DEF ResumeOffset
  <2> QED BY <2>1, <2>2, <2>3
<1>7. tr' = [tr EXCEPT ![t] = x]
  BY <1>3, Zenon
<1>8. /\ x \in Transfers /\ x.at = "active" /\ x.cursor = r /\ x.size = tr[t].size
      /\ x.budget = tr[t].budget /\ x.failed = tr[t].failed
  BY <1>1, <1>6, Zenon DEF Transfers
<1> HIDE DEF x
<1>9. x # None
  BY <1>8, NoneAssumption
<1>10. StreamStep(t, x, n, final)
  BY <1>1, <1>5, <1>6, <1>7, <1>8, Zenon DEF StreamStep, Install
<1>11. x.budget >= 0 => x.size - x.cursor <= x.budget + x.failed
  BY <1>2, <1>6, <1>8
<1>12. GoesOn(t, x, n, final)
  BY <1>1, <1>6, <1>8, <1>9, <1>11 DEF GoesOn, Install
<1> QED BY <1>10, <1>12

\* A transfer that is under way.
LEMMA ActiveFacts ==
    ASSUME TypeOK, TransfersOK, NEW t \in Streams, Active(t)
    PROVE  /\ tr[t] \in Transfers /\ tr[t] # None /\ part[t] \in Nat /\ final \in Nat
           /\ tr[t].at = "active" /\ tr[t].size \in Sizes /\ tr[t].size \in Nat
           /\ tr[t].cursor \in Nat /\ tr[t].cursor <= part[t] /\ tr[t].cursor <= tr[t].size
           /\ tr[t].budget \in Int /\ tr[t].failed \in Nat
           /\ tr[t].budget >= 0 => tr[t].size - tr[t].cursor <= tr[t].budget + tr[t].failed
<1>1. /\ tr[t] \in Transfers /\ tr[t] # None /\ tr[t].at = "active" /\ part[t] \in Nat
      /\ final \in Nat
  BY DEF Active, TypeOK
<1>2. /\ tr[t].size \in Sizes /\ tr[t].budget \in Int /\ tr[t].failed \in Nat
      /\ tr[t].cursor \in Nat
  BY <1>1 DEF Transfers
<1>3. tr[t].size \in Nat
  BY <1>2, MaxSize
<1>4. /\ tr[t].cursor <= part[t] /\ tr[t].cursor <= tr[t].size
      /\ tr[t].budget >= 0 => tr[t].size - tr[t].cursor <= tr[t].budget + tr[t].failed
  BY <1>1 DEF TransfersOK
<1> QED BY <1>1, <1>2, <1>3, <1>4

\* A block more on disk.
LEMMA GrownStep ==
    ASSUME TypeOK, TransfersOK, NEW t \in Streams, Active(t), tr[t].cursor < tr[t].size
    PROVE  \E n \in Nat :
             /\ Grown(t) = [part EXCEPT ![t] = n]
             /\ tr[t].cursor + 1 <= n /\ (n <= tr[t].size \/ n <= part[t])
             /\ n + tr[t].size - ResumeOffset(n, tr[t].size)
                  <= part[t] + tr[t].size - ResumeOffset(part[t], tr[t].size)
<1> DEFINE n == IF tr[t].cursor < part[t] THEN part[t] ELSE tr[t].cursor + 1
<1>1. /\ part[t] \in Nat /\ tr[t].size \in Nat /\ tr[t].cursor \in Nat
      /\ tr[t].cursor <= part[t]
  BY ActiveFacts
<1>2. n \in Nat /\ tr[t].cursor + 1 <= n /\ (n <= tr[t].size \/ n <= part[t])
  BY <1>1
<1>3. n + tr[t].size - ResumeOffset(n, tr[t].size)
        <= part[t] + tr[t].size - ResumeOffset(part[t], tr[t].size)
  BY <1>1 DEF ResumeOffset
<1>4. Grown(t) = [part EXCEPT ![t] = n]
  BY DEF Grown
<1> HIDE DEF n
<1> QED BY <1>2, <1>3, <1>4

LEMMA WriteStep ==
    ASSUME TypeOK, TransfersOK, NEW t \in Streams, Write(t) \/ WriteFails(t)
    PROVE  \E x, n, f : StreamStep(t, x, n, f) /\ GoesOn(t, x, n, f)
<1>1. Active(t) /\ tr[t].cursor < tr[t].size /\ WithinBudget(t)
  BY DEF Write, WriteFails
<1>2. /\ tr[t] \in Transfers /\ tr[t] # None /\ part[t] \in Nat /\ final \in Nat
      /\ tr[t].at = "active" /\ tr[t].size \in Nat
      /\ tr[t].cursor \in Nat /\ tr[t].cursor <= part[t]
      /\ tr[t].budget \in Int /\ tr[t].failed \in Nat
      /\ tr[t].budget >= 0 => tr[t].size - tr[t].cursor <= tr[t].budget + tr[t].failed
  BY <1>1, ActiveFacts
<1> DEFINE b == Debited(t)
<1>3. b \in Int /\ (b >= 0 => tr[t].budget >= 0 /\ b = tr[t].budget - 1)
  BY <1>1, <1>2 DEF Debited
<1> HIDE DEF b
<1>4. PICK m \in Nat :
        /\ Grown(t) = [part EXCEPT ![t] = m]
        /\ tr[t].cursor + 1 <= m /\ (m <= tr[t].size \/ m <= part[t])
        /\ m + tr[t].size - ResumeOffset(m, tr[t].size)
             <= part[t] + tr[t].size - ResumeOffset(part[t], tr[t].size)
  BY <1>1, GrownStep
<1>5. CASE Write(t)
  <2> DEFINE c == tr[t].cursor + 1
             x == [tr[t] EXCEPT !.cursor = c, !.budget = b]
  <2>1. tr' = [tr EXCEPT ![t] = x] /\ part' = [part EXCEPT ![t] = m]
    BY <1>4, <1>5, Zenon DEF Write, b
  <2>2. /\ c \in Nat /\ c <= m /\ c <= tr[t].size
        /\ b >= 0 => tr[t].size - c <= b + tr[t].failed
    BY <1>1, <1>2, <1>3, <1>4
  <2> HIDE DEF c
  <2>3. /\ x \in Transfers /\ x.at = "active" /\ x.cursor = c /\ x.size = tr[t].size
        /\ x.budget = b /\ x.failed = tr[t].failed
    <3>1. x \in Transfers
      BY <1>2, <1>3, <2>2, Zenon DEF Transfers
    <3>2. x.at = tr[t].at /\ x.cursor = c /\ x.size = tr[t].size
          /\ x.budget = b /\ x.failed = tr[t].failed
      BY <1>2 DEF Transfers
    <3> QED BY <1>2, <3>1, <3>2
  <2> HIDE DEF x
  <2>4. x # None
    BY <2>3, NoneAssumption
  <2>5. /\ final' = final /\ sv' = sv /\ other' = other /\ overlap' = overlap
    BY <1>5 DEF Write
  <2>6. StreamStep(t, x, m, final)
    BY <1>2, <2>1, <2>3, <2>5 DEF StreamStep
  <2>7. GoesOn(t, x, m, final)
    BY <1>2, <1>4, <2>2, <2>3, <2>4, <2>5 DEF GoesOn
  <2> QED BY <2>6, <2>7
<1>6. CASE WriteFails(t)
  <2> DEFINE k == tr[t].failed + 1
             x == [tr[t] EXCEPT !.budget = b, !.failed = k]
  <2>1. tr' = [tr EXCEPT ![t] = x]
    BY <1>6, Zenon DEF WriteFails, b
  <2>2. \E n \in {part[t], m} : part' = [part EXCEPT ![t] = n]
    <3>1. part' = part \/ part' = Grown(t)
      BY <1>6 DEF WriteFails
    <3>2. part = [part EXCEPT ![t] = part[t]]
      BY DEF TypeOK
    <3> QED BY <1>4, <3>1, <3>2, Zenon
  <2>3. PICK n \in {part[t], m} : part' = [part EXCEPT ![t] = n]
    BY <2>2
  <2>4. /\ n \in Nat /\ tr[t].cursor <= n /\ tr[t].cursor <= tr[t].size
        /\ n <= tr[t].size \/ n <= part[t]
    BY <1>1, <1>2, <1>4, <2>3
  <2>5. n + tr[t].size - ResumeOffset(n, tr[t].size)
          <= part[t] + tr[t].size - ResumeOffset(part[t], tr[t].size)
    <3>1. ResumeOffset(part[t], tr[t].size) \in Nat
      BY <1>2 DEF ResumeOffset
    <3> QED BY <1>2, <1>4, <2>3, <3>1
  <2>6. k \in Nat /\ (b >= 0 => tr[t].size - tr[t].cursor <= b + k)
    BY <1>2, <1>3
  <2> HIDE DEF k
  <2>7. /\ x \in Transfers /\ x.at = "active" /\ x.cursor = tr[t].cursor
        /\ x.size = tr[t].size /\ x.budget = b /\ x.failed = k
    <3>1. x \in Transfers
      BY <1>2, <1>3, <2>6, Zenon DEF Transfers
    <3>2. x.at = tr[t].at /\ x.cursor = tr[t].cursor /\ x.size = tr[t].size
          /\ x.budget = b /\ x.failed = k
      BY <1>2 DEF Transfers
    <3> QED BY <1>2, <3>1, <3>2
  <2> HIDE DEF x
  <2>8. x # None
    BY <2>7, NoneAssumption
  <2>9. /\ final' = final /\ sv' = sv /\ other' = other /\ overlap' = overlap
    BY <1>6 DEF WriteFails
  <2>10. StreamStep(t, x, n, final)
    BY <1>2, <2>1, <2>3, <2>4, <2>7, <2>9 DEF StreamStep
  <2>11. GoesOn(t, x, n, final)
    BY <1>2, <2>4, <2>5, <2>6, <2>7, <2>8, <2>9 DEF GoesOn
  <2> QED BY <2>10, <2>11
<1> QED BY <1>5, <1>6

LEMMA EndStep ==
    ASSUME TypeOK, TransfersOK, NEW t \in Streams, Abandon(t) \/ Done(t) \/ Drop(t)
    PROVE  \E x, n, f : StreamStep(t, x, n, f) /\ Ends(t, x, n, f)
<1>1. part[t] \in Nat /\ final \in Nat /\ part \in [Streams -> Nat]
  BY DEF TypeOK
<1>2. tr[t] # None /\ tr' = [tr EXCEPT ![t] = None] /\ UNCHANGED <<sv, other, overlap>>
  BY DEF Abandon, Done, Drop, Active
<1>3. CASE Abandon(t)
  <2>1. \E n \in {part[t], 0} : part' = [part EXCEPT ![t] = n]
    <3>1. part = [part EXCEPT ![t] = part[t]]
      BY <1>1
    <3> QED BY <1>3, <3>1, Zenon DEF Abandon
  <2>2. PICK n \in {part[t], 0} : part' = [part EXCEPT ![t] = n]
    BY <2>1
  <2>3. n \in Nat /\ n <= part[t] /\ final' = final
    BY <1>1, <1>3, <2>2 DEF Abandon
  <2>4. StreamStep(t, None, n, final)
    BY <1>1, <1>2, <2>2, <2>3 DEF StreamStep
  <2>5. Ends(t, None, n, final)
    BY <1>1, <1>2, <2>3 DEF Ends
  <2> QED BY <2>4, <2>5
<1>4. CASE Done(t)
  <2>1. StreamStep(t, None, 0, final + part[t])
    BY <1>1, <1>2, <1>4 DEF StreamStep, Done
  <2>2. Ends(t, None, 0, final + part[t])
    BY <1>1, <1>2 DEF Ends
  <2> QED BY <2>1, <2>2
<1>5. CASE Drop(t)
  <2>1. StreamStep(t, None, part[t], final)
    BY <1>1, <1>2, <1>5 DEF StreamStep, Drop
  <2>2. Ends(t, None, part[t], final)
    BY <1>1, <1>2 DEF Ends
  <2> QED BY <2>1, <2>2
<1> QED BY <1>3, <1>4, <1>5

LEMMA StreamCases ==
    ASSUME TypeOK, TransfersOK, NEW t \in Streams, Stream(t)
    PROVE  \E x, n, f : /\ StreamStep(t, x, n, f)
                        /\ Admitted(t, x, n, f) \/ GoesOn(t, x, n, f) \/ Ends(t, x, n, f)
<1>1. CASE Admit(t)
  BY <1>1, AdmitStep
<1>2. CASE Install(t)
  BY <1>2, InstallStep
<1>3. CASE Write(t) \/ WriteFails(t)
  BY <1>3, WriteStep
<1>4. CASE Abandon(t) \/ Done(t) \/ Drop(t)
  BY <1>4, EndStep
<1> QED BY <1>1, <1>2, <1>3, <1>4 DEF Stream

\* A step of save s leaves it at y, and f bytes in finished files.
SaveStep(s, y, f) ==
    /\ y \in Written \cup {None} /\ f \in Nat
    /\ sv' = [sv EXCEPT ![s] = y] /\ final' = f
    /\ tr' = tr /\ part' = part /\ other' = other

SaveAdmitted(s, y, f) ==
    /\ sv[s] = None /\ y # None /\ y.written = 0
    /\ Quota > 0 => DirTotal + y.size <= Quota
    /\ f = final /\ overlap' = Busy(s)

SaveGoesOn(s, y, f) ==
    /\ sv[s] # None /\ y # None /\ y.size = sv[s].size
    /\ y.written = sv[s].written + 1 /\ y.written <= y.size
    /\ f = final /\ overlap' = overlap

SaveEnds(s, y, f) ==
    /\ sv[s] # None /\ y = None
    /\ final <= f /\ f <= final + sv[s].written /\ overlap' = overlap

LEMMA SaveCases ==
    ASSUME TypeOK, TransfersOK, NEW s \in Saves, SaveFile(s)
    PROVE  \E y, f : /\ SaveStep(s, y, f)
                     /\ SaveAdmitted(s, y, f) \/ SaveGoesOn(s, y, f) \/ SaveEnds(s, y, f)
<1>1. final \in Nat /\ sv \in [Saves -> Written \cup {None}]
  BY DEF TypeOK
<1>2. CASE SaveAdmit(s)
  <2>1. PICK k \in Sizes : /\ Quota > 0 => DirTotal + k <= Quota
                           /\ sv' = [sv EXCEPT ![s] = [size |-> k, written |-> 0]]
    BY <1>2, Zenon DEF SaveAdmit
  <2> DEFINE y == [size |-> k, written |-> 0]
  <2>2. y \in Written /\ y.written = 0 /\ y.size = k
    BY DEF Written
  <2>3. sv' = [sv EXCEPT ![s] = y]
    BY <2>1
  <2> HIDE DEF y
  <2>4. y # None
    BY <2>2, NoneAssumption
  <2>5. SaveStep(s, y, final)
    BY <1>1, <1>2, <2>2, <2>3, Zenon DEF SaveStep, SaveAdmit
  <2>6. SaveAdmitted(s, y, final)
    BY <1>2, <2>1, <2>2, <2>4 DEF SaveAdmitted, SaveAdmit
  <2> QED BY <2>5, <2>6
<1>3. CASE sv[s] # None
  <2>1. /\ sv[s] \in Written /\ sv[s].written \in Nat /\ sv[s].size \in Nat
        /\ sv[s].written <= sv[s].size
    <3>1. sv[s] \in Written
      BY <1>1, <1>3
    <3>2. sv[s].written \in Nat /\ sv[s].size \in Sizes
      BY <3>1 DEF Written
    <3>3. sv[s].size \in Nat
      BY <3>2, MaxSize
    <3> QED BY <1>3, <3>1, <3>2, <3>3 DEF TransfersOK
  <2>2. CASE SaveWrite(s)
    <3> DEFINE k == sv[s].written + 1
               y == [sv[s] EXCEPT !.written = k]
    <3>1. k \in Nat /\ k <= sv[s].size
      BY <2>1, <2>2 DEF SaveWrite
    <3>2. sv' = [sv EXCEPT ![s] = y]
      BY <2>2 DEF SaveWrite
    <3> HIDE DEF k
    <3>3. y \in Written /\ y.written = k /\ y.size = sv[s].size
      BY <2>1, <3>1 DEF Written
    <3> HIDE DEF y
    <3>4. y # None
      BY <3>3, NoneAssumption
    <3>5. SaveStep(s, y, final)
      BY <1>1, <2>2, <3>2, <3>3, Zenon DEF SaveStep, SaveWrite
    <3>6. SaveGoesOn(s, y, final)
      BY <1>3, <2>2, <3>1, <3>3, <3>4 DEF SaveGoesOn, SaveWrite, k
    <3> QED BY <3>5, <3>6
  <2>3. CASE SaveDone(s)
    <3>1. sv[s].written = sv[s].size
      BY <2>3 DEF SaveDone
    <3>2. SaveStep(s, None, final + sv[s].size)
      BY <1>1, <2>1, <2>3 DEF SaveStep, SaveDone
    <3>3. SaveEnds(s, None, final + sv[s].size)
      BY <1>1, <1>3, <2>1, <2>3, <3>1 DEF SaveEnds, SaveDone
    <3> QED BY <3>2, <3>3
  <2>4. CASE SaveFails(s)
    <3> DEFINE f == final'
    <3>1. f \in Nat /\ final <= f /\ f <= final + sv[s].written
      BY <1>1, <2>1, <2>4 DEF SaveFails
    <3>2. SaveStep(s, None, f)
      BY <2>4, <3>1 DEF SaveStep, SaveFails
    <3>3. SaveEnds(s, None, f)
      BY <1>3, <2>4, <3>1 DEF SaveEnds, SaveFails
    <3> QED BY <3>2, <3>3
  <2>5. SaveWrite(s) \/ SaveDone(s) \/ SaveFails(s)
    BY <1>3 DEF SaveFile, SaveAdmit
  <2> QED BY <2>2, <2>3, <2>4, <2>5
<1> QED BY <1>2, <1>3 DEF SaveFile, SaveWrite, SaveDone, SaveFails

-----------------------------------------------------------------------------
(* Types and transfers *)

LEMMA BusyType == ASSUME NEW z PROVE Busy(z) \in BOOLEAN
  BY DEF Busy

LEMMA StreamType ==
    ASSUME TypeOK, NEW t \in Streams, NEW x, NEW n, NEW f, StreamStep(t, x, n, f),
           Admitted(t, x, n, f) \/ GoesOn(t, x, n, f) \/ Ends(t, x, n, f)
    PROVE  /\ TypeOK' /\ tr'[t] = x /\ part'[t] = n
           /\ \A u \in Streams \ {t} : tr'[u] = tr[u] /\ part'[u] = part[u]
<1>1. overlap' \in BOOLEAN
  <2>1. overlap \in BOOLEAN
    BY DEF TypeOK
  <2> QED BY <2>1, BusyType DEF Admitted, GoesOn, Ends
<1>2. tr' \in [Streams -> Transfers \cup {None}] /\ tr'[t] = x
      /\ \A u \in Streams \ {t} : tr'[u] = tr[u]
  BY DEF TypeOK, StreamStep
<1>3. part' \in [Streams -> Nat] /\ part'[t] = n
      /\ \A u \in Streams \ {t} : part'[u] = part[u]
  BY DEF TypeOK, StreamStep
<1>4. final' \in Nat /\ other' \in Nat /\ sv' \in [Saves -> Written \cup {None}]
  BY DEF TypeOK, StreamStep
<1> QED BY <1>1, <1>2, <1>3, <1>4 DEF TypeOK

LEMMA SaveType ==
    ASSUME TypeOK, NEW s \in Saves, NEW y, NEW f, SaveStep(s, y, f),
           SaveAdmitted(s, y, f) \/ SaveGoesOn(s, y, f) \/ SaveEnds(s, y, f)
    PROVE  TypeOK' /\ sv'[s] = y /\ \A u \in Saves \ {s} : sv'[u] = sv[u]
<1>1. overlap' \in BOOLEAN
  <2>1. overlap \in BOOLEAN
    BY DEF TypeOK
  <2> QED BY <2>1, BusyType DEF SaveAdmitted, SaveGoesOn, SaveEnds
<1>2. sv' \in [Saves -> Written \cup {None}] /\ sv'[s] = y
      /\ \A u \in Saves \ {s} : sv'[u] = sv[u]
  BY DEF TypeOK, SaveStep
<1>3. final' \in Nat /\ other' \in Nat /\ part' \in [Streams -> Nat]
      /\ tr' \in [Streams -> Transfers \cup {None}]
  BY DEF TypeOK, SaveStep
<1> QED BY <1>1, <1>2, <1>3 DEF TypeOK

\* Nothing is sent or written on behalf of others.
LEMMA ElseStep ==
    ASSUME TypeOK, Remove \/ OtherUse
    PROVE  /\ TypeOK' /\ part' = part /\ tr' = tr /\ sv' = sv
           /\ final' <= final
           /\ \/ overlap' = overlap /\ other' <= other
              \/ overlap' = TRUE /\ final' = final
<1>1. final \in Nat /\ other \in Nat /\ overlap \in BOOLEAN
  BY DEF TypeOK
<1>2. CASE Remove
  <2>1. PICK k \in Sizes : k <= final /\ final' = final - k
    BY <1>2 DEF Remove
  <2>2. k \in Nat
    BY MaxSize
  <2>3. final' \in Nat /\ final' <= final
    BY <1>1, <2>1, <2>2
  <2>4. UNCHANGED <<part, tr, sv, other, overlap>>
    BY <1>2 DEF Remove
  <2> QED BY <1>1, <2>3, <2>4 DEF TypeOK
<1>3. CASE OtherUse
  <2>1. other' \in {other - 1, other + 1} /\ overlap' = (overlap \/ other' > other)
        /\ UNCHANGED <<part, tr, sv, final>> /\ other' \in 0 .. Disk - DirTotal
    BY <1>3 DEF OtherUse
  <2>2. other' \in Nat
    <3>1. DirTotal \in Nat /\ Disk \in Nat
      BY Size, QuotaAssumption DEF DirTotal
    <3> QED BY <2>1, <3>1
  <2>3. overlap' \in BOOLEAN /\ (~overlap' => overlap' = overlap /\ ~(other' > other))
    BY <1>1, <2>1, Zenon
  <2>4. ~(other' > other) => other' <= other
    BY <1>1, <2>2
  <2> QED BY <1>1, <2>1, <2>2, <2>3, <2>4 DEF TypeOK
<1> QED BY <1>2, <1>3, Zenon

LEMMA TransfersStep ==
    ASSUME TypeOK, TransfersOK, Next
    PROVE  TransfersOK'
<1>1. ASSUME NEW t \in Streams, Stream(t) PROVE TransfersOK'
  <2>1. PICK x, n, f : /\ StreamStep(t, x, n, f)
                       /\ Admitted(t, x, n, f) \/ GoesOn(t, x, n, f) \/ Ends(t, x, n, f)
    BY <1>1, StreamCases
  <2>2. /\ tr'[t] = x /\ part'[t] = n /\ sv' = sv
        /\ \A u \in Streams \ {t} : tr'[u] = tr[u] /\ part'[u] = part[u]
    <3>1. sv' = sv
      BY <2>1 DEF StreamStep
    <3> QED BY <2>1, <3>1, StreamType
  <2>3. part[t] \in Nat /\ n \in Nat /\ Max(Sizes) \in Nat /\ part[t] <= Max(Sizes)
    BY <2>1, MaxSize DEF TypeOK, StreamStep, TransfersOK
  <2>4. x # None => /\ x.size \in Nat /\ x.size <= Max(Sizes) /\ x.budget \in Int
                    /\ x.failed \in Nat
    <3>1. x # None => x.size \in Sizes /\ x.budget \in Int /\ x.failed \in Nat
      BY <2>1 DEF StreamStep, Transfers
    <3> QED BY <3>1, MaxSize
  <2> HIDE DEF Max
  <2>5. n <= Max(Sizes)
    <3> DEFINE m == Max(Sizes)
    <3>1. n = part[t] \/ n <= part[t] \/ (x # None /\ n <= x.size)
      BY <2>1 DEF Admitted, GoesOn, Ends
    <3>2. m \in Nat /\ part[t] <= m /\ (x # None => x.size \in Nat /\ x.size <= m)
      BY <2>3, <2>4
    <3> HIDE DEF m
    <3>3. n <= m
      BY <2>3, <3>1, <3>2
    <3> QED BY <3>3 DEF m
  <2>6. x # None =>
          /\ x.at = "admitted" => x.cursor = 0
          /\ x.at = "active" => x.cursor <= n /\ x.cursor <= x.size
          /\ x.budget >= 0 => x.size - x.cursor <= x.budget + x.failed
    <3>1. CASE Admitted(t, x, n, f)
      <4>1. x.budget >= 0 => x.size - 0 <= x.budget + x.failed
        BY <2>4, <3>1 DEF Admitted
      <4> QED BY <3>1, <4>1 DEF Admitted
    <3>2. CASE GoesOn(t, x, n, f)
      BY <3>2 DEF GoesOn
    <3> QED BY <2>1, <3>1, <3>2 DEF Ends
  <2> QED BY <2>2, <2>5, <2>6 DEF TransfersOK
<1>2. ASSUME NEW s \in Saves, SaveFile(s) PROVE TransfersOK'
  <2>1. PICK y, f : /\ SaveStep(s, y, f)
                    /\ SaveAdmitted(s, y, f) \/ SaveGoesOn(s, y, f) \/ SaveEnds(s, y, f)
    BY <1>2, SaveCases
  <2>2. /\ sv'[s] = y /\ tr' = tr /\ part' = part
        /\ \A u \in Saves \ {s} : sv'[u] = sv[u]
    BY <2>1, SaveType, Zenon DEF SaveStep
  <2>3. y # None => y.size \in Nat
    <3>1. y # None => y.size \in Sizes
      BY <2>1 DEF SaveStep, Written
    <3> QED BY <3>1, MaxSize
  <2>4. y # None => y.written <= y.size
    BY <2>1, <2>3 DEF SaveAdmitted, SaveGoesOn, SaveEnds
  <2> QED BY <2>2, <2>4 DEF TransfersOK
<1>3. CASE Remove \/ OtherUse
  <2>1. part' = part /\ tr' = tr /\ sv' = sv
    BY <1>3, ElseStep, Zenon
  <2> QED BY <2>1 DEF TransfersOK
<1> QED BY <1>1, <1>2, <1>3 DEF Next

-----------------------------------------------------------------------------
(* Alone *)

LEMMA BusyFacts ==
    ASSUME NEW z
    PROVE  /\ ~Busy(z) => /\ \A u \in Streams : u # z => tr[u] = None
                          /\ \A u \in Saves : u # z => sv[u] = None
           /\ (\A u \in Streams : u # z => tr[u] = None)
              /\ (\A u \in Saves : u # z => sv[u] = None) => ~Busy(z)
           /\ (\A u \in Streams : u # z => tr'[u] = None)
              /\ (\A u \in Saves : u # z => sv'[u] = None) => ~Busy(z)'
  BY DEF Busy, Saving

\* The sizes after a step of stream t.
LEMMA StreamSize ==
    ASSUME TypeOK, TypeOK', NEW t \in Streams, sv' = sv,
           \A u \in Streams \ {t} : part'[u] = part[u]
    PROVE  /\ DirSize({t})' = DirSize({t}) - final + final'
           /\ DirTotal' = DirTotal - final + final' - part[t] + part'[t]
           /\ DirTotal = DirSize({t}) + part[t]
           /\ DirTotal \in Nat /\ DirSize({t}) \in Nat
<1>1. /\ part \in [Streams -> Nat] /\ part' \in [Streams -> Nat] /\ final \in Nat
      /\ final' \in Nat
  BY DEF TypeOK
<1>2. /\ DirSize({t}) = final + Rest(part, {t}) + SavedSum(sv)
      /\ Rest(part, {t}) \in Nat /\ SavedSum(sv) \in Nat
  BY Size
<1>3. DirTotal = final + Rest(part, {}) + SavedSum(sv) /\ Rest(part, {}) \in Nat
  BY Size DEF DirTotal
<1>4. DirSize({t})' = final' + Rest(part', {t}) + SavedSum(sv)
  BY SizeNext
<1>5. DirTotal' = final' + Rest(part', {}) + SavedSum(sv)
  BY SizeNext DEF DirTotal
<1>6. Rest(part', {}) = Rest(part, {}) - part[t] + part'[t] /\ Rest(part', {t}) = Rest(part, {t})
  BY <1>1, RestChange
<1>7. Rest(part, {}) = part[t] + Rest(part, {t})
  BY <1>1, RestOwn
<1>8. part[t] \in Nat /\ part'[t] \in Nat
  BY <1>1
<1> QED BY <1>1, <1>2, <1>3, <1>4, <1>5, <1>6, <1>7, <1>8

LEMMA SaveSize ==
    ASSUME TypeOK, NEW s \in Saves, NEW y, NEW f, SaveStep(s, y, f),
           TypeOK', \A u \in Saves \ {s} : sv'[u] = sv[u], sv'[s] = y
    PROVE  /\ DirTotal' = DirTotal - final + f - Saved(sv)[s] + Saved(sv')[s]
           /\ DirTotal \in Nat /\ final \in Nat /\ f \in Nat
           /\ Saved(sv)[s] \in Nat /\ Saved(sv')[s] \in Nat
<1>1. /\ sv \in [Saves -> Written \cup {None}] /\ sv' \in [Saves -> Written \cup {None}]
      /\ final \in Nat /\ f \in Nat /\ final' = f /\ part' = part
  BY DEF TypeOK, SaveStep
<1>2. /\ DirTotal = final + Rest(part, {}) + SavedSum(sv)
      /\ Rest(part, {}) \in Nat /\ SavedSum(sv) \in Nat
  BY Size DEF DirTotal
<1>3. DirTotal' = f + Rest(part, {}) + SavedSum(sv')
  BY <1>1, SizeNext DEF DirTotal
<1>4. SavedSum(sv') = SavedSum(sv) - Saved(sv)[s] + Saved(sv')[s]
  BY <1>1, SavedChange
<1>5. Saved(sv)[s] \in Nat /\ Saved(sv')[s] \in Nat
  <2>1. Saved(sv) \in [Saves -> Nat] /\ Saved(sv') \in [Saves -> Nat]
    BY <1>1, SavedType
  <2> QED BY <2>1
<1> QED BY <1>1, <1>2, <1>3, <1>4, <1>5

\* What AloneOK says of stream t and of save s.
StreamAlone(t) ==
    /\ ~Busy(t)
    /\ Quota > 0 => DirSize({t}) + tr[t].size <= Quota
    /\ Free - (tr[t].size - ResumeOffset(part[t], tr[t].size)) >= Reserve

SaveAlone(s) ==
    /\ ~Busy(s)
    /\ Quota > 0 => DirTotal + sv[s].size - sv[s].written <= Quota

LEMMA AloneDef ==
    /\ AloneOK <=> (~overlap => /\ \A t \in Streams : tr[t] # None => StreamAlone(t)
                                /\ \A s \in Saves : sv[s] # None => SaveAlone(s))
    /\ AloneOK' <=> (~overlap' => /\ \A t \in Streams : tr'[t] # None => StreamAlone(t)'
                                  /\ \A s \in Saves : sv'[s] # None => SaveAlone(s)')
  BY DEF AloneOK, StreamAlone, SaveAlone

LEMMA ResumeType ==
    ASSUME NEW p \in Nat, NEW n \in Nat
    PROVE  ResumeOffset(p, n) \in Nat
  BY DEF ResumeOffset

LEMMA AloneStream ==
    ASSUME TypeOK, TransfersOK, AloneOK, NEW t \in Streams, Stream(t)
    PROVE  AloneOK'
<1> SUFFICES ASSUME ~overlap'
             PROVE  /\ \A u \in Streams : tr'[u] # None => StreamAlone(u)'
                    /\ \A s \in Saves : sv'[s] # None => SaveAlone(s)'
  BY AloneDef
<1>1. PICK x, n, f : /\ StreamStep(t, x, n, f)
                     /\ Admitted(t, x, n, f) \/ GoesOn(t, x, n, f) \/ Ends(t, x, n, f)
  BY StreamCases
<1>2. /\ TypeOK' /\ tr'[t] = x /\ part'[t] = n
      /\ \A u \in Streams \ {t} : tr'[u] = tr[u] /\ part'[u] = part[u]
  BY <1>1, StreamType
<1>3. sv' = sv /\ other' = other
  BY <1>1 DEF StreamStep
<1>4. ~Busy(t)
  <2>1. CASE Admitted(t, x, n, f)
    BY <2>1 DEF Admitted
  <2>2. CASE tr[t] # None /\ overlap' = overlap
    BY <2>2, AloneDef, Zenon DEF StreamAlone
  <2> QED BY <1>1, <2>1, <2>2 DEF GoesOn, Ends
<1>5. /\ \A u \in Streams : u # t => tr'[u] = None
      /\ \A s \in Saves : sv'[s] = None
  <2>1. \A s \in Saves : s # t
    BY QuotaAssumption
  <2> QED BY <1>2, <1>3, <1>4, <2>1, BusyFacts
<1>6. ASSUME x # None PROVE StreamAlone(t)'
  <2>1. /\ DirSize({t})' = DirSize({t}) - final + f
        /\ DirTotal' = DirTotal - final + f - part[t] + n
        /\ DirTotal = DirSize({t}) + part[t]
        /\ DirTotal \in Nat /\ DirSize({t}) \in Nat /\ part[t] \in Nat /\ n \in Nat
        /\ final \in Nat /\ f \in Nat
    <3>1. TypeOK' /\ sv' = sv /\ \A u \in Streams \ {t} : part'[u] = part[u]
      BY <1>2, <1>3
    <3>2. /\ DirSize({t})' = DirSize({t}) - final + final'
          /\ DirTotal' = DirTotal - final + final' - part[t] + part'[t]
          /\ DirTotal = DirSize({t}) + part[t]
          /\ DirTotal \in Nat /\ DirSize({t}) \in Nat
      BY <3>1, StreamSize
    <3>3. final' = f /\ part'[t] = n /\ f \in Nat /\ n \in Nat
      BY <1>1, <1>2 DEF StreamStep
    <3>4. part[t] \in Nat /\ final \in Nat
      BY DEF TypeOK
    <3> QED BY <3>2, <3>3, <3>4
  <2>2. ~Busy(t)'
    BY <1>5, BusyFacts
  <2>3. /\ other \in Nat /\ Disk \in Nat /\ Reserve \in Nat /\ Quota \in Nat
    BY QuotaAssumption DEF TypeOK
  <2>4. x.size \in Nat /\ x.size > 0
    <3>1. x.size \in Sizes
      BY <1>1, <1>6 DEF StreamStep, Transfers
    <3> QED BY <3>1, MaxSize
  <2>5. /\ ResumeOffset(n, x.size) \in Nat /\ ResumeOffset(part[t], x.size) \in Nat
    BY <2>1, <2>4, ResumeType, Zenon
  <2>6. Free = Disk - other - DirTotal /\ Free' = Disk - other - DirTotal'
    BY <1>3 DEF Free
  <2> DEFINE d == DirSize({t})
             e == DirTotal
             a == ResumeOffset(part[t], x.size)
             b == ResumeOffset(n, x.size)
  <2>7. /\ Quota > 0 => d + x.size <= Quota
        /\ Free - (x.size - a) >= Reserve
        /\ f = final /\ n + x.size - b <= part[t] + x.size - a
    <3>1. CASE Admitted(t, x, n, f)
      <4>1. /\ Quota > 0 => x.size <= Budget(t)
            /\ FitsDisk(t, x.size) /\ n = part[t] /\ f = final
        BY <3>1 DEF Admitted
      <4>2. Budget(t) \in Nat /\ (Budget(t) > 0 => Budget(t) = Quota - DirSize({t}))
        BY Budgets
      <4>3. Quota > 0 => d + x.size <= Quota
        BY <2>1, <2>3, <2>4, <4>1, <4>2
      <4>4. Free - (x.size - a) >= Reserve
        <5>1. Free \in Int /\ x.size - a \in Int
          BY <2>1, <2>3, <2>4, <2>5, <2>6
        <5>2. x.size - a <= Free /\ Unsigned(Free - (x.size - a)) >= Reserve
          BY <4>1 DEF FitsDisk
        <5> QED BY <2>3, <5>1, <5>2 DEF Unsigned
      <4>5. n + x.size - b <= part[t] + x.size - a
        BY <2>1, <2>4, <2>5, <4>1
      <4> QED BY <4>1, <4>3, <4>4, <4>5
    <3>2. CASE GoesOn(t, x, n, f)
      <4>1. StreamAlone(t) /\ x.size = tr[t].size
        BY <3>2, AloneDef DEF GoesOn
      <4> QED BY <3>2, <4>1 DEF StreamAlone, GoesOn
    <3> QED BY <1>1, <1>6, <3>1, <3>2 DEF Ends
  <2>8. DirSize({t})' = d /\ DirTotal' = e - part[t] + n /\ Free = Disk - other - e
        /\ Free' = Disk - other - (e - part[t] + n) /\ e \in Nat /\ d \in Nat
        /\ a \in Nat /\ b \in Nat
    BY <2>1, <2>5, <2>6, <2>7
  <2> HIDE DEF d, e, a, b
  <2>9. Free' - (x.size - b) >= Reserve
    BY <2>1, <2>3, <2>4, <2>7, <2>8
  <2> QED BY <1>2, <2>2, <2>7, <2>8, <2>9 DEF StreamAlone, b
<1> QED BY <1>2, <1>5, <1>6

LEMMA AloneSave ==
    ASSUME TypeOK, TransfersOK, AloneOK, NEW s \in Saves, SaveFile(s)
    PROVE  AloneOK'
<1> SUFFICES ASSUME ~overlap'
             PROVE  /\ \A u \in Streams : tr'[u] # None => StreamAlone(u)'
                    /\ \A u \in Saves : sv'[u] # None => SaveAlone(u)'
  BY AloneDef
<1>1. PICK y, f : /\ SaveStep(s, y, f)
                  /\ SaveAdmitted(s, y, f) \/ SaveGoesOn(s, y, f) \/ SaveEnds(s, y, f)
  BY SaveCases
<1>2. TypeOK' /\ sv'[s] = y /\ \A u \in Saves \ {s} : sv'[u] = sv[u]
  BY <1>1, SaveType
<1>3. tr' = tr /\ part' = part
  BY <1>1 DEF SaveStep
<1>4. ~Busy(s)
  <2>1. CASE SaveAdmitted(s, y, f)
    BY <2>1 DEF SaveAdmitted
  <2>2. CASE sv[s] # None /\ overlap' = overlap
    BY <2>2, AloneDef DEF SaveAlone
  <2> QED BY <1>1, <2>1, <2>2 DEF SaveGoesOn, SaveEnds
<1>5. /\ \A u \in Streams : tr'[u] = None
      /\ \A u \in Saves : u # s => sv'[u] = None
  <2>1. \A u \in Streams : u # s
    BY QuotaAssumption
  <2> QED BY <1>2, <1>3, <1>4, <2>1, BusyFacts
<1>6. ASSUME y # None PROVE SaveAlone(s)'
  <2>1. /\ DirTotal' = DirTotal - final + f - Saved(sv)[s] + Saved(sv')[s]
        /\ DirTotal \in Nat /\ final \in Nat /\ f \in Nat
        /\ Saved(sv)[s] \in Nat /\ Saved(sv')[s] \in Nat
    BY <1>1, <1>2, SaveSize
  <2>2. ~Busy(s)'
    BY <1>5, BusyFacts
  <2>3. Saved(sv')[s] = y.written /\ y.size \in Nat
    <3>1. sv' \in [Saves -> Written \cup {None}]
      BY <1>2 DEF TypeOK
    <3>2. Saved(sv')[s] = y.written /\ y.size \in Sizes
      BY <1>2, <1>6, <3>1, SavedType
    <3> QED BY <3>2, MaxSize
  <2>4. sv[s] = None => Saved(sv)[s] = 0
    BY DEF Saved
  <2>5. sv[s] # None => Saved(sv)[s] = sv[s].written
    BY DEF Saved
  <2> DEFINE d == DirTotal
             a == Saved(sv)[s]
  <2>6. Quota > 0 => d - a + y.size <= Quota
    <3>1. CASE SaveAdmitted(s, y, f)
      BY <2>1, <2>3, <2>4, <3>1 DEF SaveAdmitted
    <3>2. CASE SaveGoesOn(s, y, f)
      <4>1. SaveAlone(s) /\ y.size = sv[s].size
        BY <3>2, AloneDef DEF SaveGoesOn
      <4>2. Quota > 0 => d + y.size - a <= Quota
        BY <2>5, <3>2, <4>1 DEF SaveAlone, SaveGoesOn
      <4> QED BY <2>1, <2>3, <4>2
    <3> QED BY <1>1, <1>6, <3>1, <3>2 DEF SaveEnds
  <2>7. f = final
    BY <1>1, <1>6 DEF SaveAdmitted, SaveGoesOn, SaveEnds
  <2>8. DirTotal' = d - a + y.written /\ d \in Nat /\ a \in Nat /\ y.written \in Nat
    BY <2>1, <2>3, <2>7
  <2> HIDE DEF d, a
  <2>9. Quota > 0 => DirTotal' + y.size - y.written <= Quota
    BY <2>3, <2>6, <2>8
  <2> QED BY <1>2, <2>2, <2>9 DEF SaveAlone
<1> QED BY <1>2, <1>5, <1>6

LEMMA AloneElse ==
    ASSUME TypeOK, AloneOK, Remove \/ OtherUse
    PROVE  AloneOK'
<1> SUFFICES ASSUME ~overlap'
             PROVE  /\ \A t \in Streams : tr'[t] # None => StreamAlone(t)'
                    /\ \A s \in Saves : sv'[s] # None => SaveAlone(s)'
  BY AloneDef
<1>1. /\ TypeOK' /\ part' = part /\ tr' = tr /\ sv' = sv
      /\ final' <= final /\ overlap' = overlap /\ other' <= other
  BY ElseStep, Zenon
<1>2. final \in Nat /\ final' \in Nat /\ other \in Nat /\ other' \in Nat
  BY <1>1 DEF TypeOK
<1>3. \A z : Busy(z)' <=> Busy(z)
  BY <1>1 DEF Busy, Saving
<1>4. ASSUME NEW own PROVE DirSize(own)' <= DirSize(own) /\ DirSize(own)' \in Int
                           /\ DirSize(own) \in Int
  <2>1. /\ DirSize(own) = final + Rest(part, own) + SavedSum(sv)
        /\ Rest(part, own) \in Nat /\ SavedSum(sv) \in Nat
    BY Size
  <2>2. DirSize(own)' = final' + Rest(part, own) + SavedSum(sv)
    BY <1>1, SizeNext
  <2> QED BY <1>1, <1>2, <2>1, <2>2
<1>5. ASSUME NEW t \in Streams, tr'[t] # None PROVE StreamAlone(t)'
  <2>1. StreamAlone(t) /\ tr'[t] = tr[t]
    BY <1>1, <1>5, AloneDef
  <2>2. tr[t].size \in Nat /\ part[t] \in Nat
    <3>1. tr[t] \in Transfers /\ part[t] \in Nat
      BY <1>5, <2>1 DEF TypeOK
    <3>2. tr[t].size \in Sizes
      BY <3>1 DEF Transfers
    <3> QED BY <3>1, <3>2, MaxSize
  <2> DEFINE a == ResumeOffset(part[t], tr[t].size)
  <2>3. a \in Nat
    BY <2>2, ResumeType, Zenon
  <2>4. /\ DirTotal' <= DirTotal /\ DirTotal' \in Int /\ DirTotal \in Int
        /\ DirSize({t})' <= DirSize({t}) /\ DirSize({t})' \in Int /\ DirSize({t}) \in Int
    BY <1>4 DEF DirTotal
  <2>5. Disk \in Nat /\ Reserve \in Nat /\ Quota \in Nat
    BY QuotaAssumption
  <2>6. Free = Disk - other - DirTotal /\ Free' = Disk - other' - DirTotal'
    BY DEF Free
  <2>7. /\ Quota > 0 => DirSize({t}) + tr[t].size <= Quota
        /\ Free - (tr[t].size - a) >= Reserve
    BY <2>1 DEF StreamAlone
  <2> HIDE DEF a
  <2>8. Quota > 0 => DirSize({t})' + tr[t].size <= Quota
    BY <2>2, <2>4, <2>5, <2>7
  <2>9. Free' - (tr[t].size - a) >= Reserve
    BY <1>1, <1>2, <2>2, <2>3, <2>4, <2>5, <2>6, <2>7
  <2> QED BY <1>1, <1>3, <2>1, <2>8, <2>9 DEF StreamAlone, a
<1>6. ASSUME NEW s \in Saves, sv'[s] # None PROVE SaveAlone(s)'
  <2>1. SaveAlone(s) /\ sv' = sv
    BY <1>1, <1>6, AloneDef
  <2>2. sv[s].size \in Nat /\ sv[s].written \in Nat
    <3>1. sv[s] \in Written
      BY <1>6, <2>1 DEF TypeOK
    <3>2. sv[s].size \in Sizes /\ sv[s].written \in Nat
      BY <3>1 DEF Written
    <3> QED BY <3>2, MaxSize
  <2>3. DirTotal' <= DirTotal /\ DirTotal' \in Int /\ DirTotal \in Int
    BY <1>4 DEF DirTotal
  <2>4. Quota \in Nat
    BY QuotaAssumption
  <2>5. Quota > 0 => DirTotal + sv[s].size - sv[s].written <= Quota
    BY <2>1 DEF SaveAlone
  <2>6. Quota > 0 => DirTotal' + sv[s].size - sv[s].written <= Quota
    BY <2>2, <2>3, <2>4, <2>5
  <2> QED BY <1>3, <2>1, <2>6 DEF SaveAlone
<1> QED BY <1>5, <1>6

-----------------------------------------------------------------------------
(* Together *)

Bound == Quota + (Cardinality(Streams \cup Saves) - 1) * Max(Sizes)

LEMMA BoundParts ==
    /\ Cardinality(Streams) \in Nat /\ Cardinality(Saves) \in Nat /\ Quota \in Nat
    /\ Bound = Quota + (Cardinality(Streams) - 1) * Max(Sizes) + Cardinality(Saves) * Max(Sizes)
    /\ Bound = Quota + Cardinality(Streams) * Max(Sizes) + (Cardinality(Saves) - 1) * Max(Sizes)
    /\ Bound \in Int /\ Bound >= Quota
<1>1. /\ IsFiniteSet(Streams) /\ IsFiniteSet(Saves) /\ Streams \cap Saves = {} /\ Quota \in Nat
      /\ Streams \cup Saves # {}
  BY QuotaAssumption
<1> DEFINE a == Cardinality(Streams)
           b == Cardinality(Saves)
           c == Cardinality(Streams \cup Saves)
           m == Max(Sizes)
<1>2. a \in Nat /\ b \in Nat /\ m \in Nat
  BY <1>1, FS_CardinalityType, MaxSize
<1>3. c = a + b - Cardinality(Streams \cap Saves) /\ IsFiniteSet(Streams \cup Saves)
  BY <1>1, FS_Union
<1>4. Cardinality(Streams \cap Saves) = 0
  BY <1>1, FS_EmptySet
<1>5. c # 0
  BY <1>1, <1>3, FS_EmptySet
<1> HIDE DEF a, b, c, m
<1>6. c = a + b /\ c \in Nat /\ c >= 1
  BY <1>2, <1>3, <1>4, <1>5
<1>7. (c - 1) * m = (a - 1) * m + b * m /\ (c - 1) * m = a * m + (b - 1) * m
  BY <1>2, <1>6
<1>8. (a - 1) * m \in Int /\ b * m \in Int /\ a * m \in Int /\ (b - 1) * m \in Int
      /\ (c - 1) * m >= 0 /\ (c - 1) * m \in Int
  BY <1>2, <1>6
<1>9. /\ Bound = Quota + (c - 1) * m
  BY DEF Bound, c, m
<1>10. /\ Bound = Quota + (a - 1) * m + b * m /\ Bound = Quota + a * m + (b - 1) * m
       /\ Bound \in Int /\ Bound >= Quota
  BY <1>1, <1>7, <1>8, <1>9
<1> QED BY <1>1, <1>2, <1>10 DEF a, b, m

LEMMA PotentialType ==
    ASSUME TypeOK
    PROVE  /\ SumFunctionOnSet(Reach(part, tr), Streams) \in Nat
           /\ SumFunctionOnSet(Whole(sv), Saves) \in Nat
           /\ final \in Nat
<1>1. Reach(part, tr) \in [Streams -> Nat] /\ Whole(sv) \in [Saves -> Nat]
  BY ReachType, SavedType DEF TypeOK
<1>2. NatsOn(Reach(part, tr), Streams) /\ NatsOn(Whole(sv), Saves)
  BY <1>1 DEF NatsOn
<1>3. IsFiniteSet(Streams) /\ IsFiniteSet(Saves) /\ final \in Nat
  BY QuotaAssumption DEF TypeOK
<1> QED BY <1>2, <1>3, SumNat

\* Saves grow by at most what may be sent, each.
LEMMA WholeBound ==
    ASSUME TypeOK
    PROVE  SumFunctionOnSet(Whole(sv), Saves) <= SavedSum(sv) + Cardinality(Saves) * Max(Sizes)
<1> DEFINE m == Max(Sizes)
<1>1. /\ Saved(sv) \in [Saves -> Nat] /\ Whole(sv) \in [Saves -> Nat]
      /\ \A s \in Saves : Whole(sv)[s] = 0 \/ Whole(sv)[s] \in Sizes
  BY SavedType DEF TypeOK
<1>2. m \in Nat /\ \A k \in Sizes : k <= m /\ k \in Nat
  BY MaxSize
<1> HIDE DEF m
<1>3. \A s \in Saves : Whole(sv)[s] <= Saved(sv)[s] + m
  BY <1>1, <1>2
<1>4. IntsOn(Saved(sv), Saves) /\ IntsOn(Whole(sv), Saves) /\ IsFiniteSet(Saves)
  BY <1>1, QuotaAssumption DEF IntsOn
<1>5. SumFunctionOnSet(Whole(sv), Saves) <= SavedSum(sv) + Cardinality(Saves) * m
  BY <1>2, <1>3, <1>4, SumBound DEF SavedSum
<1> QED BY <1>5 DEF m

LEMMA ReachBound ==
    ASSUME TypeOK
    PROVE  SumFunctionOnSet(Reach(part, tr), Streams)
             <= Rest(part, {}) + Cardinality(Streams) * Max(Sizes)
<1> DEFINE m == Max(Sizes)
           h == Reach(part, tr)
<1>1. part \in [Streams -> Nat] /\ tr \in [Streams -> Transfers \cup {None}]
  BY DEF TypeOK
<1>2. /\ h \in [Streams -> Nat]
      /\ \A t \in Streams :
           /\ tr[t] = None => h[t] = part[t]
           /\ tr[t] # None => /\ h[t] = IF tr[t].size <= part[t] THEN part[t] ELSE tr[t].size
                              /\ tr[t].size \in Sizes
  BY <1>1, ReachType
<1>3. m \in Nat /\ \A k \in Sizes : k <= m /\ k \in Nat
  BY MaxSize
<1> HIDE DEF m, h
<1>4. \A t \in Streams : h[t] = part[t] \/ h[t] \in Sizes
  BY <1>2
<1>5. \A t \in Streams : h[t] <= part[t] + m
  BY <1>1, <1>3, <1>4
<1>6. IntsOn(h, Streams) /\ IntsOn(part, Streams) /\ IsFiniteSet(Streams)
      /\ Streams \ {} = Streams
  BY <1>1, <1>2, QuotaAssumption DEF IntsOn
<1>7. SumFunctionOnSet(h, Streams) <= Rest(part, {}) + Cardinality(Streams) * m
  BY <1>3, <1>5, <1>6, SumBound DEF Rest
<1> QED BY <1>7 DEF m, h

\* A stream that is admitted, next to k others that may grow by what may be
\* sent.
LEMMA OvershootAdmitted ==
    ASSUME TypeOK, TransfersOK, OvershootOK, Quota > 0, NEW t \in Streams, NEW x, NEW n, NEW f,
           StreamStep(t, x, n, f), Admitted(t, x, n, f)
    PROVE  OvershootOK'
<1> DEFINE S == Streams \ {t}
           h == Reach(part', tr')
           m == Max(Sizes)
<1>1. /\ TypeOK' /\ tr'[t] = x /\ part'[t] = n
      /\ \A u \in S : tr'[u] = tr[u] /\ part'[u] = part[u]
  BY StreamType
<1>2. /\ n = part[t] /\ final' = final /\ sv' = sv /\ x # None
      /\ x.size <= Budget(t)
  BY DEF Admitted, StreamStep
<1>3. /\ part \in [Streams -> Nat] /\ tr \in [Streams -> Transfers \cup {None}]
      /\ part' \in [Streams -> Nat] /\ tr' \in [Streams -> Transfers \cup {None}]
      /\ sv \in [Saves -> Written \cup {None}] /\ final \in Nat
  BY <1>1 DEF TypeOK
<1>4. /\ h \in [Streams -> Nat] /\ Reach(part, tr) \in [Streams -> Nat]
      /\ \A u \in Streams :
           /\ h[u] = part'[u] \/ (tr'[u] # None /\ h[u] = tr'[u].size)
           /\ tr'[u] # None => tr'[u].size \in Sizes
      /\ h[t] = IF x.size <= part'[t] THEN part'[t] ELSE x.size
      /\ part[t] <= Reach(part, tr)[t]
  <2>1. /\ h \in [Streams -> Nat] /\ Reach(part, tr) \in [Streams -> Nat]
        /\ \A u \in Streams :
             /\ tr'[u] = None => h[u] = part'[u]
             /\ tr'[u] # None => /\ h[u] = IF tr'[u].size <= part'[u] THEN part'[u] ELSE tr'[u].size
                                 /\ tr'[u].size \in Sizes
        /\ part[t] <= Reach(part, tr)[t]
    BY <1>3, ReachType, Zenon
  <2> HIDE DEF h
  <2> QED BY <1>1, <1>2, <2>1
<1>5. /\ m \in Nat /\ \A k \in Sizes : k <= m /\ k \in Nat /\ k > 0
  BY MaxSize
<1> HIDE DEF h, m
<1>6. CASE x.size <= part[t]
  <2>1. /\ SumFunctionOnSet(h, Streams) =
             SumFunctionOnSet(Reach(part, tr), Streams) - Reach(part, tr)[t] + h[t]
        /\ SumFunctionOnSet(Reach(part, tr), Streams) \in Nat
    BY <1>1, <1>3, ReachChange DEF h
  <2>2. h[t] <= Reach(part, tr)[t] /\ h[t] \in Nat /\ Reach(part, tr)[t] \in Nat
    BY <1>1, <1>2, <1>4, <1>6
  <2>3. SumFunctionOnSet(h, Streams) <= SumFunctionOnSet(Reach(part, tr), Streams)
        /\ SumFunctionOnSet(h, Streams) \in Int
    BY <2>1, <2>2
  <2>4. /\ Potential(final, part, tr, sv) =
             final + SumFunctionOnSet(Reach(part, tr), Streams) + SumFunctionOnSet(Whole(sv), Saves)
        /\ Potential(final', part', tr', sv') =
             final + SumFunctionOnSet(h, Streams) + SumFunctionOnSet(Whole(sv), Saves)
    BY <1>2 DEF Potential, h
  <2>5. SumFunctionOnSet(Whole(sv), Saves) \in Nat /\ final \in Nat
    BY PotentialType
  <2>6. Potential(final, part, tr, sv) <= Bound /\ Bound \in Int
    BY BoundParts DEF OvershootOK, Bound
  <2>7. Potential(final', part', tr', sv') <= Bound
    BY <2>1, <2>3, <2>4, <2>5, <2>6
  <2> QED BY <2>7 DEF OvershootOK, Bound
<1>7. CASE ~(x.size <= part[t])
  <2>1. h[t] = x.size /\ x.size \in Nat /\ x.size > 0
    <3>1. x.size \in Sizes
      BY <1>1, <1>2, <1>4
    <3> QED BY <1>1, <1>2, <1>4, <1>5, <1>7, <3>1
  <2>2. IsFiniteSet(Streams) /\ IsFiniteSet(S) /\ Cardinality(S) = Cardinality(Streams) - 1
    <3>1. IsFiniteSet(Streams)
      BY QuotaAssumption
    <3> QED BY <3>1, FS_RemoveElement
  <2>3. IntsOn(h, Streams) /\ IntsOn(h, S) /\ IntsOn(part, S)
    BY <1>3, <1>4 DEF IntsOn
  <2>4. /\ SumFunctionOnSet(h, Streams) = x.size + SumFunctionOnSet(h, S)
        /\ SumFunctionOnSet(h, S) \in Int
    BY <2>1, <2>2, <2>3, SumRemove
  <2>5. \A u \in S : h[u] <= part[u] + m
    <3> SUFFICES ASSUME NEW u \in S PROVE h[u] <= part[u] + m
      OBVIOUS
    <3>1. part'[u] = part[u] /\ part[u] \in Nat
      BY <1>1, <1>3
    <3>2. h[u] = part[u] \/ (h[u] \in Nat /\ h[u] <= m)
      BY <1>4, <1>5, <3>1
    <3> QED BY <1>5, <3>1, <3>2
  <2>6. SumFunctionOnSet(h, S) <= Rest(part, {t}) + Cardinality(S) * m
    BY <1>5, <2>2, <2>3, <2>5, SumBound DEF Rest
  <2>7. SumFunctionOnSet(Whole(sv), Saves) <= SavedSum(sv) + Cardinality(Saves) * m
    BY WholeBound DEF m
  <2>8. /\ DirSize({t}) = final + Rest(part, {t}) + SavedSum(sv)
        /\ Rest(part, {t}) \in Nat /\ SavedSum(sv) \in Nat /\ DirSize({t}) \in Nat
    BY Size
  <2>9. Budget(t) \in Nat /\ (Budget(t) > 0 => Budget(t) = Quota - DirSize({t}))
    BY Budgets
  <2>10. x.size + DirSize({t}) <= Quota /\ Quota \in Nat
    <3>1. Quota \in Nat
      BY QuotaAssumption
    <3> QED BY <1>2, <2>1, <2>8, <2>9, <3>1
  <2>11. /\ Cardinality(Streams) \in Nat /\ Cardinality(Saves) \in Nat
         /\ Bound = Quota + (Cardinality(Streams) - 1) * m + Cardinality(Saves) * m
         /\ Bound \in Int
    BY BoundParts DEF m
  <2> DEFINE c == Cardinality(S) * m
             d == Cardinality(Saves) * m
  <2>12. Bound = Quota + c + d /\ c \in Int /\ d \in Int
    BY <1>5, <2>2, <2>11
  <2>13. Potential(final', part', tr', sv') =
           final + SumFunctionOnSet(h, Streams) + SumFunctionOnSet(Whole(sv), Saves)
    BY <1>2 DEF Potential, h
  <2>14. SumFunctionOnSet(Whole(sv), Saves) \in Nat /\ final \in Nat
    BY PotentialType
  <2>15. SumFunctionOnSet(h, S) <= Rest(part, {t}) + c
         /\ SumFunctionOnSet(Whole(sv), Saves) <= SavedSum(sv) + d
    BY <2>6, <2>7
  <2> HIDE DEF c, d
  <2>16. Potential(final', part', tr', sv') <= Bound
    BY <2>1, <2>4, <2>8, <2>10, <2>12, <2>13, <2>14, <2>15
  <2> QED BY <2>16 DEF OvershootOK, Bound
<1> QED BY <1>6, <1>7

\* The same when s is not saving: only the others may grow.
LEMMA WholeOthers ==
    ASSUME TypeOK, NEW s \in Saves, sv[s] = None
    PROVE  SumFunctionOnSet(Whole(sv), Saves) <= SavedSum(sv) + (Cardinality(Saves) - 1) * Max(Sizes)
<1> DEFINE m == Max(Sizes)
           S == Saves \ {s}
           g == Saved(sv)
           h == Whole(sv)
<1>1. /\ g \in [Saves -> Nat] /\ h \in [Saves -> Nat] /\ g[s] = 0 /\ h[s] = 0
      /\ \A u \in Saves : h[u] = 0 \/ h[u] \in Sizes
  BY SavedType DEF TypeOK
<1>2. m \in Nat /\ \A k \in Sizes : k <= m /\ k \in Nat
  BY MaxSize
<1> HIDE DEF m, g, h
<1>3. \A u \in S : h[u] <= g[u] + m
  BY <1>1, <1>2
<1>4. /\ IntsOn(g, Saves) /\ IntsOn(h, Saves) /\ IntsOn(g, S) /\ IntsOn(h, S)
  BY <1>1 DEF IntsOn
<1>5. IsFiniteSet(Saves) /\ IsFiniteSet(S) /\ Cardinality(S) = Cardinality(Saves) - 1
  <2>1. IsFiniteSet(Saves)
    BY QuotaAssumption
  <2> QED BY <2>1, FS_RemoveElement
<1>6. SumFunctionOnSet(h, S) <= SumFunctionOnSet(g, S) + Cardinality(S) * m
  BY <1>2, <1>3, <1>4, <1>5, SumBound
<1>7. /\ SumFunctionOnSet(g, Saves) = g[s] + SumFunctionOnSet(g, S)
      /\ SumFunctionOnSet(h, Saves) = h[s] + SumFunctionOnSet(h, S)
      /\ SumFunctionOnSet(g, S) \in Int /\ SumFunctionOnSet(h, S) \in Int
  BY <1>4, <1>5, SumRemove
<1>8. SumFunctionOnSet(h, Saves) <= SumFunctionOnSet(g, Saves) + (Cardinality(Saves) - 1) * m
  BY <1>1, <1>5, <1>6, <1>7
<1> QED BY <1>8 DEF m, g, h, SavedSum

LEMMA OvershootStream ==
    ASSUME TypeOK, TransfersOK, OvershootOK, Quota > 0, NEW t \in Streams, Stream(t)
    PROVE  OvershootOK'
<1>1. PICK x, n, f : /\ StreamStep(t, x, n, f)
                     /\ Admitted(t, x, n, f) \/ GoesOn(t, x, n, f) \/ Ends(t, x, n, f)
  BY StreamCases
<1>2. CASE Admitted(t, x, n, f)
  BY <1>1, <1>2, OvershootAdmitted
<1>3. CASE GoesOn(t, x, n, f) \/ Ends(t, x, n, f)
  <2> DEFINE g == Reach(part, tr)
             h == Reach(part', tr')
             a == SumFunctionOnSet(g, Streams)
             b == SumFunctionOnSet(h, Streams)
             c == SumFunctionOnSet(Whole(sv), Saves)
  <2>1. /\ TypeOK' /\ tr'[t] = x /\ part'[t] = n
        /\ \A u \in Streams \ {t} : tr'[u] = tr[u] /\ part'[u] = part[u]
    BY <1>1, StreamType
  <2>2. final' = f /\ sv' = sv /\ f \in Nat /\ n \in Nat
    BY <1>1 DEF StreamStep
  <2>3. /\ part \in [Streams -> Nat] /\ tr \in [Streams -> Transfers \cup {None}]
        /\ part' \in [Streams -> Nat] /\ tr' \in [Streams -> Transfers \cup {None}]
    BY <2>1 DEF TypeOK
  <2>4. b = a - g[t] + h[t]
    BY <2>1, <2>3, ReachChange
  <2>5. /\ g[t] \in Nat /\ h[t] \in Nat /\ part[t] \in Nat /\ part[t] <= g[t]
        /\ tr[t] # None => /\ g[t] = IF tr[t].size <= part[t] THEN part[t] ELSE tr[t].size
                           /\ tr[t].size \in Sizes
        /\ x = None => h[t] = n
        /\ x # None => h[t] = IF x.size <= n THEN n ELSE x.size
    <3>1. /\ g \in [Streams -> Nat] /\ h \in [Streams -> Nat] /\ part[t] <= g[t]
          /\ tr[t] # None => /\ g[t] = IF tr[t].size <= part[t] THEN part[t] ELSE tr[t].size
                             /\ tr[t].size \in Sizes
      BY <2>3, ReachType
    <3>2. /\ tr'[t] = None => h[t] = part'[t]
          /\ tr'[t] # None => h[t] = IF tr'[t].size <= part'[t] THEN part'[t] ELSE tr'[t].size
      BY <2>3, ReachType
    <3>3. part[t] \in Nat /\ g[t] \in Nat /\ h[t] \in Nat
      BY <2>3, <3>1
    <3> HIDE DEF g, h
    <3> QED BY <2>1, <3>1, <3>2, <3>3
  <2>6. a \in Nat /\ c \in Nat /\ final \in Nat
    BY PotentialType
  <2>7. final + a + c <= Bound /\ Bound \in Int
    BY BoundParts DEF OvershootOK, Bound, Potential
  <2> HIDE DEF a, b, c, g, h
  <2>8. f + h[t] <= final + g[t]
    <3>1. CASE GoesOn(t, x, n, f)
      <4>1. /\ tr[t] # None /\ x # None /\ x.size = tr[t].size /\ f = final
            /\ n <= x.size \/ n <= part[t]
        BY <3>1 DEF GoesOn
      <4>2. x.size \in Nat
        BY <2>5, <4>1, MaxSize
      <4>3. h[t] <= g[t]
        BY <2>2, <2>5, <4>1, <4>2
      <4> QED BY <2>5, <2>6, <4>1, <4>2, <4>3
    <3>2. CASE Ends(t, x, n, f)
      <4>1. x = None /\ f + n <= final + part[t]
        BY <3>2 DEF Ends
      <4> QED BY <2>2, <2>5, <2>6, <4>1
    <3> QED BY <1>3, <3>1, <3>2
  <2>9. f + b + c <= Bound
    BY <2>2, <2>4, <2>5, <2>6, <2>7, <2>8
  <2>10. Potential(final', part', tr', sv') = f + b + c
    BY <2>2 DEF Potential, b, c, h
  <2> QED BY <2>9, <2>10 DEF OvershootOK, Bound
<1> QED BY <1>1, <1>2, <1>3

LEMMA OvershootSave ==
    ASSUME TypeOK, TransfersOK, OvershootOK, Quota > 0, NEW s \in Saves, SaveFile(s)
    PROVE  OvershootOK'
<1>1. PICK y, f : /\ SaveStep(s, y, f)
                  /\ SaveAdmitted(s, y, f) \/ SaveGoesOn(s, y, f) \/ SaveEnds(s, y, f)
  BY SaveCases
<1> DEFINE g == Whole(sv)
           h == Whole(sv')
           a == SumFunctionOnSet(g, Saves)
           b == SumFunctionOnSet(h, Saves)
           c == SumFunctionOnSet(Reach(part, tr), Streams)
<1>2. /\ TypeOK' /\ sv'[s] = y /\ \A u \in Saves \ {s} : sv'[u] = sv[u]
  BY <1>1, SaveType
<1>3. final' = f /\ tr' = tr /\ part' = part /\ f \in Nat
  BY <1>1 DEF SaveStep
<1>4. /\ sv \in [Saves -> Written \cup {None}] /\ sv' \in [Saves -> Written \cup {None}]
  BY <1>2 DEF TypeOK
<1>5. b = a - g[s] + h[s]
  BY <1>2, <1>4, SavedChange
<1>6. /\ g \in [Saves -> Nat] /\ h \in [Saves -> Nat]
      /\ y = None => h[s] = 0
      /\ y # None => h[s] = y.size /\ y.size \in Sizes
      /\ sv[s] = None => g[s] = 0
      /\ sv[s] # None => g[s] = sv[s].size
  <2>1. /\ g \in [Saves -> Nat]
        /\ sv[s] = None => g[s] = 0
        /\ sv[s] # None => g[s] = sv[s].size
    BY <1>4, SavedType
  <2>2. /\ h \in [Saves -> Nat]
        /\ sv'[s] = None => h[s] = 0
        /\ sv'[s] # None => h[s] = sv'[s].size /\ sv'[s].size \in Sizes
    BY <1>4, SavedType
  <2> HIDE DEF g, h
  <2> QED BY <1>2, <2>1, <2>2
<1>7. a \in Nat /\ c \in Nat /\ final \in Nat
  BY PotentialType
<1>8. final + c + a <= Bound /\ Bound \in Int
  BY BoundParts DEF OvershootOK, Bound, Potential
<1>9. Potential(final', part', tr', sv') = f + c + b
  BY <1>3 DEF Potential
<1>10. SUFFICES f + c + b <= Bound
  BY <1>9 DEF OvershootOK, Bound
<1>11. g[s] \in Nat /\ h[s] \in Nat
  BY <1>6
<1>12. CASE SaveGoesOn(s, y, f) \/ SaveEnds(s, y, f)
  <2> HIDE DEF a, b, c, g, h
  <2>1. f + h[s] <= final + g[s]
    <3>1. CASE SaveGoesOn(s, y, f)
      <4>1. h[s] = g[s] /\ f = final
        BY <1>6, <3>1 DEF SaveGoesOn
      <4> QED BY <1>3, <1>7, <1>11, <4>1
    <3>2. CASE SaveEnds(s, y, f)
      <4>1. /\ h[s] = 0 /\ f <= final + sv[s].written /\ g[s] = sv[s].size
            /\ sv[s].written <= sv[s].size
        BY <1>6, <3>2 DEF SaveEnds, TransfersOK
      <4>2. sv[s].written \in Nat
        <5>1. sv[s] \in Written
          BY <1>4, <3>2 DEF SaveEnds
        <5> QED BY <5>1 DEF Written
      <4> QED BY <1>3, <1>7, <1>11, <4>1, <4>2
    <3> QED BY <1>12, <3>1, <3>2
  <2> QED BY <1>3, <1>5, <1>7, <1>8, <1>11, <2>1
<1>13. CASE SaveAdmitted(s, y, f)
  <2> DEFINE m == Max(Sizes)
  <2>1. y # None /\ f = final /\ DirTotal + y.size <= Quota /\ sv[s] = None
    BY <1>13 DEF SaveAdmitted
  <2>2. y.size \in Nat /\ h[s] = y.size /\ g[s] = 0
    BY <1>6, <2>1, MaxSize
  <2>3. /\ DirTotal = final + Rest(part, {}) + SavedSum(sv)
        /\ Rest(part, {}) \in Nat /\ SavedSum(sv) \in Nat
    BY Size DEF DirTotal
  <2>4. c <= Rest(part, {}) + Cardinality(Streams) * m
    BY ReachBound
  <2>5. a <= SavedSum(sv) + (Cardinality(Saves) - 1) * m
    BY <2>1, WholeOthers
  <2>6. /\ Cardinality(Streams) \in Nat /\ Cardinality(Saves) \in Nat /\ Quota \in Nat
        /\ Bound = Quota + Cardinality(Streams) * m + (Cardinality(Saves) - 1) * m
    BY BoundParts
  <2>7. m \in Nat
    BY MaxSize
  <2> DEFINE k == Cardinality(Streams) * m
             l == (Cardinality(Saves) - 1) * m
  <2>8. k \in Int /\ l \in Int
    <3> HIDE DEF m
    <3> QED BY <2>6, <2>7
  <2>9. c <= Rest(part, {}) + k /\ a <= SavedSum(sv) + l /\ Bound = Quota + k + l
    BY <2>4, <2>5, <2>6
  <2> HIDE DEF a, b, c, g, h, k, l
  <2>10. b = a + y.size
    BY <1>5, <1>7, <2>2
  <2>11. final + Rest(part, {}) + SavedSum(sv) + y.size <= Quota
    BY <2>1, <2>3
  <2>12. c + b <= Rest(part, {}) + SavedSum(sv) + y.size + k + l
    BY <1>7, <2>2, <2>3, <2>8, <2>9, <2>10
  <2>13. final + c + b <= Quota + k + l
    BY <1>7, <2>2, <2>3, <2>6, <2>8, <2>10, <2>11, <2>12
  <2> QED BY <2>1, <2>9, <2>13
<1> QED BY <1>1, <1>12, <1>13

LEMMA OvershootElse ==
    ASSUME TypeOK, OvershootOK, Quota > 0, Remove \/ OtherUse
    PROVE  OvershootOK'
<1> DEFINE a == SumFunctionOnSet(Reach(part, tr), Streams)
           b == SumFunctionOnSet(Whole(sv), Saves)
<1>1. TypeOK' /\ part' = part /\ tr' = tr /\ sv' = sv /\ final' <= final
  BY ElseStep, Zenon
<1>2. a \in Nat /\ b \in Nat /\ final \in Nat
  BY PotentialType
<1>3. final' \in Nat
  BY <1>1 DEF TypeOK
<1>4. final + a + b <= Bound /\ Bound \in Int
  BY BoundParts DEF OvershootOK, Bound, Potential
<1>5. Potential(final', part', tr', sv') = final' + a + b
  BY <1>1 DEF Potential
<1> HIDE DEF a, b
<1>6. final' <= final
  BY <1>1
<1>7. ASSUME NEW i \in Nat, NEW j \in Nat, i <= j, j + a + b <= Bound PROVE i + a + b <= Bound
  BY <1>2, <1>4, <1>7
<1>8. final' + a + b <= Bound
  BY <1>2, <1>3, <1>4, <1>6, <1>7, Zenon
<1> QED BY <1>5, <1>8 DEF OvershootOK, Bound

LEMMA ZeroSum ==
    ASSUME NEW S, IsFiniteSet(S), NEW f, \A i \in S : f[i] = 0
    PROVE  SumFunctionOnSet(f, S) = 0
<1>1. IntsOn(f, S) /\ {} \in SUBSET S
  BY DEF IntsOn
<1>2. SumFunctionOnSet(f, S) = SumFunctionOnSet(f, {})
  BY <1>1, SumZeros
<1> QED BY <1>2, SumEmpty

-----------------------------------------------------------------------------
(* The invariant, and what follows *)

LEMMA InitOK == Init => QuotaInv
<1> SUFFICES ASSUME Init PROVE QuotaInv
  OBVIOUS
<1>1. TypeOK
  BY Zenon DEF Init, TypeOK
<1>2. TransfersOK
  <2>1. Max(Sizes) \in Nat
    BY MaxSize
  <2> DEFINE m == Max(Sizes)
  <2>2. m \in Nat
    BY <2>1
  <2> HIDE DEF m
  <2>3. \A t \in Streams : part[t] <= m
    BY <2>2 DEF Init
  <2> QED BY <2>3 DEF Init, TransfersOK, m
<1>3. AloneOK
  BY DEF Init, AloneOK
<1>4. OvershootOK
  <2>1. \A t \in Streams : Reach(part, tr)[t] = 0
    BY DEF Reach, Init
  <2>2. \A s \in Saves : Whole(sv)[s] = 0
    BY DEF Whole, Init
  <2> DEFINE a == SumFunctionOnSet(Reach(part, tr), Streams)
             b == SumFunctionOnSet(Whole(sv), Saves)
  <2>3. a = 0
    BY <2>1, ZeroSum, QuotaAssumption
  <2>4. b = 0
    BY <2>2, ZeroSum, QuotaAssumption
  <2>5. final = 0 /\ Bound \in Int /\ Bound >= Quota /\ Quota \in Nat
    BY BoundParts DEF Init
  <2>6. Potential(final, part, tr, sv) = final + a + b
    BY DEF Potential
  <2> HIDE DEF a, b
  <2>7. final + a + b <= Bound
    BY <2>3, <2>4, <2>5
  <2> QED BY <2>6, <2>7 DEF OvershootOK, Bound
<1> QED BY <1>1, <1>2, <1>3, <1>4 DEF QuotaInv

LEMMA NextOK == QuotaInv /\ [Next]_vars => QuotaInv'
<1> SUFFICES ASSUME QuotaInv, [Next]_vars PROVE QuotaInv'
  OBVIOUS
<1>1. TypeOK /\ TransfersOK /\ AloneOK /\ OvershootOK
  BY DEF QuotaInv
<1>2. CASE UNCHANGED vars
  <2>1. TypeOK'
    BY <1>1, <1>2 DEF TypeOK, vars
  <2>2. TransfersOK'
    BY <1>1, <1>2 DEF TransfersOK, vars
  <2>3. AloneOK'
    <3>1. /\ part' = part /\ tr' = tr /\ sv' = sv /\ final' = final /\ other' = other
          /\ overlap' = overlap
      BY <1>2 DEF vars
    <3>2. Saving' = Saving
      BY <3>1 DEF Saving
    <3>3. \A own : DirSize(own)' = DirSize(own)
      BY <3>1, <3>2 DEF DirSize
    <3>4. DirTotal' = DirTotal /\ Free' = Free
      BY <3>1, <3>3 DEF DirTotal, Free
    <3>5. \A z : Busy(z)' <=> Busy(z)
      BY <3>1, <3>2 DEF Busy
    <3>6. \A t \in Streams : StreamAlone(t)' <=> StreamAlone(t)
      BY <3>1, <3>3, <3>4, <3>5 DEF StreamAlone
    <3>7. \A s \in Saves : SaveAlone(s)' <=> SaveAlone(s)
      BY <3>1, <3>4, <3>5 DEF SaveAlone
    <3> QED BY <1>1, <3>1, <3>6, <3>7, AloneDef
  <2>4. OvershootOK'
    BY <1>1, <1>2 DEF OvershootOK, vars
  <2> QED BY <2>1, <2>2, <2>3, <2>4 DEF QuotaInv
<1>3. ASSUME NEW t \in Streams, Stream(t) PROVE QuotaInv'
  <2>1. TypeOK'
    <3>1. PICK x, n, f : /\ StreamStep(t, x, n, f)
                         /\ Admitted(t, x, n, f) \/ GoesOn(t, x, n, f) \/ Ends(t, x, n, f)
      BY <1>1, <1>3, StreamCases
    <3> QED BY <1>1, <3>1, StreamType
  <2>2. TransfersOK'
    BY <1>1, <1>3, TransfersStep DEF Next
  <2>3. AloneOK'
    BY <1>1, <1>3, AloneStream
  <2>4. OvershootOK'
    BY <1>1, <1>3, OvershootStream DEF OvershootOK
  <2> QED BY <2>1, <2>2, <2>3, <2>4 DEF QuotaInv
<1>4. ASSUME NEW s \in Saves, SaveFile(s) PROVE QuotaInv'
  <2>1. TypeOK'
    <3>1. PICK y, f : /\ SaveStep(s, y, f)
                      /\ SaveAdmitted(s, y, f) \/ SaveGoesOn(s, y, f) \/ SaveEnds(s, y, f)
      BY <1>1, <1>4, SaveCases
    <3> QED BY <1>1, <3>1, SaveType
  <2>2. TransfersOK'
    BY <1>1, <1>4, TransfersStep DEF Next
  <2>3. AloneOK'
    BY <1>1, <1>4, AloneSave
  <2>4. OvershootOK'
    BY <1>1, <1>4, OvershootSave DEF OvershootOK
  <2> QED BY <2>1, <2>2, <2>3, <2>4 DEF QuotaInv
<1>5. CASE Remove \/ OtherUse
  <2>1. TypeOK'
    BY <1>1, <1>5, ElseStep, Zenon
  <2>2. TransfersOK'
    BY <1>1, <1>5, TransfersStep DEF Next
  <2>3. AloneOK'
    BY <1>1, <1>5, AloneElse
  <2>4. OvershootOK'
    BY <1>1, <1>5, OvershootElse DEF OvershootOK
  <2> QED BY <2>1, <2>2, <2>3, <2>4 DEF QuotaInv
<1> QED BY <1>2, <1>3, <1>4, <1>5 DEF Next

\* The directory holds no more than what was promised to the transfers.
LEMMA WithinPotential ==
    ASSUME TypeOK, TransfersOK
    PROVE  DirTotal <= Potential(final, part, tr, sv) /\ DirTotal \in Nat
           /\ Potential(final, part, tr, sv) \in Nat
<1> DEFINE g == Reach(part, tr)
           h == Whole(sv)
           v == Saved(sv)
<1>1. /\ part \in [Streams -> Nat] /\ tr \in [Streams -> Transfers \cup {None}]
      /\ sv \in [Saves -> Written \cup {None}]
  BY DEF TypeOK
<1>2. g \in [Streams -> Nat] /\ \A t \in Streams : part[t] <= g[t]
  BY <1>1, ReachType
<1>3. /\ v \in [Saves -> Nat] /\ h \in [Saves -> Nat]
      /\ \A s \in Saves : v[s] <= h[s]
  <2>1. /\ v \in [Saves -> Nat] /\ h \in [Saves -> Nat]
        /\ \A s \in Saves :
             /\ sv[s] = None => v[s] = 0 /\ h[s] = 0
             /\ sv[s] # None => v[s] = sv[s].written /\ h[s] = sv[s].size
    BY <1>1, SavedType
  <2>2. \A s \in Saves : sv[s] # None => sv[s].written <= sv[s].size
    BY DEF TransfersOK
  <2> HIDE DEF v, h
  <2> QED BY <2>1, <2>2
<1>4. IsFiniteSet(Streams) /\ IsFiniteSet(Saves)
  BY QuotaAssumption
<1>5. Cardinality(Streams) \in Nat /\ Cardinality(Saves) \in Nat
  BY BoundParts
<1> HIDE DEF g, h, v
<1>6. IntsOn(part, Streams) /\ IntsOn(g, Streams) /\ IntsOn(v, Saves) /\ IntsOn(h, Saves)
  BY <1>1, <1>2, <1>3 DEF IntsOn
<1>7. /\ \A t \in Streams : part[t] <= g[t] + 0
      /\ \A s \in Saves : v[s] <= h[s] + 0
  BY <1>1, <1>2, <1>3
<1>8. /\ SumFunctionOnSet(part, Streams) <= SumFunctionOnSet(g, Streams) + Cardinality(Streams) * 0
  BY <1>4, <1>6, <1>7, SumBound
<1>9. SumFunctionOnSet(v, Saves) <= SumFunctionOnSet(h, Saves) + Cardinality(Saves) * 0
  BY <1>4, <1>6, <1>7, SumBound
<1>10. /\ DirTotal = final + SumFunctionOnSet(part, Streams) + SumFunctionOnSet(v, Saves)
       /\ SumFunctionOnSet(part, Streams) \in Nat /\ SumFunctionOnSet(v, Saves) \in Nat
  <2>1. Streams \ {} = Streams
    OBVIOUS
  <2> QED BY <2>1, Size, Zenon DEF DirTotal, Rest, SavedSum, v
<1>11. /\ Potential(final, part, tr, sv) = final + SumFunctionOnSet(g, Streams) + SumFunctionOnSet(h, Saves)
       /\ SumFunctionOnSet(g, Streams) \in Nat /\ SumFunctionOnSet(h, Saves) \in Nat
       /\ final \in Nat
  BY PotentialType DEF Potential, g, h
<1> QED BY <1>5, <1>8, <1>9, <1>10, <1>11

\* Every check, write, failure and removal keeps the invariant: budgets cover
\* what is left, and the directory's potential stays within its bound.
THEOREM Invariance == Spec => []QuotaInv
<1>1. Init => QuotaInv
  BY InitOK
<1>2. QuotaInv /\ [Next]_vars => QuotaInv'
  BY NextOK
<1> QED BY <1>1, <1>2, PTL DEF Spec

\* Lengths, sizes and budgets have their types, for any number of streams and
\* saves, any sizes and any quota.
THEOREM TypeCorrect == Spec => []TypeOK
<1>1. QuotaInv => TypeOK
  BY DEF QuotaInv
<1> QED BY <1>1, Invariance, PTL

\* admit's budget covers what is left of the transfer, but for the bytes of
\* the writes that failed: writeAt does not refuse for the quota what admit
\* let in.
THEOREM BudgetsSuffice == Spec => []BudgetSuffices
<1>1. QuotaInv => BudgetSuffices
  BY DEF QuotaInv, TransfersOK, BudgetSuffices, Active
<1> QED BY <1>1, Invariance, PTL

\* What admit let in while nothing else was received fits on the disk to its
\* end, with diskReserveBytes to spare.
THEOREM ReserveIsKept == Spec => []ReserveKept
<1>1. QuotaInv => ReserveKept
  BY Zenon DEF QuotaInv, AloneOK, ReserveKept
<1> QED BY <1>1, Invariance, PTL

\* However many transfers and saves check the quota before the others have
\* written, and however often they fail and resume, the directory exceeds the
\* quota by less than one file for each other sender.
THEOREM OvershootIsBounded == Spec => []OvershootBounded
<1>1. QuotaInv => OvershootBounded
  <2> SUFFICES ASSUME QuotaInv, Quota > 0 PROVE DirTotal <= Bound
    BY DEF OvershootBounded, Bound
  <2>1. DirTotal <= Potential(final, part, tr, sv) /\ DirTotal \in Nat
        /\ Potential(final, part, tr, sv) \in Nat
    BY WithinPotential DEF QuotaInv
  <2>2. Potential(final, part, tr, sv) <= Bound /\ Bound \in Int
    BY BoundParts DEF QuotaInv, OvershootOK, Bound
  <2> QED BY <2>1, <2>2
<1> QED BY <1>1, Invariance, PTL

\* A step that grows the directory without anything else being received, and
\* without a check made while something was, leaves it within the quota.
LEMMA GrowsWithinQuota ==
    ASSUME QuotaInv, QuotaInv', [Next]_vars, Quota > 0, ~overlap', DirTotal' > DirTotal
    PROVE  DirTotal' <= Quota
<1>1. TypeOK /\ TransfersOK /\ AloneOK /\ TypeOK' /\ TransfersOK' /\ AloneOK'
  BY DEF QuotaInv
<1>2. DirTotal \in Nat /\ DirTotal' \in Int /\ Quota \in Nat
  <2>1. /\ DirTotal = final + Rest(part, {}) + SavedSum(sv)
        /\ Rest(part, {}) \in Nat /\ SavedSum(sv) \in Nat
    BY <1>1, Size DEF DirTotal
  <2>2. DirTotal' = final' + Rest(part', {}) + SavedSum(sv')
    BY <1>1, SizeNext DEF DirTotal
  <2>3. part' \in [Streams -> Nat] /\ sv' \in [Saves -> Written \cup {None}]
        /\ final \in Nat /\ final' \in Nat
    BY <1>1 DEF TypeOK
  <2>4. Rest(part', {}) \in Nat /\ SavedSum(sv') \in Nat
    BY <2>3, Sums, Zenon
  <2>5. Quota \in Nat
    BY QuotaAssumption
  <2> QED BY <2>1, <2>2, <2>3, <2>4, <2>5
<1>3. ASSUME NEW t \in Streams, Stream(t) PROVE DirTotal' <= Quota
  <2>1. PICK x, n, f : /\ StreamStep(t, x, n, f)
                       /\ Admitted(t, x, n, f) \/ GoesOn(t, x, n, f) \/ Ends(t, x, n, f)
    BY <1>1, <1>3, StreamCases
  <2>2. /\ tr'[t] = x /\ part'[t] = n
        /\ \A u \in Streams \ {t} : part'[u] = part[u]
    BY <1>1, <2>1, StreamType, Zenon
  <2>3. sv' = sv /\ final' = f /\ f \in Nat /\ n \in Nat
    BY <2>1 DEF StreamStep
  <2>4. /\ DirSize({t})' = DirSize({t}) - final + final'
        /\ DirTotal' = DirTotal - final + final' - part[t] + part'[t]
        /\ DirTotal = DirSize({t}) + part[t]
        /\ DirSize({t}) \in Nat
    BY <1>1, <2>2, <2>3, StreamSize
  <2>5. part[t] \in Nat /\ final \in Nat
    BY <1>1 DEF TypeOK
  <2>6. CASE GoesOn(t, x, n, f)
    <3>1. /\ f = final /\ x # None /\ x.size = tr[t].size /\ tr[t] # None
          /\ overlap' = overlap /\ (n <= x.size \/ n <= part[t])
      BY <2>6 DEF GoesOn
    <3>2. DirSize({t}) + tr[t].size <= Quota
      BY <1>1, <3>1 DEF AloneOK
    <3>3. x.size \in Nat
      <4>1. x.size \in Sizes
        BY <2>1, <3>1 DEF StreamStep, Transfers
      <4> QED BY <4>1, MaxSize
    <3> QED BY <1>2, <2>2, <2>3, <2>4, <2>5, <3>1, <3>2, <3>3
  <2>7. CASE Admitted(t, x, n, f) \/ Ends(t, x, n, f)
    <3>1. f + n <= final + part[t]
      BY <2>3, <2>5, <2>7 DEF Admitted, Ends
    <3> QED BY <1>2, <2>2, <2>3, <2>4, <2>5, <3>1
  <2> QED BY <2>1, <2>6, <2>7
<1>4. ASSUME NEW s \in Saves, SaveFile(s) PROVE DirTotal' <= Quota
  <2>1. PICK y, f : /\ SaveStep(s, y, f)
                    /\ SaveAdmitted(s, y, f) \/ SaveGoesOn(s, y, f) \/ SaveEnds(s, y, f)
    BY <1>1, <1>4, SaveCases
  <2>2. sv'[s] = y /\ \A u \in Saves \ {s} : sv'[u] = sv[u]
    BY <1>1, <2>1, SaveType
  <2>3. /\ DirTotal' = DirTotal - final + f - Saved(sv)[s] + Saved(sv')[s]
        /\ final \in Nat /\ f \in Nat /\ Saved(sv)[s] \in Nat /\ Saved(sv')[s] \in Nat
    BY <1>1, <2>1, <2>2, SaveSize
  <2>4. /\ sv[s] = None => Saved(sv)[s] = 0
        /\ sv[s] # None => Saved(sv)[s] = sv[s].written
        /\ y = None => Saved(sv')[s] = 0
        /\ y # None => Saved(sv')[s] = y.written
    BY <2>2 DEF Saved
  <2> DEFINE a == Saved(sv)[s]
             b == Saved(sv')[s]
  <2>5. CASE SaveGoesOn(s, y, f)
    <3>1. f = final /\ b = a + 1 /\ b <= y.size /\ y.size = sv[s].size
          /\ DirTotal + sv[s].size - a <= Quota
      <4>1. f = final /\ y # None /\ sv[s] # None /\ y.written = sv[s].written + 1
            /\ y.written <= y.size /\ y.size = sv[s].size /\ overlap' = overlap
        BY <2>5 DEF SaveGoesOn
      <4>2. DirTotal + sv[s].size - sv[s].written <= Quota
        BY <1>1, <4>1, Zenon DEF AloneOK
      <4> QED BY <2>4, <4>1, <4>2
    <3>2. y.size \in Nat
      <4>1. y.size \in Sizes
        BY <2>1, <2>5 DEF SaveStep, SaveGoesOn, Written
      <4> QED BY <4>1, MaxSize
    <3> HIDE DEF a, b
    <3>3. DirTotal' = DirTotal - final + f - a + b /\ a \in Nat /\ b \in Nat
      BY <2>3 DEF a, b
    <3> QED BY <1>2, <2>3, <3>1, <3>2, <3>3
  <2>6. CASE SaveAdmitted(s, y, f) \/ SaveEnds(s, y, f)
    <3>1. f + b <= final + a
      <4>1. CASE SaveAdmitted(s, y, f)
        <5>1. f = final /\ b = 0 /\ a = 0
          BY <2>4, <4>1 DEF SaveAdmitted
        <5> QED BY <2>3, <5>1
      <4>2. CASE SaveEnds(s, y, f)
        <5>1. f <= final + a /\ b = 0
          BY <2>4, <4>2 DEF SaveEnds
        <5> QED BY <2>3, <5>1
      <4> QED BY <2>6, <4>1, <4>2
    <3>2. DirTotal' = DirTotal - final + f - a + b /\ a \in Nat /\ b \in Nat
      BY <2>3
    <3> HIDE DEF a, b
    <3> QED BY <1>2, <2>3, <3>1, <3>2
  <2> QED BY <2>1, <2>5, <2>6
<1>5. CASE (Remove \/ OtherUse) \/ UNCHANGED vars
  <2>1. part' = part /\ sv' = sv /\ final' <= final
    <3>1. CASE UNCHANGED vars
      <4>1. final \in Nat
        BY <1>1 DEF TypeOK
      <4> QED BY <3>1, <4>1 DEF vars
    <3> QED BY <1>1, <1>5, <3>1, ElseStep, Zenon
  <2>2. /\ DirTotal = final + Rest(part, {}) + SavedSum(sv)
        /\ Rest(part, {}) \in Nat /\ SavedSum(sv) \in Nat
    BY <1>1, Size DEF DirTotal
  <2>3. DirTotal' = final' + Rest(part, {}) + SavedSum(sv)
    BY <1>1, <2>1, SizeNext DEF DirTotal
  <2>4. final \in Nat /\ final' \in Nat /\ final' <= final
    BY <1>1, <2>1 DEF TypeOK
  <2>5. ~(DirTotal' > DirTotal)
    BY <2>2, <2>3, <2>4
  <2> QED BY <2>5
<1> QED BY <1>3, <1>4, <1>5 DEF Next

\* With one file received at a time, no block that writeAt or os.WriteFile
\* writes takes the directory above ReceivedMaxBytes, retained .partial files
\* and resumed bytes included.
THEOREM QuotaHoldsAlone == Spec => QuotaWhenAlone
<1>1. QuotaInv /\ QuotaInv' /\ [Next]_vars =>
        [ Quota > 0 /\ ~overlap' /\ DirTotal' > DirTotal => DirTotal' <= Quota ]_vars
  BY GrowsWithinQuota
<1> QED BY <1>1, Invariance, PTL DEF Spec, QuotaWhenAlone
=============================================================================
