----------------------------- MODULE SumProofs -----------------------------
(***************************************************************************)
(* Sums over finite sets, as SumFunction computes them.  The library's     *)
(* fold picks the elements in an order of its own; these lemmas say that   *)
(* the order does not matter.                                              *)
(***************************************************************************)
EXTENDS Integers, FiniteSets, Functions, FiniteSetTheorems, TLAPS

-----------------------------------------------------------------------------
(* Induction, over numbers and over finite sets *)

LEMMA NumberInduction ==
    ASSUME NEW N, 0 \in N, \A n \in Nat : n \in N => n + 1 \in N
    PROVE  Nat \subseteq N
<1> DEFINE T == Nat \ N
<1>1. SUFFICES ASSUME T # {} PROVE FALSE
  OBVIOUS
<1> HIDE DEF T
<1>2. IsWellFoundedOn(OpToRel(<, Nat), Nat)
  BY NatLessThanWellFounded
<1>3. T \subseteq Nat
  BY DEF T
<1>4. PICK x \in T : \A y \in T : ~(<<y, x>> \in OpToRel(<, Nat))
  BY <1>1, <1>2, <1>3, WFMin
<1>5. \A y \in T : ~(y < x)
  BY <1>3, <1>4 DEF OpToRel
<1>6. x \in Nat /\ x \notin N
  BY DEF T
<1>7. x # 0 /\ x - 1 \in Nat /\ x - 1 < x
  BY <1>6
<1>8. x - 1 \in N
  BY <1>5, <1>7 DEF T
<1> QED BY <1>6, <1>7, <1>8

\* A property of sets (those in Q) that holds of the empty set, and of every
\* subset of S if it holds of the set less any element, holds of all subsets.
LEMMA FiniteInduction ==
    ASSUME NEW S, IsFiniteSet(S), NEW Q, {} \in Q,
           \A T \in SUBSET S : T # {} /\ (\A x \in T : T \ {x} \in Q) => T \in Q
    PROVE  SUBSET S \subseteq Q
<1> DEFINE N == {n \in Nat : \A T \in SUBSET S : Cardinality(T) = n => T \in Q}
<1>1. \A T \in SUBSET S : IsFiniteSet(T) /\ Cardinality(T) \in Nat
  BY FS_Subset, FS_CardinalityType
<1>2. 0 \in N
  BY <1>1, FS_EmptySet
<1>3. ASSUME NEW n \in Nat, n \in N PROVE n + 1 \in N
  <2> SUFFICES ASSUME NEW T \in SUBSET S, Cardinality(T) = n + 1 PROVE T \in Q
    OBVIOUS
  <2>1. T # {}
    <3>1. Cardinality({}) = 0 /\ n + 1 # 0
      BY FS_EmptySet
    <3> QED BY <3>1
  <2>2. ASSUME NEW x \in T PROVE T \ {x} \in Q
    <3>1. IsFiniteSet(T)
      BY <1>1
    <3>2. Cardinality(T \ {x}) = Cardinality(T) - 1
      BY <3>1, FS_RemoveElement
    <3>3. Cardinality(T \ {x}) = n
      BY <3>2
    <3> QED BY <1>3, <3>3
  <2> QED BY <2>1, <2>2
<1> HIDE DEF N
<1>4. Nat \subseteq N
  BY <1>2, <1>3, NumberInduction
<1> QED BY <1>1, <1>4 DEF N

\* A finite set of numbers has a greatest one.
LEMMA FiniteMax ==
    ASSUME NEW S \in SUBSET Int, IsFiniteSet(S), S # {}
    PROVE  \E x \in S : \A y \in S : x >= y
<1> DEFINE Q == {s \in SUBSET S : s # {} => \E x \in s : \A y \in s : x >= y}
<1>1. {} \in Q
  OBVIOUS
<1>2. ASSUME NEW s \in SUBSET S, s # {}, \A x \in s : s \ {x} \in Q
      PROVE  s \in Q
  <2>1. PICK z \in s : TRUE
    BY <1>2
  <2>2. CASE s \ {z} = {}
    BY <2>1, <2>2
  <2>3. CASE s \ {z} # {}
    <3>1. PICK x \in s \ {z} : \A y \in s \ {z} : x >= y
      BY <1>2, <2>1, <2>3
    <3>2. CASE x >= z
      BY <3>1, <3>2
    <3>3. CASE ~(x >= z)
      <4>1. \A y \in s \ {z} : z >= y
        BY <3>1, <3>3
      <4> QED BY <2>1, <4>1
    <3> QED BY <3>2, <3>3
  <2> QED BY <2>2, <2>3
<1> HIDE DEF Q
<1>3. SUBSET S \subseteq Q
  BY <1>1, <1>2, FiniteInduction
<1> QED BY <1>3 DEF Q

-----------------------------------------------------------------------------
(* The fold *)

Pick(s) == CHOOSE x \in s : TRUE

\* g sums f over every set in D, taking elements as the library does.
Adds(f, D, g) ==
    g = [s \in D |-> IF s = {} THEN 0 ELSE f[Pick(s)] + g[s \ {Pick(s)}]]

Fold(f, S) == CHOOSE g : Adds(f, SUBSET S, g)

LEMMA FoldDef ==
    ASSUME NEW f, NEW S
    PROVE  SumFunctionOnSet(f, S) = Fold(f, S)[S]
  BY DEF SumFunctionOnSet, FoldFunctionOnSet, MapThenFoldSet, Fold, Adds, Pick

LEMMA Picked == ASSUME NEW s, s # {} PROVE Pick(s) \in s
  BY DEF Pick

\* The recursion has a solution.
LEMMA FoldAdds ==
    ASSUME NEW f, NEW S, IsFiniteSet(S)
    PROVE  Adds(f, SUBSET S, Fold(f, S))
<1> DEFINE Sub(n) == {s \in SUBSET S : Cardinality(s) <= n}
           N == {n \in Nat : \E g : Adds(f, Sub(n), g)}
<1>1. \A s \in SUBSET S : IsFiniteSet(s) /\ Cardinality(s) \in Nat
  BY FS_Subset, FS_CardinalityType
<1>2. 0 \in N
  <2>1. \A s \in Sub(0) : s = {}
    <3>1. \A s \in Sub(0) : IsFiniteSet(s) /\ Cardinality(s) = 0
      BY <1>1
    <3> QED BY <3>1, FS_EmptySet
  <2>2. Adds(f, Sub(0), [s \in Sub(0) |-> 0])
    BY <2>1 DEF Adds
  <2> QED BY <2>2
<1>3. ASSUME NEW n \in Nat, n \in N PROVE n + 1 \in N
  <2>1. PICK g : Adds(f, Sub(n), g)
    BY <1>3
  <2> DEFINE h == [s \in Sub(n + 1) |->
                     IF s = {} THEN 0 ELSE f[Pick(s)] + g[s \ {Pick(s)}]]
  <2>2. \A s \in Sub(n) : s \in Sub(n + 1)
    BY <1>1
  <2>3. ASSUME NEW s \in Sub(n + 1), s # {} PROVE s \ {Pick(s)} \in Sub(n)
    <3>1. Cardinality(s \ {Pick(s)}) = Cardinality(s) - 1
      BY <1>1, <2>3, Picked, FS_RemoveElement
    <3>2. Cardinality(s) \in Nat /\ Cardinality(s) <= n + 1
      BY <1>1
    <3> QED BY <3>1, <3>2
  <2> HIDE DEF Sub
  <2>4. \A s \in Sub(n) : h[s] = g[s]
    BY <2>1, <2>2 DEF Adds
  <2>5. h = [s \in Sub(n + 1) |-> IF s = {} THEN 0 ELSE f[Pick(s)] + h[s \ {Pick(s)}]]
    BY <2>3, <2>4
  <2>6. Adds(f, Sub(n + 1), h)
    BY <2>5 DEF Adds
  <2> QED BY <2>6
<1>4. Sub(Cardinality(S)) = SUBSET S
  BY FS_Subset
<1> HIDE DEF N
<1>5. Nat \subseteq N
  BY <1>2, <1>3, NumberInduction
<1>6. Cardinality(S) \in N
  BY <1>1, <1>5
<1>7. \E g : Adds(f, SUBSET S, g)
  BY <1>4, <1>6 DEF N
<1> QED BY <1>7 DEF Fold

\* The fold over a subset is the same.
LEMMA FoldSubset ==
    ASSUME NEW f, NEW S, IsFiniteSet(S), NEW T \in SUBSET S
    PROVE  SumFunctionOnSet(f, T) = Fold(f, S)[T]
<1> DEFINE g == Fold(f, S)
           h == Fold(f, T)
           Q == {s \in SUBSET T : g[s] = h[s]}
<1>1. IsFiniteSet(T)
  BY FS_Subset
<1>2. Adds(f, SUBSET S, g) /\ Adds(f, SUBSET T, h)
  BY <1>1, FoldAdds
<1> HIDE DEF g, h
<1>3. \A s \in SUBSET T :
        /\ g[s] = IF s = {} THEN 0 ELSE f[Pick(s)] + g[s \ {Pick(s)}]
        /\ h[s] = IF s = {} THEN 0 ELSE f[Pick(s)] + h[s \ {Pick(s)}]
  BY <1>2 DEF Adds
<1>4. {} \in Q
  BY <1>3
<1>5. ASSUME NEW s \in SUBSET T, s # {}, \A x \in s : s \ {x} \in Q
      PROVE  s \in Q
  <2>1. g[s \ {Pick(s)}] = h[s \ {Pick(s)}]
    BY <1>5, Picked
  <2> QED BY <1>3, <1>5, <2>1
<1> HIDE DEF Q
<1>6. SUBSET T \subseteq Q
  BY <1>1, <1>4, <1>5, FiniteInduction
<1>7. g[T] = h[T]
  BY <1>6 DEF Q
<1> QED BY <1>7, FoldDef DEF g, h

-----------------------------------------------------------------------------
(* Sums *)

IntsOn(f, S) == \A i \in S : f[i] \in Int
NatsOn(f, S) == \A i \in S : f[i] \in Nat

LEMMA SumEmpty == ASSUME NEW f PROVE SumFunctionOnSet(f, {}) = 0
<1>1. {} \in SUBSET {} /\ IsFiniteSet({})
  BY FS_EmptySet
<1>2. Adds(f, SUBSET {}, Fold(f, {}))
  BY <1>1, FoldAdds
<1>3. Fold(f, {})[{}] = 0
  BY <1>1, <1>2 DEF Adds
<1> QED BY <1>3, FoldDef

\* A sum of integers is an integer, and any element can be taken out first.
LEMMA SumRemove ==
    ASSUME NEW f, NEW S, IsFiniteSet(S), IntsOn(f, S)
    PROVE  /\ SumFunctionOnSet(f, S) \in Int
           /\ \A x \in S : /\ SumFunctionOnSet(f, S \ {x}) \in Int
                           /\ SumFunctionOnSet(f, S) = f[x] + SumFunctionOnSet(f, S \ {x})
<1> DEFINE g == Fold(f, S)
           Q == {s \in SUBSET S : \A x \in s : g[s] = f[x] + g[s \ {x}]}
<1>1. Adds(f, SUBSET S, g)
  BY FoldAdds
<1> HIDE DEF g
<1>2. \A s \in SUBSET S : g[s] = IF s = {} THEN 0 ELSE f[Pick(s)] + g[s \ {Pick(s)}]
  BY <1>1 DEF Adds
<1> DEFINE R == {s \in SUBSET S : g[s] \in Int}
<1>3. {} \in Q /\ {} \in R
  BY <1>2
<1>4. SUBSET S \subseteq R
  <2>1. ASSUME NEW s \in SUBSET S, s # {}, \A x \in s : s \ {x} \in R
        PROVE  s \in R
    <3>1. Pick(s) \in s
      BY <2>1, Picked
    <3>2. f[Pick(s)] \in Int /\ g[s \ {Pick(s)}] \in Int
      BY <2>1, <3>1 DEF IntsOn
    <3>3. g[s] = f[Pick(s)] + g[s \ {Pick(s)}]
      BY <1>2, <2>1
    <3> QED BY <3>2, <3>3
  <2> HIDE DEF R
  <2> QED BY <1>3, <2>1, FiniteInduction
<1>5. ASSUME NEW s \in SUBSET S, s # {}, \A x \in s : s \ {x} \in Q
      PROVE  s \in Q
  <2> DEFINE p == Pick(s)
  <2>1. p \in s /\ f[p] \in Int
    BY <1>5, Picked DEF IntsOn
  <2>2. g[s] = f[p] + g[s \ {p}]
    BY <1>2, <1>5
  <2> HIDE DEF p
  <2>3. ASSUME NEW x \in s, x # p PROVE g[s] = f[x] + g[s \ {x}]
    <3>1. (s \ {p}) \ {x} = (s \ {x}) \ {p} /\ x \in s \ {p} /\ p \in s \ {x}
      BY <2>1, <2>3
    <3> DEFINE z == g[(s \ {p}) \ {x}]
    <3>2. g[s \ {p}] = f[x] + z /\ g[s \ {x}] = f[p] + z
      BY <1>5, <2>1, <3>1
    <3>3. z \in Int
      BY <1>4
    <3>4. f[x] \in Int
      BY DEF IntsOn
    <3> HIDE DEF z
    <3> QED BY <2>1, <2>2, <3>2, <3>3, <3>4
  <2> QED BY <2>2, <2>3
<1> HIDE DEF Q
<1>6. SUBSET S \subseteq Q
  BY <1>3, <1>5, FiniteInduction
<1>7. \A s \in SUBSET S : g[s] = SumFunctionOnSet(f, s)
  BY FoldSubset DEF g
<1> QED BY <1>6, <1>7, <1>4 DEF Q

LEMMA SumNat ==
    ASSUME NEW f, NEW S, IsFiniteSet(S), NatsOn(f, S)
    PROVE  SumFunctionOnSet(f, S) \in Nat
<1> DEFINE Q == {s \in SUBSET S : SumFunctionOnSet(f, s) \in Nat}
<1>1. {} \in Q
  BY SumEmpty
<1>2. ASSUME NEW s \in SUBSET S, s # {}, \A x \in s : s \ {x} \in Q
      PROVE  s \in Q
  <2>1. IsFiniteSet(s) /\ IntsOn(f, s)
    BY FS_Subset DEF IntsOn, NatsOn
  <2>2. PICK x \in s : SumFunctionOnSet(f, s) = f[x] + SumFunctionOnSet(f, s \ {x})
    BY <1>2, <2>1, SumRemove
  <2>3. f[x] \in Nat /\ SumFunctionOnSet(f, s \ {x}) \in Nat
    BY <1>2 DEF NatsOn
  <2> QED BY <2>2, <2>3
<1> HIDE DEF Q
<1>3. SUBSET S \subseteq Q
  BY <1>1, <1>2, FiniteInduction
<1> QED BY <1>3 DEF Q

LEMMA SumSame ==
    ASSUME NEW f, NEW g, NEW S, IsFiniteSet(S), IntsOn(f, S), \A i \in S : g[i] = f[i]
    PROVE  SumFunctionOnSet(g, S) = SumFunctionOnSet(f, S)
<1> DEFINE Q == {s \in SUBSET S : SumFunctionOnSet(g, s) = SumFunctionOnSet(f, s)}
<1>1. {} \in Q
  BY SumEmpty
<1>2. ASSUME NEW s \in SUBSET S, s # {}, \A x \in s : s \ {x} \in Q
      PROVE  s \in Q
  <2>1. IsFiniteSet(s) /\ IntsOn(f, s) /\ IntsOn(g, s)
    BY FS_Subset DEF IntsOn
  <2>2. PICK x \in s : TRUE
    BY <1>2
  <2>3. SumFunctionOnSet(f, s) = f[x] + SumFunctionOnSet(f, s \ {x})
    BY <2>1, SumRemove
  <2>4. SumFunctionOnSet(g, s) = g[x] + SumFunctionOnSet(g, s \ {x})
    BY <2>1, SumRemove
  <2>5. SumFunctionOnSet(g, s \ {x}) = SumFunctionOnSet(f, s \ {x})
    BY <1>2
  <2> QED BY <2>3, <2>4, <2>5
<1> HIDE DEF Q
<1>3. SUBSET S \subseteq Q
  BY <1>1, <1>2, FiniteInduction
<1> QED BY <1>3 DEF Q

\* Changing one term changes the sum by as much.
LEMMA SumChange ==
    ASSUME NEW f, NEW g, NEW S, IsFiniteSet(S), IntsOn(f, S), NEW x \in S,
           g[x] \in Int, \A i \in S \ {x} : g[i] = f[i]
    PROVE  SumFunctionOnSet(g, S) = SumFunctionOnSet(f, S) - f[x] + g[x]
<1> DEFINE r == SumFunctionOnSet(f, S \ {x})
<1>1. IntsOn(g, S) /\ IntsOn(f, S \ {x}) /\ IsFiniteSet(S \ {x})
  BY FS_RemoveElement DEF IntsOn
<1>2. SumFunctionOnSet(f, S) = f[x] + r /\ r \in Int
  <2> HIDE DEF r
  <2>1. \A y \in S : /\ SumFunctionOnSet(f, S \ {y}) \in Int
                     /\ SumFunctionOnSet(f, S) = f[y] + SumFunctionOnSet(f, S \ {y})
    BY SumRemove
  <2> QED BY <2>1 DEF r
<1>3. SumFunctionOnSet(g, S) = g[x] + SumFunctionOnSet(g, S \ {x})
  BY <1>1, SumRemove
<1>4. SumFunctionOnSet(g, S \ {x}) = r
  BY <1>1, SumSame
<1>5. f[x] \in Int
  BY DEF IntsOn
<1> HIDE DEF r
<1> QED BY <1>2, <1>3, <1>4, <1>5

\* Terms that exceed others by at most m each.
LEMMA SumBound ==
    ASSUME NEW f, NEW g, NEW S, IsFiniteSet(S), NEW m \in Int,
           IntsOn(f, S), IntsOn(g, S), \A i \in S : f[i] <= g[i] + m
    PROVE  SumFunctionOnSet(f, S) <= SumFunctionOnSet(g, S) + Cardinality(S) * m
<1> DEFINE Q == {s \in SUBSET S : SumFunctionOnSet(f, s) <=
                                    SumFunctionOnSet(g, s) + Cardinality(s) * m}
<1>1. {} \in Q
  <2>1. SumFunctionOnSet(f, {}) = 0 /\ SumFunctionOnSet(g, {}) = 0 /\ Cardinality({}) = 0
    BY SumEmpty, FS_EmptySet
  <2> QED BY <2>1
<1>2. ASSUME NEW s \in SUBSET S, s # {}, \A x \in s : s \ {x} \in Q
      PROVE  s \in Q
  <2>1. IsFiniteSet(s) /\ IntsOn(f, s) /\ IntsOn(g, s)
    BY FS_Subset DEF IntsOn
  <2>2. PICK x \in s : TRUE
    BY <1>2
  <2> DEFINE r == SumFunctionOnSet(f, s \ {x})
             q == SumFunctionOnSet(g, s \ {x})
             c == Cardinality(s)
             d == Cardinality(s \ {x})
  <2>3. SumFunctionOnSet(f, s) = f[x] + r /\ r \in Int
    BY <2>1, SumRemove
  <2>4. SumFunctionOnSet(g, s) = g[x] + q /\ q \in Int
    BY <2>1, SumRemove
  <2>5. d = c - 1 /\ c \in Nat
    BY <2>1, FS_RemoveElement, FS_CardinalityType
  <2>6. r <= q + d * m
    BY <1>2
  <2>7. f[x] \in Int /\ g[x] \in Int /\ f[x] <= g[x] + m
    BY DEF IntsOn
  <2> HIDE DEF r, q, c, d
  <2>8. d * m = c * m - m /\ c * m \in Int
    BY <2>5
  <2>9. SumFunctionOnSet(f, s) <= SumFunctionOnSet(g, s) + c * m
    BY <2>3, <2>4, <2>6, <2>7, <2>8
  <2> QED BY <2>9 DEF c
<1> HIDE DEF Q
<1>3. SUBSET S \subseteq Q
  BY <1>1, <1>2, FiniteInduction
<1> QED BY <1>3 DEF Q

\* Zeros do not count.
LEMMA SumZeros ==
    ASSUME NEW f, NEW S, IsFiniteSet(S), IntsOn(f, S), NEW T \in SUBSET S,
           \A i \in S \ T : f[i] = 0
    PROVE  SumFunctionOnSet(f, S) = SumFunctionOnSet(f, T)
<1> DEFINE Q == {s \in SUBSET S : SumFunctionOnSet(f, s) = SumFunctionOnSet(f, s \cap T)}
<1>1. {} \in Q
  <2>1. {} \cap T = {}
    OBVIOUS
  <2> QED BY <2>1
<1>2. ASSUME NEW s \in SUBSET S, s # {}, \A x \in s : s \ {x} \in Q
      PROVE  s \in Q
  <2>1. /\ IsFiniteSet(s) /\ IntsOn(f, s)
        /\ IsFiniteSet(s \cap T) /\ IntsOn(f, s \cap T)
    BY FS_Subset DEF IntsOn
  <2>2. PICK x \in s : TRUE
    BY <1>2
  <2>3. /\ SumFunctionOnSet(f, s) = f[x] + SumFunctionOnSet(f, s \ {x})
        /\ SumFunctionOnSet(f, s \ {x}) \in Int
    BY <2>1, SumRemove
  <2>4. SumFunctionOnSet(f, s \ {x}) = SumFunctionOnSet(f, (s \ {x}) \cap T)
    BY <1>2
  <2>5. CASE x \in T
    <3>1. (s \ {x}) \cap T = (s \cap T) \ {x} /\ x \in s \cap T
      BY <2>5
    <3>2. SumFunctionOnSet(f, s \cap T) = f[x] + SumFunctionOnSet(f, (s \cap T) \ {x})
      BY <2>1, <3>1, SumRemove
    <3> QED BY <2>3, <2>4, <3>1, <3>2
  <2>6. CASE x \notin T
    <3>1. (s \ {x}) \cap T = s \cap T /\ f[x] = 0
      BY <2>6
    <3> QED BY <2>3, <2>4, <3>1
  <2> QED BY <2>5, <2>6
<1> HIDE DEF Q
<1>3. SUBSET S \subseteq Q
  BY <1>1, <1>2, FiniteInduction
<1>4. S \cap T = T
  OBVIOUS
<1> QED BY <1>3, <1>4 DEF Q

\* SumFunction adds up over the domain.
LEMMA SumOver ==
    ASSUME NEW f, NEW g, NEW S, IsFiniteSet(S), IntsOn(f, S), DOMAIN g = S,
           \A i \in S : g[i] = f[i]
    PROVE  SumFunction(g) = SumFunctionOnSet(f, S)
  BY SumSame DEF SumFunction
=============================================================================
