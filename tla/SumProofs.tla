------------------------------ MODULE SumProofs ------------------------------
(***************************************************************************)
(* Sums over finite sets, for the proofs about counters that must equal    *)
(* what was reserved, claimed or held.  SumFunctionOnSet is defined by     *)
(* recursion over subsets; what it computes is proved by induction, stated *)
(* with sets (FiniteInduction) so that no operator has to be instantiated. *)
(***************************************************************************)
EXTENDS FiniteSetsExt, FiniteSetTheorems, WellFoundedInduction, TLAPS

\* The least element of a set of naturals.
LEMMA LeastNat ==
    ASSUME NEW N \in SUBSET Nat, N # {}
    PROVE  \E n \in N : \A m \in N : n <= m
<1> DEFINE R == {ss \in Nat \X Nat : ss[1] < ss[2]}
<1>1. IsWellFoundedOn(R, Nat)
  BY NatLessThanWellFounded, Zenon DEF OpToRel
<1>2. PICK n \in N : \A m \in N : ~ (<<m, n>> \in R)
  <2> HIDE DEF R
  <2>1. QED
    BY <1>1, WFMin
<1>3. ASSUME NEW m \in N PROVE n <= m
  <2>1. n \in Nat /\ m \in Nat
    OBVIOUS
  <2>2. m < n => <<m, n>> \in R
    BY <2>1
  <2>3. QED
    BY <1>2, <2>1, <2>2
<1>4. QED
  BY <1>3

\* Strong induction: a family P of subsets that has every subset whose proper
\* subsets it has, has them all.
LEMMA FiniteInduction ==
    ASSUME NEW S, IsFiniteSet(S), NEW P,
           \A s \in SUBSET S : (\A t \in SUBSET s : t # s => t \in P) => s \in P
    PROVE  SUBSET S \subseteq P
<1> SUFFICES ASSUME NEW bad \in SUBSET S, bad \notin P PROVE FALSE
  OBVIOUS
<1> DEFINE Sizes == {Cardinality(s) : s \in (SUBSET S) \ P}
<1>1. \A s \in SUBSET S : IsFiniteSet(s) /\ Cardinality(s) \in Nat
  BY FS_Subset, FS_CardinalityType
<1>2. Sizes \in SUBSET Nat /\ Sizes # {}
  BY <1>1
<1>3. PICK n \in Sizes : \A m \in Sizes : n <= m
  BY <1>2, LeastNat
<1>4. PICK s \in (SUBSET S) \ P : Cardinality(s) = n
  BY <1>3
<1>5. ASSUME NEW t \in SUBSET s, t # s PROVE t \in P
  <2>1. Cardinality(t) < Cardinality(s)
    BY <1>1, <1>5, FS_Subset
  <2>2. Cardinality(t) \notin Sizes
    <3>1. Cardinality(t) \in Nat /\ n \in Nat /\ Cardinality(t) < n
      BY <1>1, <1>2, <1>4, <2>1
    <3>2. QED
      BY <3>1, <1>3
  <2>3. QED
    BY <2>2
<1>6. QED
  BY <1>4, <1>5

-----------------------------------------------------------------------------
\* What the fold chooses, and the recursion it solves.
Pick(s) == CHOOSE x \in s : TRUE

Adds(iter, f, S) ==
    iter = [s \in SUBSET S |-> IF s = {} THEN 0 ELSE f[Pick(s)] + iter[s \ {Pick(s)}]]

LEMMA SumIter ==
    ASSUME NEW f, NEW S
    PROVE  SumFunctionOnSet(f, S) = (CHOOSE iter : Adds(iter, f, S))[S]
BY DEF SumFunctionOnSet, FoldFunctionOnSet, MapThenFoldSet, Adds, Pick

\* Solutions agree where both are defined.
LEMMA AddsUnique ==
    ASSUME NEW f, NEW S, NEW T \in SUBSET S, IsFiniteSet(T),
           NEW g, Adds(g, f, S), NEW h, Adds(h, f, T)
    PROVE  \A s \in SUBSET T : g[s] = h[s]
<1> DEFINE P == {s \in SUBSET T : g[s] = h[s]}
<1>1. ASSUME NEW s \in SUBSET T, \A t \in SUBSET s : t # s => t \in P PROVE s \in P
  <2>1. /\ g[s] = IF s = {} THEN 0 ELSE f[Pick(s)] + g[s \ {Pick(s)}]
        /\ h[s] = IF s = {} THEN 0 ELSE f[Pick(s)] + h[s \ {Pick(s)}]
    BY DEF Adds
  <2>2. CASE s = {}
    BY <2>1, <2>2
  <2>3. CASE s # {}
    <3>1. Pick(s) \in s
      BY <2>3 DEF Pick
    <3>2. s \ {Pick(s)} \in P
      BY <1>1, <3>1
    <3>3. QED
      BY <2>1, <2>3, <3>2
  <2>4. QED
    BY <2>2, <2>3
<1>2. SUBSET T \subseteq P
  <2> HIDE DEF P
  <2>1. QED
    BY <1>1, FiniteInduction
<1>3. QED
  BY <1>2

\* The recursion has a solution, so that the fold is one.
LEMMA AddsExists ==
    ASSUME NEW f, NEW S, IsFiniteSet(S)
    PROVE  \A s \in SUBSET S : Adds(CHOOSE iter : Adds(iter, f, s), f, s)
<1> DEFINE G(s) == CHOOSE iter : Adds(iter, f, s)
           P == {s \in SUBSET S : Adds(G(s), f, s)}
<1>1. ASSUME NEW s \in SUBSET S, \A t \in SUBSET s : t # s => t \in P PROVE s \in P
  <2> DEFINE g == [t \in SUBSET s |->
                    IF t = {} THEN 0 ELSE f[Pick(t)] + G(t \ {Pick(t)})[t \ {Pick(t)}]]
  <2>1. ASSUME NEW t \in SUBSET s, t # {}
        PROVE  g[t \ {Pick(t)}] = G(t \ {Pick(t)})[t \ {Pick(t)}]
    <3> DEFINE u == t \ {Pick(t)}
    <3>1. Pick(t) \in t
      BY <2>1 DEF Pick
    <3>2. u \in SUBSET s /\ u # s
      BY <3>1
    <3>3. Adds(G(u), f, u)
      BY <1>1, <3>2
    <3>4. CASE u = {}
      BY <3>2, <3>3, <3>4 DEF Adds
    <3>5. CASE u # {}
      <4>1. Pick(u) \in u
        BY <3>5 DEF Pick
      <4>2. u \ {Pick(u)} \in SUBSET s /\ u \ {Pick(u)} # s /\ u \ {Pick(u)} \in SUBSET u
        BY <3>2, <4>1
      <4>3. Adds(G(u \ {Pick(u)}), f, u \ {Pick(u)})
        BY <1>1, <4>2
      <4>4. IsFiniteSet(u \ {Pick(u)})
        BY <4>2, FS_Subset
      <4>5. G(u)[u \ {Pick(u)}] = G(u \ {Pick(u)})[u \ {Pick(u)}]
        <5> DEFINE v == u \ {Pick(u)}
        <5> HIDE DEF G, u, v
        <5>1. v \in SUBSET u /\ IsFiniteSet(v) /\ Adds(G(v), f, v) /\ Adds(G(u), f, u)
          BY <3>3, <4>2, <4>3, <4>4 DEF v
        <5>2. \A x \in SUBSET v : G(u)[x] = G(v)[x]
          BY <5>1, AddsUnique
        <5>3. QED
          BY <5>2 DEF v
      <4>6. G(u)[u] = f[Pick(u)] + G(u)[u \ {Pick(u)}]
        <5> HIDE DEF G, u
        <5>1. QED
          BY <3>3, <3>5 DEF Adds
      <4>7. g[u] = f[Pick(u)] + G(u \ {Pick(u)})[u \ {Pick(u)}]
        <5> HIDE DEF G, u
        <5>1. QED
          BY <3>2, <3>5
      <4>8. QED
        BY <4>5, <4>6, <4>7
    <3>6. QED
      BY <3>4, <3>5
  <2>2. Adds(g, f, s)
    <3> HIDE DEF G
    <3>1. ASSUME NEW t \in SUBSET s
          PROVE  (IF t = {} THEN 0 ELSE f[Pick(t)] + G(t \ {Pick(t)})[t \ {Pick(t)}])
                   = (IF t = {} THEN 0 ELSE f[Pick(t)] + g[t \ {Pick(t)}])
      <4> HIDE DEF g
      <4>1. QED
        BY <2>1
    <3>2. QED
      BY <3>1 DEF Adds
  <2>3. QED
    BY <2>2
<1>2. SUBSET S \subseteq P
  <2> HIDE DEF P
  <2>1. QED
    BY <1>1, FiniteInduction
<1>3. QED
  BY <1>2
-----------------------------------------------------------------------------
\* Sums of integers.

Terms(f, S) == \A s \in S : f[s] \in Int

\* The recursion, as it is computed.
LEMMA SumStep ==
    ASSUME NEW f, NEW S, IsFiniteSet(S)
    PROVE  SumFunctionOnSet(f, S)
             = IF S = {} THEN 0 ELSE f[Pick(S)] + SumFunctionOnSet(f, S \ {Pick(S)})
<1> DEFINE G(s) == CHOOSE iter : Adds(iter, f, s)
           T == S \ {Pick(S)}
<1>1. Adds(G(S), f, S) /\ Adds(G(T), f, T) /\ IsFiniteSet(T)
  BY AddsExists, FS_Subset
<1>2. SumFunctionOnSet(f, S) = G(S)[S] /\ SumFunctionOnSet(f, T) = G(T)[T]
  BY SumIter
<1> HIDE DEF G, T
<1>3. G(S)[T] = G(T)[T]
  <2> DEFINE g == G(S)
             h == G(T)
  <2>1. T \in SUBSET S /\ IsFiniteSet(T) /\ Adds(g, f, S) /\ Adds(h, f, T)
    BY <1>1 DEF T
  <2> HIDE DEF g, h
  <2>2. \A s \in SUBSET T : g[s] = h[s]
    BY <2>1, AddsUnique
  <2>3. QED
    BY <2>2 DEF g, h
<1>4. G(S)[S] = IF S = {} THEN 0 ELSE f[Pick(S)] + G(S)[T]
  BY <1>1 DEF Adds, T
<1>5. QED
  BY <1>2, <1>3, <1>4 DEF T

LEMMA SumEmpty == \A f : SumFunctionOnSet(f, {}) = 0
BY SumStep, FS_EmptySet

LEMMA SumType ==
    ASSUME NEW f, NEW S, IsFiniteSet(S), Terms(f, S)
    PROVE  SumFunctionOnSet(f, S) \in Int
<1> DEFINE P == {s \in SUBSET S : SumFunctionOnSet(f, s) \in Int}
<1>1. ASSUME NEW s \in SUBSET S, \A t \in SUBSET s : t # s => t \in P PROVE s \in P
  <2>1. CASE s = {}
    BY <2>1, SumEmpty
  <2>2. CASE s # {}
    <3>1. Pick(s) \in s
      BY <2>2 DEF Pick
    <3>2. SumFunctionOnSet(f, s \ {Pick(s)}) \in Int
      BY <1>1, <3>1
    <3>3. f[Pick(s)] \in Int
      BY <3>1 DEF Terms
    <3>4. IsFiniteSet(s)
      BY FS_Subset
    <3>5. SumFunctionOnSet(f, s) = f[Pick(s)] + SumFunctionOnSet(f, s \ {Pick(s)})
      BY <2>2, <3>4, SumStep
    <3>6. QED
      BY <3>2, <3>3, <3>5
  <2>3. QED
    BY <2>1, <2>2
<1>2. SUBSET S \subseteq P
  <2> HIDE DEF P
  <2>1. QED
    BY <1>1, FiniteInduction
<1>3. QED
  BY <1>2

\* Any element may be taken out first.
LEMMA SumRemove ==
    ASSUME NEW f, NEW S, IsFiniteSet(S), Terms(f, S), NEW x \in S
    PROVE  SumFunctionOnSet(f, S) = f[x] + SumFunctionOnSet(f, S \ {x})
<1> DEFINE P == {s \in SUBSET S :
                   \A y \in s : SumFunctionOnSet(f, s) = f[y] + SumFunctionOnSet(f, s \ {y})}
<1>1. ASSUME NEW s \in SUBSET S, \A t \in SUBSET s : t # s => t \in P PROVE s \in P
  <2> SUFFICES ASSUME NEW y \in s
               PROVE  SumFunctionOnSet(f, s) = f[y] + SumFunctionOnSet(f, s \ {y})
    OBVIOUS
  <2> DEFINE p == Pick(s)
  <2>1. p \in s
    BY DEF Pick
  <2>2. IsFiniteSet(s)
    BY FS_Subset
  <2>3. SumFunctionOnSet(f, s) = f[p] + SumFunctionOnSet(f, s \ {p})
    BY <2>2, SumStep
  <2> HIDE DEF p
  <2>4. CASE p = y
    BY <2>3, <2>4
  <2>5. CASE p # y
    <3>1. SumFunctionOnSet(f, s \ {p}) = f[y] + SumFunctionOnSet(f, (s \ {p}) \ {y})
      <4>1. s \ {p} \in P /\ y \in s \ {p}
        BY <1>1, <2>1, <2>5
      <4>2. QED
        BY <4>1
    <3>2. SumFunctionOnSet(f, s \ {y}) = f[p] + SumFunctionOnSet(f, (s \ {y}) \ {p})
      <4>1. s \ {y} \in P /\ p \in s \ {y}
        BY <1>1, <2>1, <2>5
      <4>2. QED
        BY <4>1
    <3>3. (s \ {p}) \ {y} = (s \ {y}) \ {p}
      OBVIOUS
    <3>4. SumFunctionOnSet(f, (s \ {y}) \ {p}) \in Int /\ f[p] \in Int /\ f[y] \in Int
      <4> DEFINE u == (s \ {y}) \ {p}
      <4>1. u \in SUBSET S /\ IsFiniteSet(u) /\ Terms(f, u)
        BY FS_Subset DEF Terms
      <4> HIDE DEF u
      <4>2. SumFunctionOnSet(f, u) \in Int
        BY <4>1, SumType
      <4>3. QED
        BY <2>1, <4>2 DEF Terms, u
    <3> DEFINE rest == SumFunctionOnSet(f, (s \ {y}) \ {p})
    <3>5. /\ SumFunctionOnSet(f, s) = f[p] + (f[y] + rest)
          /\ f[y] + SumFunctionOnSet(f, s \ {y}) = f[y] + (f[p] + rest)
          /\ f[p] \in Int /\ f[y] \in Int /\ rest \in Int
      BY <2>3, <3>1, <3>2, <3>3, <3>4
    <3> HIDE DEF P, rest
    <3>6. QED
      BY <3>5
  <2>6. QED
    BY <2>4, <2>5
<1>2. SUBSET S \subseteq P
  <2> HIDE DEF P
  <2>1. QED
    BY <1>1, FiniteInduction
<1>3. QED
  BY <1>2

LEMMA SumAdd ==
    ASSUME NEW f, NEW S, IsFiniteSet(S), NEW x, x \notin S, Terms(f, S \cup {x})
    PROVE  SumFunctionOnSet(f, S \cup {x}) = f[x] + SumFunctionOnSet(f, S)
<1>1. IsFiniteSet(S \cup {x}) /\ (S \cup {x}) \ {x} = S
  BY FS_AddElement
<1>2. SumFunctionOnSet(f, S \cup {x}) = f[x] + SumFunctionOnSet(f, (S \cup {x}) \ {x})
  BY <1>1, SumRemove
<1>3. QED
  BY <1>1, <1>2

\* A sum depends on the terms only, and grows with each of them.
LEMMA SumMonotone ==
    ASSUME NEW f, NEW g, NEW S, IsFiniteSet(S), Terms(f, S), Terms(g, S),
           \A s \in S : f[s] <= g[s]
    PROVE  SumFunctionOnSet(f, S) <= SumFunctionOnSet(g, S)
<1> DEFINE P == {s \in SUBSET S : SumFunctionOnSet(f, s) <= SumFunctionOnSet(g, s)}
<1>1. ASSUME NEW s \in SUBSET S, \A t \in SUBSET s : t # s => t \in P PROVE s \in P
  <2>1. CASE s = {}
    <3>1. SumFunctionOnSet(f, s) = 0 /\ SumFunctionOnSet(g, s) = 0
      BY <2>1, SumEmpty
    <3>2. QED
      BY <3>1
  <2>2. CASE s # {}
    <3> DEFINE x == Pick(s)
               u == s \ {x}
    <3>1. x \in s
      BY <2>2 DEF Pick
    <3>2. u \in SUBSET s /\ u # s
      BY <3>1
    <3>3. SumFunctionOnSet(f, u) <= SumFunctionOnSet(g, u)
      BY <1>1, <3>2
    <3>4. IsFiniteSet(s) /\ IsFiniteSet(u) /\ Terms(f, u) /\ Terms(g, u)
      BY FS_Subset DEF Terms
    <3>5. /\ SumFunctionOnSet(f, s) = f[x] + SumFunctionOnSet(f, u)
          /\ SumFunctionOnSet(g, s) = g[x] + SumFunctionOnSet(g, u)
      BY <2>2, <3>4, SumStep
    <3>6. f[x] \in Int /\ g[x] \in Int /\ f[x] <= g[x]
      BY <3>1 DEF Terms
    <3> HIDE DEF x, u
    <3>7. SumFunctionOnSet(f, u) \in Int /\ SumFunctionOnSet(g, u) \in Int
      BY <3>4, SumType
    <3>8. SumFunctionOnSet(f, s) <= SumFunctionOnSet(g, s)
      BY <3>3, <3>5, <3>6, <3>7
    <3>9. QED
      BY <3>8
  <2>3. QED
    BY <2>1, <2>2
<1>2. SUBSET S \subseteq P
  <2> HIDE DEF P
  <2>1. QED
    BY <1>1, FiniteInduction
<1>3. QED
  BY <1>2

LEMMA SumSame ==
    ASSUME NEW f, NEW g, NEW S, IsFiniteSet(S), Terms(f, S), \A s \in S : f[s] = g[s]
    PROVE  SumFunctionOnSet(f, S) = SumFunctionOnSet(g, S)
<1>1. Terms(g, S)
  BY DEF Terms
<1>2. \A s \in S : f[s] <= g[s] /\ g[s] <= f[s]
  BY <1>1 DEF Terms
<1>3. SumFunctionOnSet(f, S) <= SumFunctionOnSet(g, S)
  BY <1>1, <1>2, SumMonotone
<1>4. SumFunctionOnSet(g, S) <= SumFunctionOnSet(f, S)
  BY <1>1, <1>2, SumMonotone
<1>5. SumFunctionOnSet(f, S) \in Int /\ SumFunctionOnSet(g, S) \in Int
  BY <1>1, SumType
<1>6. QED
  BY <1>3, <1>4, <1>5

LEMMA SumZero ==
    ASSUME NEW f, NEW S, IsFiniteSet(S), \A s \in S : f[s] = 0
    PROVE  SumFunctionOnSet(f, S) = 0
<1> DEFINE P == {s \in SUBSET S : SumFunctionOnSet(f, s) = 0}
<1>1. ASSUME NEW s \in SUBSET S, \A t \in SUBSET s : t # s => t \in P PROVE s \in P
  <2>1. CASE s = {}
    BY <2>1, SumEmpty
  <2>2. CASE s # {}
    <3>1. Pick(s) \in s /\ IsFiniteSet(s)
      BY <2>2, FS_Subset DEF Pick
    <3>2. SumFunctionOnSet(f, s \ {Pick(s)}) = 0 /\ f[Pick(s)] = 0
      BY <1>1, <3>1
    <3>3. SumFunctionOnSet(f, s) = f[Pick(s)] + SumFunctionOnSet(f, s \ {Pick(s)})
      BY <2>2, <3>1, SumStep
    <3>4. QED
      BY <3>2, <3>3
  <2>3. QED
    BY <2>1, <2>2
<1>2. SUBSET S \subseteq P
  <2> HIDE DEF P
  <2>1. QED
    BY <1>1, FiniteInduction
<1>3. QED
  BY <1>2

LEMMA SumNat ==
    ASSUME NEW f, NEW S, IsFiniteSet(S), \A s \in S : f[s] \in Nat
    PROVE  SumFunctionOnSet(f, S) \in Nat
<1> DEFINE zero == [s \in S |-> 0]
<1>1. Terms(f, S) /\ Terms(zero, S) /\ \A s \in S : zero[s] = 0 /\ zero[s] <= f[s]
  BY DEF Terms
<1> HIDE DEF zero
<1>2. SumFunctionOnSet(zero, S) = 0 /\ SumFunctionOnSet(zero, S) <= SumFunctionOnSet(f, S)
  BY <1>1, SumZero, SumMonotone
<1>3. SumFunctionOnSet(f, S) \in Int
  BY <1>1, SumType
<1>4. QED
  BY <1>2, <1>3

\* One term changes.
LEMMA SumUpdate ==
    ASSUME NEW f, NEW g, NEW S, IsFiniteSet(S), Terms(f, S), Terms(g, S),
           NEW x \in S, \A s \in S \ {x} : g[s] = f[s]
    PROVE  SumFunctionOnSet(g, S) = SumFunctionOnSet(f, S) + (g[x] - f[x])
<1> DEFINE T == S \ {x}
<1>1. IsFiniteSet(T) /\ Terms(f, T) /\ \A s \in T : f[s] = g[s]
  BY FS_Subset DEF Terms
<1>2. SumFunctionOnSet(f, S) = f[x] + SumFunctionOnSet(f, T)
  BY SumRemove
<1>3. SumFunctionOnSet(g, S) = g[x] + SumFunctionOnSet(g, T)
  BY SumRemove
<1> HIDE DEF T
<1>4. SumFunctionOnSet(f, T) = SumFunctionOnSet(g, T) /\ SumFunctionOnSet(f, T) \in Int
  BY <1>1, SumSame, SumType
<1>5. f[x] \in Int /\ g[x] \in Int
  BY DEF Terms
<1>6. QED
  BY <1>2, <1>3, <1>4, <1>5

\* Products grow with a factor.
LEMMA Times ==
    ASSUME NEW a \in Nat, NEW b \in Nat, NEW c \in Nat, a <= b
    PROVE  a * c <= b * c
<1>1. PICK d \in Nat : b = a + d
  <2>1. b - a \in Nat /\ b = a + (b - a)
    OBVIOUS
  <2> QED BY <2>1
<1>2. b * c = a * c + d * c
  BY <1>1
<1>3. d * c \in Nat /\ a * c \in Nat
  OBVIOUS
<1> QED BY <1>2, <1>3

\* Terms that exceed others by at most c each.
LEMMA SumMargin ==
    ASSUME NEW f, NEW g, NEW S, IsFiniteSet(S), Terms(f, S), Terms(g, S), NEW c \in Int,
           \A s \in S : f[s] <= g[s] + c
    PROVE  SumFunctionOnSet(f, S) <= SumFunctionOnSet(g, S) + Cardinality(S) * c
<1> DEFINE P == {s \in SUBSET S : SumFunctionOnSet(f, s)
                                     <= SumFunctionOnSet(g, s) + Cardinality(s) * c}
<1>1. ASSUME NEW s \in SUBSET S, \A t \in SUBSET s : t # s => t \in P PROVE s \in P
  <2>1. CASE s = {}
    <3>1. SumFunctionOnSet(f, s) = 0 /\ SumFunctionOnSet(g, s) = 0 /\ Cardinality(s) = 0
      BY <2>1, SumEmpty, FS_EmptySet
    <3> QED BY <3>1
  <2>2. CASE s # {}
    <3> DEFINE x == Pick(s)
               u == s \ {x}
    <3>1. x \in s
      BY <2>2 DEF Pick
    <3>2. u \in SUBSET s /\ u # s
      BY <3>1
    <3>3. SumFunctionOnSet(f, u) <= SumFunctionOnSet(g, u) + Cardinality(u) * c
      BY <1>1, <3>2
    <3>4. IsFiniteSet(s) /\ IsFiniteSet(u) /\ Terms(f, u) /\ Terms(g, u)
      BY FS_Subset DEF Terms
    <3>5. /\ SumFunctionOnSet(f, s) = f[x] + SumFunctionOnSet(f, u)
          /\ SumFunctionOnSet(g, s) = g[x] + SumFunctionOnSet(g, u)
      BY <2>2, <3>4, SumStep
    <3>6. f[x] \in Int /\ g[x] \in Int /\ f[x] <= g[x] + c
      BY <3>1 DEF Terms
    <3>7. Cardinality(s) = Cardinality(u) + 1 /\ Cardinality(u) \in Nat
      BY <3>1, <3>4, FS_RemoveElement, FS_CardinalityType
    <3> HIDE DEF x, u
    <3>8. SumFunctionOnSet(f, u) \in Int /\ SumFunctionOnSet(g, u) \in Int
      BY <3>4, SumType
    <3>9. Cardinality(s) * c = Cardinality(u) * c + c /\ Cardinality(u) * c \in Int
      BY <3>7
    <3>10. SumFunctionOnSet(f, s) <= SumFunctionOnSet(g, s) + Cardinality(s) * c
      BY <3>3, <3>5, <3>6, <3>8, <3>9
    <3> QED BY <3>10
  <2> QED BY <2>1, <2>2
<1>2. SUBSET S \subseteq P
  <2> HIDE DEF P
  <2> QED BY <1>1, FiniteInduction
<1> QED BY <1>2

\* Terms of at least c each.
LEMMA SumAtLeast ==
    ASSUME NEW f, NEW S, IsFiniteSet(S), Terms(f, S), NEW c \in Nat, \A s \in S : c <= f[s]
    PROVE  Cardinality(S) * c <= SumFunctionOnSet(f, S)
<1> DEFINE zero == [s \in S |-> 0]
           d == -c
<1>1. Terms(zero, S) /\ d \in Int /\ \A s \in S : zero[s] = 0 /\ zero[s] <= f[s] + d
  BY DEF Terms
<1>2. Cardinality(S) \in Nat /\ Cardinality(S) * d = -(Cardinality(S) * c)
        /\ Cardinality(S) * c \in Nat
  <2>1. Cardinality(S) \in Nat
    BY FS_CardinalityType
  <2> DEFINE k == Cardinality(S)
  <2> HIDE DEF k
  <2>2. k \in Nat => k * (-c) = -(k * c) /\ k * c \in Nat
    OBVIOUS
  <2> QED BY <2>1, <2>2 DEF k
<1> HIDE DEF zero, d
<1>3. SumFunctionOnSet(zero, S) = 0
        /\ SumFunctionOnSet(zero, S) <= SumFunctionOnSet(f, S) + Cardinality(S) * d
  BY <1>1, SumZero, SumMargin
<1>4. SumFunctionOnSet(f, S) \in Int
  BY SumType
<1> QED BY <1>2, <1>3, <1>4

\* Terms of at most c each.
LEMMA SumAtMost ==
    ASSUME NEW f, NEW S, IsFiniteSet(S), Terms(f, S), NEW c \in Nat, \A s \in S : f[s] <= c
    PROVE  SumFunctionOnSet(f, S) <= Cardinality(S) * c
<1> DEFINE zero == [s \in S |-> 0]
<1>1. Terms(zero, S) /\ \A s \in S : zero[s] = 0 /\ f[s] <= zero[s] + c
  BY DEF Terms
<1> HIDE DEF zero
<1>2. SumFunctionOnSet(zero, S) = 0
        /\ SumFunctionOnSet(f, S) <= SumFunctionOnSet(zero, S) + Cardinality(S) * c
  BY <1>1, SumZero, SumMargin
<1>3. Cardinality(S) * c \in Int
  <2>1. Cardinality(S) \in Nat
    BY FS_CardinalityType
  <2> QED BY <2>1
<1> QED BY <1>2, <1>3

\* Part of the terms, none of them negative.
LEMMA SumSubset ==
    ASSUME NEW f, NEW S, IsFiniteSet(S), \A s \in S : f[s] \in Nat, NEW T \in SUBSET S
    PROVE  SumFunctionOnSet(f, T) <= SumFunctionOnSet(f, S)
<1> DEFINE P == {s \in SUBSET S : SumFunctionOnSet(f, s \cap T) <= SumFunctionOnSet(f, s)}
<1>1. ASSUME NEW s \in SUBSET S, \A t \in SUBSET s : t # s => t \in P PROVE s \in P
  <2>1. CASE s = {}
    <3>1. SumFunctionOnSet(f, s) = 0 /\ s \cap T = s
      BY <2>1, SumEmpty
    <3> QED BY <3>1
  <2>2. CASE s # {}
    <3> DEFINE x == Pick(s)
               u == s \ {x}
    <3>1. x \in s /\ f[x] \in Nat
      BY <2>2 DEF Pick
    <3>2. u \in SUBSET s /\ u # s
      BY <3>1
    <3>3. SumFunctionOnSet(f, u \cap T) <= SumFunctionOnSet(f, u)
      BY <1>1, <3>2
    <3>4. IsFiniteSet(s) /\ IsFiniteSet(u) /\ IsFiniteSet(u \cap T) /\ Terms(f, u)
            /\ Terms(f, u \cap T) /\ Terms(f, (u \cap T) \cup {x})
      BY <3>1, FS_Subset DEF Terms
    <3>5. SumFunctionOnSet(f, s) = f[x] + SumFunctionOnSet(f, u)
      BY <2>2, <3>4, SumStep
    <3>6. x \in T => s \cap T = (u \cap T) \cup {x}
      BY <3>1
    <3>7. x \notin T => s \cap T = u \cap T
      OBVIOUS
    <3>8. x \notin u \cap T
      OBVIOUS
    <3> HIDE DEF P, x, u
    <3>9. SumFunctionOnSet(f, u) \in Int /\ SumFunctionOnSet(f, u \cap T) \in Int
      BY <3>4, SumType
    <3>10. SumFunctionOnSet(f, (u \cap T) \cup {x}) = f[x] + SumFunctionOnSet(f, u \cap T)
      BY <3>4, <3>8, SumAdd
    <3>11. SumFunctionOnSet(f, s \cap T) <= SumFunctionOnSet(f, s)
      <4>1. CASE x \in T
        <5>1. SumFunctionOnSet(f, s \cap T) = f[x] + SumFunctionOnSet(f, u \cap T)
          BY <3>6, <3>10, <4>1, Zenon
        <5> QED BY <3>1, <3>3, <3>5, <3>9, <5>1
      <4>2. CASE x \notin T
        BY SMTT(30), <3>1, <3>3, <3>5, <3>7, <3>9, <4>2
      <4> QED BY <4>1, <4>2
    <3> QED BY <3>11 DEF P
  <2> QED BY <2>1, <2>2
<1>2. SUBSET S \subseteq P
  <2> HIDE DEF P
  <2> QED BY <1>1, FiniteInduction
<1>3. S \in P /\ S \cap T = T
  BY <1>2
<1> QED BY <1>3

\* The same terms under other names.
LEMMA SumReindex ==
    ASSUME NEW f, NEW S, IsFiniteSet(S), Terms(f, S),
           NEW T, IsFiniteSet(T), NEW h \in [S -> T], \A t \in T : \E s \in S : h[s] = t,
           \A r, s \in S : h[r] = h[s] => r = s,
           NEW g, \A s \in S : g[h[s]] = f[s]
    PROVE  SumFunctionOnSet(g, T) = SumFunctionOnSet(f, S) /\ Terms(g, T)
<1> DEFINE Image(s) == {h[x] : x \in s}
           P == {s \in SUBSET S : SumFunctionOnSet(g, Image(s)) = SumFunctionOnSet(f, s)}
<1>0. Terms(g, T)
  <2>1. ASSUME NEW t \in T PROVE g[t] \in Int
    <3>1. PICK s \in S : h[s] = t
      OBVIOUS
    <3> QED BY <3>1 DEF Terms
  <2> QED BY <2>1 DEF Terms
<1>1. ASSUME NEW s \in SUBSET S, \A t \in SUBSET s : t # s => t \in P PROVE s \in P
  <2>1. CASE s = {}
    <3>1. SumFunctionOnSet(f, s) = 0 /\ Image(s) = {}
      BY <2>1, SumEmpty
    <3> QED BY <3>1, SumEmpty
  <2>2. CASE s # {}
    <3> DEFINE x == Pick(s)
               u == s \ {x}
               y == h[x]
               v == Image(u)
    <3>1. x \in s /\ x \in S
      BY <2>2 DEF Pick
    <3>2. u \in SUBSET s /\ u # s
      BY <3>1
    <3>3. SumFunctionOnSet(g, v) = SumFunctionOnSet(f, u)
      BY <1>1, <3>2
    <3>4. IsFiniteSet(s) /\ v \subseteq T /\ y \in T
      BY <3>1, FS_Subset
    <3>5. y \notin v
      BY <3>1
    <3>6. Image(s) = v \cup {y}
      BY <3>1
    <3>7. g[y] = f[x]
      BY <3>1
    <3>8. SumFunctionOnSet(f, s) = f[x] + SumFunctionOnSet(f, u)
      BY <2>2, <3>4, SumStep
    <3>9. IsFiniteSet(v) /\ Terms(g, v \cup {y})
      BY <1>0, <3>4, FS_Subset DEF Terms
    <3> HIDE DEF Image, P, x, u, y, v
    <3>10. SumFunctionOnSet(g, v \cup {y}) = g[y] + SumFunctionOnSet(g, v)
      BY <3>5, <3>9, SumAdd
    <3>11. SumFunctionOnSet(g, Image(s)) = SumFunctionOnSet(f, s)
      BY <3>3, <3>6, <3>7, <3>8, <3>10
    <3> QED BY <3>11 DEF P
  <2> QED BY <2>1, <2>2
<1>2. SUBSET S \subseteq P
  <2> HIDE DEF P
  <2> QED BY <1>1, FiniteInduction
<1>3. S \in P /\ Image(S) = T
  BY <1>2
<1> QED BY <1>0, <1>3

=============================================================================
