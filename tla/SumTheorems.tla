---------------------------- MODULE SumTheorems ----------------------------
(***************************************************************************)
(* What the sums and the folds of the models do for every finite set and   *)
(* every sequence: quantities sold out of a lot, instalments of a chit,    *)
(* positions of a snapshot; lots gone through by a sale, payments of a     *)
(* loan by day, months of a balance.                                       *)
(*                                                                         *)
(* SumFunctionOnSet of the community modules is a recursive function, that *)
(* is, a CHOOSE of its defining equation.  That the equation has a         *)
(* solution, and what it computes, is shown by induction on finite sets.   *)
(* The induction is stated of a set of sets, T, not of a predicate, so     *)
(* that it can be cited: a least counterexample is a minimal element of    *)
(* the subsets outside T.                                                  *)
(*                                                                         *)
(* A fold over a sequence is a CHOOSE too, of a table over the sets of     *)
(* places, of which it takes the greatest last.  The table exists, and     *)
(* what it says of the first places, one more at a time, is a walk; what   *)
(* is true of a walk is shown by counting its steps.  The sequences walked *)
(* over are orders of finite sets, which exist for every total order.      *)
(***************************************************************************)
EXTENDS Integers, FiniteSets, Functions, FiniteSetTheorems,
        NaturalsInduction, WellFoundedInduction, TLAPS

(* A set of subsets of D that holds s as soon as it holds every smaller    *)
(* set holds them all.                                                     *)
LEMMA SubsetInduction ==
  ASSUME NEW D, IsFiniteSet(D), NEW T,
         \A s \in SUBSET D : (\A t \in SUBSET s : t # s => t \in T) => s \in T
  PROVE  \A s \in SUBSET D : s \in T
<1>1. IsWellFoundedOn(StrictSubsetOrdering(D), SUBSET D)
  BY FS_StrictSubsetOrderingWellFounded, FS_FiniteSubsetsOfFinite
<1> SUFFICES ASSUME (SUBSET D) \ T # {} PROVE FALSE
  OBVIOUS
<1> DEFINE R == StrictSubsetOrdering(D)
           U == (SUBSET D) \ T
<1>2. PICK s \in U : \A t \in U : ~(<<t, s>> \in R)
  <2> HIDE DEF R
  <2>1. U \subseteq SUBSET D /\ U # {}
    OBVIOUS
  <2> HIDE DEF U
  <2>2. QED
    BY <1>1, <2>1, WFMin DEF R
<1>3. \A t \in SUBSET s : t # s => t \in T
  BY <1>2 DEF StrictSubsetOrdering
<1>4. s \in SUBSET D /\ s \notin T
  BY <1>2
<1>5. s \in T
  BY <1>3, <1>4
<1>6. QED
  BY <1>4, <1>5
---------------------------------------------------------------------------
\* The element a sum takes next, and the table of sums over the subsets of D.
FirstOf(s) == CHOOSE x \in s : TRUE
SumTable(f, D, g) ==
  /\ DOMAIN g = SUBSET D
  /\ \A s \in SUBSET D : g[s] = IF s = {} THEN 0 ELSE f[FirstOf(s)] + g[s \ {FirstOf(s)}]

LEMMA FirstOfIn == ASSUME NEW s, s # {} PROVE FirstOf(s) \in s
BY DEF FirstOf

\* The tables of D and of a part of D agree on the part.
LEMMA TablesAgree ==
  ASSUME NEW f, NEW D, IsFiniteSet(D), NEW E \in SUBSET D, NEW g, NEW h,
         SumTable(f, D, g), SumTable(f, E, h)
  PROVE  \A s \in SUBSET E : g[s] = h[s]
<1> DEFINE T == {s \in SUBSET E : g[s] = h[s]}
<1>1. IsFiniteSet(E)
  BY FS_Subset
<1>2. ASSUME NEW s \in SUBSET E, \A t \in SUBSET s : t # s => t \in T
      PROVE  s \in T
  <2>1. CASE s = {}
    BY <2>1 DEF SumTable
  <2>2. CASE s # {}
    <3>1. g[s] = f[FirstOf(s)] + g[s \ {FirstOf(s)}] /\ h[s] = f[FirstOf(s)] + h[s \ {FirstOf(s)}]
      BY <2>2 DEF SumTable
    <3>2. s \ {FirstOf(s)} \in T
      BY <1>2, <2>2, FirstOfIn
    <3>3. QED
      BY <3>1, <3>2
  <2>3. QED
    BY <2>1, <2>2
<1> HIDE DEF T
<1>3. \A s \in SUBSET E : s \in T
  BY <1>1, <1>2, SubsetInduction
<1>4. QED
  BY <1>3 DEF T

\* Every finite set has a table, made of those of its smaller subsets.
LEMMA TableExists ==
  ASSUME NEW f, NEW D, IsFiniteSet(D)
  PROVE  \E g : SumTable(f, D, g)
<1> DEFINE T == {s \in SUBSET D : \E g : SumTable(f, s, g)}
<1>1. ASSUME NEW s \in SUBSET D, \A t \in SUBSET s : t # s => t \in T
      PROVE  s \in T
  <2> DEFINE of(t) == CHOOSE g : SumTable(f, t, g)
             rest(t) == t \ {FirstOf(t)}
             h == [t \in SUBSET s |-> IF t = {} THEN 0 ELSE f[FirstOf(t)] + of(rest(t))[rest(t)]]
  <2>1. ASSUME NEW t \in SUBSET s, t # s PROVE SumTable(f, t, of(t))
    BY <1>1, <2>1
  <2>2. ASSUME NEW t \in SUBSET s, t # {}
        PROVE  rest(t) \in SUBSET t /\ rest(t) # s /\ rest(t) \in SUBSET s
    BY <2>2, FirstOfIn
  <2>3. ASSUME NEW t \in SUBSET s, t # s PROVE h[t] = of(t)[t]
    <3>1. SumTable(f, t, of(t))
      BY <2>1, <2>3
    <3>2. CASE t = {}
      <4>1. h[t] = 0
        BY <3>2
      <4> HIDE DEF of, h
      <4>2. QED
        BY <3>1, <3>2, <4>1 DEF SumTable
    <3>3. CASE t # {}
      <4>1. SumTable(f, rest(t), of(rest(t)))
        BY <2>1, <2>2, <3>3
      <4>2. IsFiniteSet(t)
        BY FS_Subset
      <4>3. of(t)[rest(t)] = of(rest(t))[rest(t)]
        <5>1. rest(t) \in SUBSET t
          BY <2>2, <3>3
        <5> HIDE DEF of, rest
        <5>2. QED
          BY <3>1, <4>1, <4>2, <5>1, TablesAgree
      <4>4. of(t)[t] = f[FirstOf(t)] + of(t)[rest(t)]
        BY <3>1, <3>3 DEF SumTable
      <4>5. h[t] = f[FirstOf(t)] + of(rest(t))[rest(t)]
        BY <3>3
      <4>6. QED
        BY <4>3, <4>4, <4>5
    <3>4. QED
      BY <3>2, <3>3
  <2>4. ASSUME NEW t \in SUBSET s, t # {} PROVE h[t] = f[FirstOf(t)] + h[rest(t)]
    <3>1. h[rest(t)] = of(rest(t))[rest(t)]
      BY <2>2, <2>3, <2>4
    <3>2. h[t] = f[FirstOf(t)] + of(rest(t))[rest(t)]
      BY <2>4
    <3>3. QED
      BY <3>1, <3>2
  <2>5. DOMAIN h = SUBSET s /\ h[{}] = 0
    OBVIOUS
  <2> HIDE DEF h
  <2>6. SumTable(f, s, h)
    BY <2>4, <2>5 DEF SumTable
  <2>7. QED
    BY <2>6
<1> HIDE DEF T
<1>2. \A s \in SUBSET D : s \in T
  BY <1>1, SubsetInduction
<1>3. QED
  BY <1>2 DEF T

\* A sum is the last entry of the table.
LEMMA SumIsEntry ==
  ASSUME NEW f, NEW D, IsFiniteSet(D), NEW g, SumTable(f, D, g)
  PROVE  SumFunctionOnSet(f, D) = g[D]
<1> DEFINE Eqn(h) == h = [s \in SUBSET D |->
                            IF s = {} THEN 0 ELSE f[FirstOf(s)] + h[s \ {FirstOf(s)}]]
           G == [s \in SUBSET D |-> g[s]]
           C == CHOOSE h : Eqn(h)
<1>1. Eqn(G)
  BY FirstOfIn DEF SumTable
<1>2. Eqn(C)
  <2> HIDE DEF G, Eqn
  <2>1. QED
    BY <1>1
<1>3. SumFunctionOnSet(f, D) = C[D]
  BY DEF SumFunctionOnSet, FoldFunctionOnSet, MapThenFoldSet, FirstOf
<1> HIDE DEF C
<1>4. SumTable(f, D, C)
  BY <1>2 DEF SumTable
<1>5. QED
  BY <1>3, <1>4, TablesAgree
---------------------------------------------------------------------------
LEMMA SumEmpty == ASSUME NEW f PROVE SumFunctionOnSet(f, {}) = 0
<1>1. PICK g : SumTable(f, {}, g)
  BY TableExists, FS_EmptySet
<1>2. SumFunctionOnSet(f, {}) = g[{}]
  BY <1>1, SumIsEntry, FS_EmptySet
<1>3. QED
  BY <1>1, <1>2 DEF SumTable

LEMMA SumFirst ==
  ASSUME NEW f, NEW D, IsFiniteSet(D), D # {}
  PROVE  SumFunctionOnSet(f, D) = f[FirstOf(D)] + SumFunctionOnSet(f, D \ {FirstOf(D)})
<1> DEFINE E == D \ {FirstOf(D)}
<1>1. PICK g : SumTable(f, D, g)
  BY TableExists
<1> DEFINE h == [s \in SUBSET E |-> g[s]]
<1>2. SumTable(f, E, h)
  BY <1>1, FirstOfIn DEF SumTable
<1>3. IsFiniteSet(E) /\ h[E] = g[E]
  BY FS_Subset
<1>4. g[D] = f[FirstOf(D)] + g[E]
  BY <1>1 DEF SumTable
<1> HIDE DEF E, h
<1>5. SumFunctionOnSet(f, D) = g[D] /\ SumFunctionOnSet(f, E) = h[E]
  BY <1>1, <1>2, <1>3, SumIsEntry
<1>6. QED
  BY <1>3, <1>4, <1>5 DEF E

\* A sum of integers is an integer, and each of its terms can be split off.
LEMMA SumSplits ==
  ASSUME NEW f, NEW D, IsFiniteSet(D), \A i \in D : f[i] \in Int
  PROVE  \A s \in SUBSET D :
           /\ SumFunctionOnSet(f, s) \in Int
           /\ \A x \in s : SumFunctionOnSet(f, s) = f[x] + SumFunctionOnSet(f, s \ {x})
<1> DEFINE sum(s) == SumFunctionOnSet(f, s)
           T == {s \in SUBSET D : sum(s) \in Int /\ \A x \in s : sum(s) = f[x] + sum(s \ {x})}
<1>1. ASSUME NEW s \in SUBSET D, \A t \in SUBSET s : t # s => t \in T
      PROVE  s \in T
  <2>1. CASE s = {}
    BY <2>1, SumEmpty
  <2>2. CASE s # {}
    <3> DEFINE c == FirstOf(s)
    <3>1. c \in s
      BY <2>2, FirstOfIn
    <3>2. sum(s) = f[c] + sum(s \ {c})
      BY <2>2, SumFirst, FS_Subset
    <3>3. sum(s \ {c}) \in Int /\ f[c] \in Int
      BY <1>1, <3>1
    <3>4. ASSUME NEW x \in s, x # c PROVE sum(s) = f[x] + sum(s \ {x})
      <4>1. s \ {c} \in T /\ s \ {x} \in T /\ s \ {c, x} \in T
        BY <1>1, <3>1, <3>4
      <4>2. sum(s \ {c}) = f[x] + sum((s \ {c}) \ {x})
        BY <3>4, <4>1
      <4>3. sum(s \ {x}) = f[c] + sum((s \ {x}) \ {c})
        BY <3>1, <3>4, <4>1
      <4>4. sum((s \ {c}) \ {x}) = sum(s \ {c, x}) /\ sum((s \ {x}) \ {c}) = sum(s \ {c, x})
        <5>1. (s \ {c}) \ {x} = s \ {c, x} /\ (s \ {x}) \ {c} = s \ {c, x}
          OBVIOUS
        <5>2. QED
          BY <5>1, Zenon
      <4>5. sum(s \ {c, x}) \in Int /\ f[x] \in Int
        BY <4>1
      <4> HIDE DEF sum, c
      <4>6. QED
        BY <3>2, <3>3, <4>2, <4>3, <4>4, <4>5
    <3>5. sum(s) \in Int
      <4> HIDE DEF sum, c
      <4>1. QED
        BY <3>2, <3>3
    <3>6. \A x \in s : sum(s) = f[x] + sum(s \ {x})
      BY <3>2, <3>4
    <3>7. QED
      BY <3>5, <3>6
  <2>3. QED
    BY <2>1, <2>2
<1> HIDE DEF T
<1>2. \A s \in SUBSET D : s \in T
  BY <1>1, SubsetInduction
<1>3. QED
  BY <1>2 DEF T

LEMMA SumInt ==
  ASSUME NEW f, NEW D, IsFiniteSet(D), \A i \in D : f[i] \in Int
  PROVE  SumFunctionOnSet(f, D) \in Int
BY SumSplits

LEMMA SumRemove ==
  ASSUME NEW f, NEW D, IsFiniteSet(D), \A i \in D : f[i] \in Int, NEW x \in D
  PROVE  SumFunctionOnSet(f, D) = f[x] + SumFunctionOnSet(f, D \ {x})
BY SumSplits

LEMMA SumAdd ==
  ASSUME NEW f, NEW D, IsFiniteSet(D), NEW x, x \notin D,
         \A i \in D \cup {x} : f[i] \in Int
  PROVE  SumFunctionOnSet(f, D \cup {x}) = f[x] + SumFunctionOnSet(f, D)
<1>1. IsFiniteSet(D \cup {x})
  BY FS_AddElement
<1>2. (D \cup {x}) \ {x} = D
  OBVIOUS
<1>3. QED
  BY <1>1, <1>2, SumRemove

\* A sum hangs on its terms only.
LEMMA SumSame ==
  ASSUME NEW f, NEW g, NEW D, IsFiniteSet(D), \A i \in D : f[i] = g[i]
  PROVE  SumFunctionOnSet(f, D) = SumFunctionOnSet(g, D)
<1>1. PICK t : SumTable(f, D, t)
  BY TableExists
<1>2. SumTable(g, D, t)
  BY <1>1, FirstOfIn DEF SumTable
<1>3. QED
  BY <1>1, <1>2, SumIsEntry

\* Term by term: not negative, nothing, and a sum or a difference of two.
LEMMA SumNat ==
  ASSUME NEW f, NEW D, IsFiniteSet(D), \A i \in D : f[i] \in Nat
  PROVE  SumFunctionOnSet(f, D) \in Nat
<1> DEFINE T == {s \in SUBSET D : SumFunctionOnSet(f, s) \in Nat}
<1>1. ASSUME NEW s \in SUBSET D, \A t \in SUBSET s : t # s => t \in T
      PROVE  s \in T
  <2>1. CASE s = {}
    BY <2>1, SumEmpty
  <2>2. CASE s # {}
    <3>1. SumFunctionOnSet(f, s) = f[FirstOf(s)] + SumFunctionOnSet(f, s \ {FirstOf(s)})
      BY <2>2, SumFirst, FS_Subset
    <3>2. s \ {FirstOf(s)} \in T /\ f[FirstOf(s)] \in Nat
      BY <1>1, <2>2, FirstOfIn
    <3>3. QED
      BY <3>1, <3>2
  <2>3. QED
    BY <2>1, <2>2
<1> HIDE DEF T
<1>2. \A s \in SUBSET D : s \in T
  BY <1>1, SubsetInduction
<1>3. QED
  BY <1>2 DEF T

LEMMA SumZero ==
  ASSUME NEW f, NEW D, IsFiniteSet(D), \A i \in D : f[i] = 0
  PROVE  SumFunctionOnSet(f, D) = 0
<1> DEFINE T == {s \in SUBSET D : SumFunctionOnSet(f, s) = 0}
<1>1. ASSUME NEW s \in SUBSET D, \A t \in SUBSET s : t # s => t \in T
      PROVE  s \in T
  <2>1. CASE s = {}
    BY <2>1, SumEmpty
  <2>2. CASE s # {}
    <3>1. SumFunctionOnSet(f, s) = f[FirstOf(s)] + SumFunctionOnSet(f, s \ {FirstOf(s)})
      BY <2>2, SumFirst, FS_Subset
    <3>2. s \ {FirstOf(s)} \in T /\ f[FirstOf(s)] = 0
      BY <1>1, <2>2, FirstOfIn
    <3>3. QED
      BY <3>1, <3>2
  <2>3. QED
    BY <2>1, <2>2
<1> HIDE DEF T
<1>2. \A s \in SUBSET D : s \in T
  BY <1>1, SubsetInduction
<1>3. QED
  BY <1>2 DEF T

LEMMA SumMinus ==
  ASSUME NEW f, NEW g, NEW h, NEW D, IsFiniteSet(D),
         \A i \in D : f[i] \in Int /\ g[i] \in Int /\ h[i] = f[i] - g[i]
  PROVE  SumFunctionOnSet(h, D) = SumFunctionOnSet(f, D) - SumFunctionOnSet(g, D)
<1> DEFINE sum(k, s) == SumFunctionOnSet(k, s)
           T == {s \in SUBSET D : sum(h, s) = sum(f, s) - sum(g, s)}
<1>1. ASSUME NEW s \in SUBSET D, \A t \in SUBSET s : t # s => t \in T
      PROVE  s \in T
  <2>1. CASE s = {}
    BY <2>1, SumEmpty
  <2>2. CASE s # {}
    <3> DEFINE c == FirstOf(s)
               r == s \ {c}
    <3>1. c \in D /\ r \in T
      BY <1>1, <2>2, FirstOfIn
    <3>2. sum(f, s) = f[c] + sum(f, r) /\ sum(g, s) = g[c] + sum(g, r) /\ sum(h, s) = h[c] + sum(h, r)
      BY <2>2, SumFirst, FS_Subset
    <3>3. sum(f, r) \in Int /\ sum(g, r) \in Int
      BY SumInt, FS_Subset
    <3> HIDE DEF c, r
    <3>4. sum(h, r) = sum(f, r) - sum(g, r) /\ f[c] \in Int /\ g[c] \in Int /\ h[c] = f[c] - g[c]
      BY <3>1
    <3> HIDE DEF sum
    <3>5. sum(h, s) = sum(f, s) - sum(g, s)
      BY <3>2, <3>3, <3>4
    <3>6. QED
      BY <3>5
  <2>3. QED
    BY <2>1, <2>2
<1> HIDE DEF T
<1>2. \A s \in SUBSET D : s \in T
  BY <1>1, SubsetInduction
<1>3. QED
  BY <1>2 DEF T

\* Two parts that do not meet.
LEMMA SumUnion ==
  ASSUME NEW f, NEW A, NEW B, IsFiniteSet(A), IsFiniteSet(B), A \cap B = {},
         \A i \in A \cup B : f[i] \in Int
  PROVE  SumFunctionOnSet(f, A \cup B) = SumFunctionOnSet(f, A) + SumFunctionOnSet(f, B)
<1> DEFINE sum(s) == SumFunctionOnSet(f, s)
           T == {s \in SUBSET B : sum(A \cup s) = sum(A) + sum(s)}
<1>1. ASSUME NEW s \in SUBSET B, \A t \in SUBSET s : t # s => t \in T
      PROVE  s \in T
  <2>1. CASE s = {}
    <3>1. sum(s) = 0 /\ sum(A) \in Int
      BY <2>1, SumEmpty, SumInt
    <3>2. A \cup s = A
      BY <2>1
    <3>3. sum(A \cup s) = sum(A)
      BY <3>2, Zenon
    <3> HIDE DEF sum
    <3>4. QED
      BY <3>1, <3>3
  <2>2. CASE s # {}
    <3> DEFINE c == FirstOf(s)
               r == s \ {c}
    <3>1. c \in s /\ c \notin A /\ r \in T
      BY <1>1, <2>2, FirstOfIn
    <3>2. IsFiniteSet(s) /\ IsFiniteSet(r) /\ IsFiniteSet(A \cup s)
      BY FS_Subset, FS_Union
    <3>3. sum(s) = f[c] + sum(r)
      BY <3>1, <3>2, SumRemove
    <3>4. sum(A \cup s) = f[c] + sum((A \cup s) \ {c})
      BY <3>1, <3>2, SumRemove
    <3>5. sum((A \cup s) \ {c}) = sum(A \cup r)
      <4>1. (A \cup s) \ {c} = A \cup r
        BY <3>1
      <4>2. QED
        BY <4>1, Zenon
    <3>6. sum(r) \in Int /\ sum(A) \in Int /\ f[c] \in Int
      BY <3>1, <3>2, SumInt
    <3> HIDE DEF c, r
    <3>7. sum(A \cup r) = sum(A) + sum(r)
      BY <3>1
    <3> HIDE DEF sum
    <3>8. sum(A \cup s) = sum(A) + sum(s)
      BY <3>3, <3>4, <3>5, <3>6, <3>7
    <3>9. QED
      BY <3>8
  <2>3. QED
    BY <2>1, <2>2
<1> HIDE DEF T
<1>2. \A s \in SUBSET B : s \in T
  BY <1>1, SubsetInduction
<1>3. B \in T
  BY <1>2
<1>4. QED
  BY <1>3 DEF T

\* Terms that are nothing may be left out.
LEMMA SumSupport ==
  ASSUME NEW f, NEW D, IsFiniteSet(D), NEW A \in SUBSET D,
         \A i \in D : f[i] \in Int, \A i \in D \ A : f[i] = 0
  PROVE  SumFunctionOnSet(f, D) = SumFunctionOnSet(f, A)
<1>1. IsFiniteSet(A) /\ IsFiniteSet(D \ A) /\ A \cup (D \ A) = D /\ A \cap (D \ A) = {}
  BY FS_Subset
<1>2. SumFunctionOnSet(f, D \ A) = 0 /\ SumFunctionOnSet(f, A) \in Int
  BY <1>1, SumZero, SumInt
<1>3. SumFunctionOnSet(f, A \cup (D \ A)) = SumFunctionOnSet(f, A) + SumFunctionOnSet(f, D \ A)
  BY <1>1, SumUnion
<1>4. SumFunctionOnSet(f, D) = SumFunctionOnSet(f, A \cup (D \ A))
  BY <1>1, Zenon
<1>5. QED
  BY <1>2, <1>3, <1>4

---------------------------------------------------------------------------
\* What a finite set is sorted under is finite.
LEMMA FiniteKeys ==
  ASSUME NEW D, IsFiniteSet(D), NEW key, DOMAIN key = D
  PROVE  IsFiniteSet({key[i] : i \in D})
<1> DEFINE K == {key[i] : i \in D}
           onto == [i \in D |-> key[i]]
<1>1. onto \in [D -> K] /\ \A k \in K : \E i \in D : onto[i] = k
  OBVIOUS
<1>2. onto \in Surjection(D, K)
  <2> HIDE DEF onto, K
  <2>1. QED
    BY <1>1 DEF Surjection
<1> HIDE DEF onto, K
<1>3. IsFiniteSet(K)
  BY <1>2, FS_Surjection
<1>4. QED
  BY <1>3 DEF K

\* What a key stands for.
Under(D, key, k) == {i \in D : key[i] = k}

(* Sorted under keys and summed key by key, nothing is lost or counted     *)
(* twice.                                                                  *)
LEMMA SumByKey ==
  ASSUME NEW f, NEW D, IsFiniteSet(D), \A i \in D : f[i] \in Int,
         NEW K, IsFiniteSet(K), NEW key, \A i \in D : key[i] \in K,
         NEW g, \A k \in K : g[k] = SumFunctionOnSet(f, Under(D, key, k))
  PROVE  SumFunctionOnSet(g, K) = SumFunctionOnSet(f, D)
<1> DEFINE of(s) == {i \in D : key[i] \in s}
           T == {s \in SUBSET K : SumFunctionOnSet(g, s) = SumFunctionOnSet(f, of(s))}
<1>1. ASSUME NEW k \in K
      PROVE  g[k] \in Int
  <2>1. IsFiniteSet(Under(D, key, k)) /\ \A i \in Under(D, key, k) : f[i] \in Int
    BY FS_Subset DEF Under
  <2>2. QED
    BY <2>1, SumInt
<1>2. ASSUME NEW s \in SUBSET K, \A t \in SUBSET s : t # s => t \in T
      PROVE  s \in T
  <2>1. CASE s = {}
    <3>1. of(s) = {}
      BY <2>1
    <3>2. SumFunctionOnSet(f, of(s)) = SumFunctionOnSet(f, {})
      BY <3>1, Zenon
    <3>3. SumFunctionOnSet(g, s) = 0
      BY <2>1, SumEmpty
    <3>4. QED
      BY <3>2, <3>3, SumEmpty
  <2>2. CASE s # {}
    <3> DEFINE c == FirstOf(s)
               r == s \ {c}
               one == Under(D, key, c)
    <3>1. c \in s /\ c \in K /\ r \in T
      BY <1>2, <2>2, FirstOfIn
    <3>2. IsFiniteSet(s) /\ \A k \in s : g[k] \in Int
      BY <1>1, FS_Subset
    <3>3. SumFunctionOnSet(g, s) = g[c] + SumFunctionOnSet(g, r)
      BY <3>1, <3>2, SumRemove
    <3>4. g[c] = SumFunctionOnSet(f, one)
      BY <3>1
    <3>5. of(s) = one \cup of(r) /\ one \cap of(r) = {}
      BY <3>1 DEF Under
    <3>6. IsFiniteSet(one) /\ IsFiniteSet(of(r)) /\ \A i \in one \cup of(r) : f[i] \in Int
      BY FS_Subset DEF Under
    <3>7. SumFunctionOnSet(g, r) = SumFunctionOnSet(f, of(r))
      BY <3>1
    <3> HIDE DEF c, r, one, of
    <3>8. SumFunctionOnSet(f, one \cup of(r)) = SumFunctionOnSet(f, one) + SumFunctionOnSet(f, of(r))
      BY <3>5, <3>6, SumUnion
    <3>9. SumFunctionOnSet(f, of(s)) = SumFunctionOnSet(f, one \cup of(r))
      BY <3>5, Zenon
    <3>10. QED
      BY <3>3, <3>4, <3>7, <3>8, <3>9
  <2>3. QED
    BY <2>1, <2>2
<1> HIDE DEF T
<1>3. K \in T
  <2>1. \A s \in SUBSET K : s \in T
    BY <1>2, SubsetInduction
  <2>2. QED
    BY <2>1
<1>4. of(K) = D
  OBVIOUS
<1>5. SumFunctionOnSet(f, of(K)) = SumFunctionOnSet(f, D)
  BY <1>4, Zenon
<1>6. QED
  BY <1>3, <1>5 DEF T

\* Keys that tell the terms apart stand for them.
LEMMA SumRenamed ==
  ASSUME NEW f, NEW D, IsFiniteSet(D), \A i \in D : f[i] \in Int,
         NEW key, DOMAIN key = D, \A i, j \in D : key[i] = key[j] => i = j,
         NEW g, \A i \in D : g[key[i]] = f[i]
  PROVE  SumFunctionOnSet(g, {key[i] : i \in D}) = SumFunctionOnSet(f, D)
<1> DEFINE K == {key[i] : i \in D}
<1>1. IsFiniteSet(K) /\ \A i \in D : key[i] \in K
  BY FiniteKeys
<1>2. ASSUME NEW k \in K
      PROVE  g[k] = SumFunctionOnSet(f, Under(D, key, k))
  <2>1. PICK i \in D : k = key[i]
    OBVIOUS
  <2> HIDE DEF K
  <2>2. Under(D, key, k) = {i}
    BY <2>1 DEF Under
  <2>3. SumFunctionOnSet(f, Under(D, key, k)) = SumFunctionOnSet(f, {i})
    BY <2>2, Zenon
  <2>4. SumFunctionOnSet(f, {i}) = f[i] + SumFunctionOnSet(f, {i} \ {i})
    <3>1. IsFiniteSet({i}) /\ \A j \in {i} : f[j] \in Int
      BY FS_Singleton
    <3>2. QED
      BY <3>1, SumRemove
  <2>5. {i} \ {i} = {}
    OBVIOUS
  <2>6. SumFunctionOnSet(f, {i} \ {i}) = SumFunctionOnSet(f, {})
    BY <2>5, Zenon
  <2>7. SumFunctionOnSet(f, {}) = 0
    BY SumEmpty
  <2>8. QED
    BY <2>1, <2>3, <2>4, <2>6, <2>7
<1> HIDE DEF K
<1>3. SumFunctionOnSet(g, K) = SumFunctionOnSet(f, D)
  BY <1>1, <1>2, SumByKey
<1>4. QED
  BY <1>3 DEF K

\* A sum when one of its terms is raised.
LEMMA SumRaised ==
  ASSUME NEW f, NEW g, NEW D, IsFiniteSet(D), NEW x \in D, NEW d \in Int,
         \A i \in D : f[i] \in Int, g[x] = f[x] + d, \A i \in D : i # x => g[i] = f[i]
  PROVE  SumFunctionOnSet(g, D) = SumFunctionOnSet(f, D) + d
<1>1. \A i \in D : g[i] \in Int
  BY SMT
<1>2. IsFiniteSet(D \ {x})
  BY FS_RemoveElement
<1>3. SumFunctionOnSet(g, D \ {x}) = SumFunctionOnSet(f, D \ {x})
  BY <1>2, SumSame
<1>4. SumFunctionOnSet(f, D \ {x}) \in Int
  BY <1>2, SumInt
<1>5. SumFunctionOnSet(f, D) = f[x] + SumFunctionOnSet(f, D \ {x})
  BY SumRemove
<1>6. SumFunctionOnSet(g, D) = g[x] + SumFunctionOnSet(g, D \ {x})
  BY <1>1, SumRemove
<1>7. f[x] \in Int
  OBVIOUS
<1>8. QED
  BY <1>3, <1>4, <1>5, <1>6, <1>7

\* What all terms are multiplied by, the sum is multiplied by.
LEMMA SumScaled ==
  ASSUME NEW D, IsFiniteSet(D), NEW f, \A i \in D : f[i] \in Int, NEW c \in Int,
         NEW g, \A i \in D : g[i] = f[i] * c
  PROVE  SumFunctionOnSet(g, D) = SumFunctionOnSet(f, D) * c
<1> DEFINE T == {s \in SUBSET D : SumFunctionOnSet(g, s) = SumFunctionOnSet(f, s) * c}
<1>1. ASSUME NEW s \in SUBSET D, \A t \in SUBSET s : t # s => t \in T
      PROVE  s \in T
  <2>1. CASE s = {}
    <3>1. SumFunctionOnSet(g, s) = 0 /\ SumFunctionOnSet(f, s) = 0
      BY <2>1, SumEmpty
    <3>2. QED
      BY <3>1
  <2>2. CASE s # {}
    <3> DEFINE x == FirstOf(s)
               r == s \ {x}
    <3>1. x \in s /\ r \in SUBSET s /\ r # s
      BY <2>2, FirstOfIn
    <3>2. r \in T
      BY <1>1, <3>1
    <3>3. IsFiniteSet(s) /\ (\A i \in s : f[i] \in Int)
      BY FS_Subset
    <3>4. \A i \in s : g[i] \in Int
      <4>1. ASSUME NEW i \in s PROVE g[i] \in Int
        <5>1. f[i] \in Int /\ g[i] = f[i] * c
          OBVIOUS
        <5>2. QED
          BY <5>1
      <4>2. QED
        BY <4>1
    <3> HIDE DEF x
    <3>5. /\ SumFunctionOnSet(f, s) = f[x] + SumFunctionOnSet(f, r)
          /\ SumFunctionOnSet(g, s) = g[x] + SumFunctionOnSet(g, r)
      BY <3>1, <3>3, <3>4, SumRemove
    <3>6. SumFunctionOnSet(g, r) = SumFunctionOnSet(f, r) * c /\ g[x] = f[x] * c
      BY <3>1, <3>2
    <3>7. f[x] \in Int /\ SumFunctionOnSet(f, r) \in Int
      <4>1. IsFiniteSet(r) /\ \A i \in r : f[i] \in Int
        BY <3>1, <3>3, FS_Subset
      <4>2. QED
        BY <3>1, <4>1, SumInt
    <3>8. (f[x] + SumFunctionOnSet(f, r)) * c = f[x] * c + SumFunctionOnSet(f, r) * c
      BY <3>7
    <3>9. QED
      BY <3>5, <3>6, <3>8
  <2>3. QED
    BY <2>1, <2>2
<1> HIDE DEF T
<1>2. D \in T
  BY <1>1, SubsetInduction
<1>3. QED
  BY <1>2 DEF T
---------------------------------------------------------------------------
\* Whatever holds of nothing and of one more holds of every number.
LEMMA Counting ==
  ASSUME NEW T, 0 \in T, \A k \in Nat : k \in T => k + 1 \in T
  PROVE  \A k \in Nat : k \in T
<1> SUFFICES ASSUME Nat \ T # {} PROVE FALSE
  OBVIOUS
<1>1. PICK k \in Nat \ T : \A j \in Nat \ T : ~(<<j, k>> \in OpToRel(<, Nat))
  BY NatLessThanWellFounded, WFMin
<1> k \in Nat /\ k \notin T
  BY <1>1
<1>2. k # 0 /\ k - 1 \in Nat /\ k - 1 < k
  OBVIOUS
<1>3. <<k - 1, k>> \in OpToRel(<, Nat)
  BY <1>2 DEF OpToRel
<1>4. k - 1 \in T
  BY <1>1, <1>2, <1>3
<1>5. (k - 1) + 1 \in T
  BY <1>2, <1>4
<1>6. (k - 1) + 1 = k
  OBVIOUS
<1>7. QED
  BY <1>5, <1>6

(* A walk: from base, the i-th step takes where it has come to to the      *)
(* next place.                                                             *)
Walks(g, base, n, step) == g[0] = base /\ \A i \in 1..n : g[i] = step[i][g[i - 1]]
LEMMA WalkExists ==
  ASSUME NEW D, NEW base \in D, NEW n \in Nat, NEW step \in [1..n -> [D -> D]]
  PROVE  \E g \in [0..n -> D] : Walks(g, base, n, step)
<1> DEFINE T == {k \in Nat : k <= n => \E g \in [0..k -> D] : Walks(g, base, k, step)}
<1>1. 0 \in T
  <2>1. [i \in 0..0 |-> base] \in [0..0 -> D] /\ Walks([i \in 0..0 |-> base], base, 0, step)
    BY DEF Walks
  <2>2. QED
    BY <2>1
<1>2. ASSUME NEW k \in Nat, k \in T
      PROVE  k + 1 \in T
  <2> SUFFICES ASSUME k + 1 <= n
               PROVE  \E g \in [0..(k + 1) -> D] : Walks(g, base, k + 1, step)
    OBVIOUS
  <2>1. PICK g \in [0..k -> D] : Walks(g, base, k, step)
    BY <1>2
  <2> DEFINE h == [i \in 0..(k + 1) |-> IF i = k + 1 THEN step[k + 1][g[k]] ELSE g[i]]
  <2>2. step[k + 1][g[k]] \in D
    BY <2>1
  <2>3. h \in [0..(k + 1) -> D]
    BY <2>1, <2>2
  <2>4. Walks(h, base, k + 1, step)
    <3>1. h[0] = base /\ h[k + 1] = step[k + 1][h[k]]
      BY <2>1 DEF Walks
    <3>2. \A i \in 1..k : h[i] = step[i][h[i - 1]]
      BY <2>1 DEF Walks
    <3> HIDE DEF h
    <3>3. \A i \in 1..(k + 1) : i = k + 1 \/ i \in 1..k
      OBVIOUS
    <3>4. (k + 1) - 1 = k
      OBVIOUS
    <3>5. QED
      BY <3>1, <3>2, <3>3, <3>4 DEF Walks
  <2>5. QED
    BY <2>3, <2>4
<1> HIDE DEF T
<1>3. n \in T
  BY <1>1, <1>2, Counting
<1>4. QED
  BY <1>3 DEF T

(* What a fold over a sequence of n goes through: a table of the values    *)
(* for every set of places, of which the greatest is taken last.           *)
Greatest(top, n) ==
  \A s \in SUBSET (1..n) : s # {} => top[s] \in s /\ \A j \in s : j <= top[s]
FoldTable(g, base, n, step, top) ==
  \A s \in SUBSET (1..n) :
    g[s] = IF s = {} THEN base ELSE step[top[s]][g[s \ {top[s]}]]
LEMMA FoldTableExists ==
  ASSUME NEW D, NEW base \in D, NEW n \in Nat, NEW step \in [1..n -> [D -> D]],
         NEW top, Greatest(top, n)
  PROVE  \E g \in [SUBSET (1..n) -> D] : FoldTable(g, base, n, step, top)
<1> DEFINE folds(k) == \E g \in [SUBSET (1..k) -> D] : FoldTable(g, base, k, step, top)
           T == {k \in Nat : k <= n => folds(k)}
<1>1. 0 \in T
  <2> DEFINE g == [s \in SUBSET (1..0) |-> base]
  <2>1. \A s \in SUBSET (1..0) : s = {}
    OBVIOUS
  <2>2. g \in [SUBSET (1..0) -> D] /\ FoldTable(g, base, 0, step, top)
    BY <2>1 DEF FoldTable
  <2>3. folds(0)
    BY <2>2
  <2> HIDE DEF folds
  <2>4. QED
    BY <2>3
<1>2. ASSUME NEW k \in Nat, k \in T
      PROVE  k + 1 \in T
  <2> SUFFICES ASSUME k + 1 <= n, folds(k)
               PROVE  folds(k + 1)
    <3> HIDE DEF folds
    <3>1. QED
      BY <1>2
  <2>1. PICK g \in [SUBSET (1..k) -> D] : FoldTable(g, base, k, step, top)
    OBVIOUS
  <2> DEFINE h == [s \in SUBSET (1..(k + 1)) |->
                     IF k + 1 \in s THEN step[k + 1][g[s \ {k + 1}]] ELSE g[s]]
  <2>2. ASSUME NEW s \in SUBSET (1..(k + 1))
        PROVE  s \ {k + 1} \in SUBSET (1..k) /\ s \in SUBSET (1..n)
               /\ (k + 1 \notin s => s \in SUBSET (1..k))
    <3>1. \A i \in s : i # k + 1 => i \in 1..k
      OBVIOUS
    <3>2. \A i \in s : i \in 1..n
      OBVIOUS
    <3>3. QED
      BY <3>1, <3>2
  <2>3. h \in [SUBSET (1..(k + 1)) -> D]
    <3>1. ASSUME NEW s \in SUBSET (1..(k + 1))
          PROVE  (IF k + 1 \in s THEN step[k + 1][g[s \ {k + 1}]] ELSE g[s]) \in D
      <4>1. g[s \ {k + 1}] \in D /\ (k + 1 \notin s => g[s] \in D)
        BY <2>1, <2>2
      <4>2. step[k + 1] \in [D -> D]
        OBVIOUS
      <4>3. QED
        BY <4>1, <4>2
    <3>2. QED
      BY <3>1
  <2>4. ASSUME NEW s \in SUBSET (1..(k + 1))
        PROVE  h[s] = IF s = {} THEN base ELSE step[top[s]][h[s \ {top[s]}]]
    <3>1. CASE k + 1 \in s
      <4>1. top[s] = k + 1
        <5>1. top[s] \in s /\ k + 1 <= top[s]
          BY <2>2, <3>1 DEF Greatest
        <5>2. QED
          BY <5>1
      <4>2. s \ {k + 1} \in SUBSET (1..k) /\ k + 1 \notin s \ {k + 1}
        BY <2>2
      <4>3. h[s \ {k + 1}] = g[s \ {k + 1}]
        <5>1. s \ {k + 1} \in SUBSET (1..(k + 1))
          OBVIOUS
        <5>2. QED
          BY <4>2, <5>1
      <4>4. h[s] = step[k + 1][g[s \ {k + 1}]]
        BY <3>1
      <4>5. s # {}
        BY <3>1
      <4> HIDE DEF h
      <4>6. QED
        BY <4>1, <4>3, <4>4, <4>5
    <3>2. CASE k + 1 \notin s
      <4>1. s \in SUBSET (1..k) /\ h[s] = g[s]
        BY <2>2, <3>2
      <4>2. g[s] = IF s = {} THEN base ELSE step[top[s]][g[s \ {top[s]}]]
        BY <2>1, <4>1 DEF FoldTable
      <4>3. h[s \ {top[s]}] = g[s \ {top[s]}]
        BY <3>2
      <4> HIDE DEF h
      <4>4. QED
        BY <4>1, <4>2, <4>3
    <3>3. QED
      BY <3>1, <3>2
  <2> HIDE DEF h
  <2>5. FoldTable(h, base, k + 1, step, top)
    BY <2>4 DEF FoldTable
  <2>6. QED
    BY <2>3, <2>5
<1> HIDE DEF T
<1>3. n \in T
  BY <1>1, <1>2, Counting
<1>4. folds(n)
  <2> HIDE DEF folds
  <2>1. QED
    BY <1>3 DEF T
<1>5. QED
  BY <1>4

\* Tables that start alike and go on alike agree.
LEMMA StepsAgree ==
  ASSUME NEW n \in Nat, NEW f, NEW g, f[0] = g[0],
         \A i \in 1..n : f[i - 1] = g[i - 1] => f[i] = g[i]
  PROVE  \A i \in 0..n : f[i] = g[i]
<1> DEFINE T == {k \in Nat : k <= n => f[k] = g[k]}
<1>1. 0 \in T
  OBVIOUS
<1>2. ASSUME NEW k \in Nat, k \in T
      PROVE  k + 1 \in T
  <2> SUFFICES ASSUME k + 1 <= n
               PROVE  f[k + 1] = g[k + 1]
    OBVIOUS
  <2>1. k + 1 \in 1..n /\ (k + 1) - 1 = k /\ f[k] = g[k]
    BY <1>2
  <2>2. QED
    BY <2>1
<1> HIDE DEF T
<1>3. \A k \in Nat : k \in T
  BY <1>1, <1>2, Counting
<1>4. QED
  BY <1>3 DEF T

\* Numbers that never fall from one to the next never fall.
LEMMA NeverFalls ==
  ASSUME NEW f, \A n \in Nat : f[n] \in Int, \A n \in Nat : f[n] <= f[n + 1],
         NEW i \in Nat, NEW j \in Nat, i <= j
  PROVE  f[i] <= f[j]
<1> DEFINE T == {k \in Nat : f[i] <= f[i + k]}
<1>1. 0 \in T
  BY i + 0 = i
<1>2. ASSUME NEW k \in Nat, k \in T
      PROVE  k + 1 \in T
  <2>1. f[i] <= f[i + k] /\ f[i + k] <= f[(i + k) + 1] /\ i + k \in Nat
    BY <1>2
  <2>2. (i + k) + 1 = i + (k + 1) /\ i + (k + 1) \in Nat
    OBVIOUS
  <2>3. f[i] \in Int /\ f[i + k] \in Int /\ f[i + (k + 1)] \in Int
    BY <2>1, <2>2
  <2>4. QED
    BY <2>1, <2>2, <2>3
<1> HIDE DEF T
<1>3. j - i \in T
  BY <1>1, <1>2, Counting
<1>4. i + (j - i) = j
  OBVIOUS
<1>5. QED
  BY <1>3, <1>4 DEF T

\* A table that starts in D and stays there from one entry to the next.
Stays(f, D, n) == f[0] \in D /\ \A i \in 1..n : f[i - 1] \in D => f[i] \in D
LEMMA StaysIn ==
  ASSUME NEW D, NEW n \in Nat, NEW f, Stays(f, D, n)
  PROVE  \A i \in 0..n : f[i] \in D
<1> DEFINE T == {k \in Nat : k <= n => f[k] \in D}
<1>1. 0 \in T
  BY DEF Stays
<1>2. ASSUME NEW k \in Nat, k \in T
      PROVE  k + 1 \in T
  <2> SUFFICES ASSUME k + 1 <= n
               PROVE  f[k + 1] \in D
    OBVIOUS
  <2>1. k + 1 \in 1..n /\ (k + 1) - 1 = k /\ f[k] \in D
    BY <1>2
  <2>2. QED
    BY <2>1 DEF Stays
<1> HIDE DEF T
<1>3. \A k \in Nat : k \in T
  BY <1>1, <1>2, Counting
<1>4. QED
  BY <1>3 DEF T

\* The sum of equal terms.
LEMMA SumFlat ==
  ASSUME NEW f, NEW c \in Nat, NEW from \in Nat, NEW to \in Nat, from <= to,
         \A d \in from..(to - 1) : f[d] = c
  PROVE  SumFunctionOnSet(f, from..(to - 1)) = c * (to - from)
<1> DEFINE sum(k) == SumFunctionOnSet(f, from..(from + k - 1))
           T == {k \in Nat : from + k <= to => sum(k) = c * k}
<1>1. 0 \in T
  <2>1. from..(from + 0 - 1) = {}
    OBVIOUS
  <2>2. sum(0) = SumFunctionOnSet(f, {})
    BY <2>1, Zenon
  <2>3. sum(0) = 0
    BY <2>2, SumEmpty
  <2> HIDE DEF sum
  <2>4. QED
    BY <2>3
<1>2. ASSUME NEW k \in Nat, k \in T
      PROVE  k + 1 \in T
  <2> SUFFICES ASSUME from + (k + 1) <= to
               PROVE  sum(k + 1) = c * (k + 1)
    <3> HIDE DEF sum
    <3>1. QED
      OBVIOUS
  <2> DEFINE D == from..(from + (k + 1) - 1)
             x == from + k
  <2>1. x \in D /\ D \ {x} = from..(from + k - 1) /\ x \in from..(to - 1) /\ from + k <= to
    OBVIOUS
  <2>2. IsFiniteSet(D) /\ \A d \in D : f[d] = c /\ f[d] \in Int
    <3>1. IsFiniteSet(D)
      BY FS_Interval
    <3>2. \A d \in D : d \in from..(to - 1)
      OBVIOUS
    <3> HIDE DEF D
    <3>3. QED
      BY <3>1, <3>2
  <2>3. sum(k) = c * k
    <3> HIDE DEF sum
    <3>1. QED
      BY <1>2, <2>1
  <2>4. SumFunctionOnSet(f, D \ {x}) = sum(k)
    BY <2>1, Zenon
  <2>5. sum(k + 1) = SumFunctionOnSet(f, D)
    OBVIOUS
  <2> HIDE DEF D, x, sum
  <2>6. SumFunctionOnSet(f, D) = f[x] + SumFunctionOnSet(f, D \ {x})
    BY <2>1, <2>2, SumRemove
  <2>7. f[x] = c
    BY <2>1
  <2>8. c * (k + 1) = c + c * k
    OBVIOUS
  <2>9. QED
    BY <2>3, <2>4, <2>5, <2>6, <2>7, <2>8
<1> HIDE DEF T
<1>3. to - from \in T
  BY <1>1, <1>2, Counting
<1>4. from + (to - from) = to /\ from..(from + (to - from) - 1) = from..(to - 1)
  OBVIOUS
<1>5. sum(to - from) = SumFunctionOnSet(f, from..(to - 1))
  BY <1>4, Zenon
<1> HIDE DEF sum
<1>6. QED
  BY <1>3, <1>4, <1>5 DEF T
---------------------------------------------------------------------------
(* An order of a finite set: a sequence with each member once, every       *)
(* member related by R to those after it.                                  *)
IsOrderOf(s, S, R) ==
  /\ s \in [1..Cardinality(S) -> S]
  /\ \A i, j \in 1..Cardinality(S) : i # j => s[i] # s[j]
  /\ \A i, j \in 1..Cardinality(S) : i < j => <<s[i], s[j]>> \in R

\* An order has every member at some place.
LEMMA OrderHasAll ==
  ASSUME NEW S, IsFiniteSet(S), NEW R, NEW s, IsOrderOf(s, S, R), NEW x \in S
  PROVE  \E i \in 1..Cardinality(S) : s[i] = x
<1> DEFINE n == Cardinality(S)
<1>1. n \in Nat
  BY FS_CardinalityType
<1>2. s \in Injection(1..n, S)
  <2>1. s \in [1..n -> S] /\ \A i, j \in 1..n : s[i] = s[j] => i = j
    BY DEF IsOrderOf
  <2> HIDE DEF n
  <2>2. QED
    BY <2>1 DEF Injection, IsInjective
<1>3. Cardinality(1..n) = n
  <2> HIDE DEF n
  <2>1. QED
    BY <1>1, FS_Interval
<1>4. s \in Surjection(1..n, S)
  BY <1>2, <1>3, FS_Injection
<1> HIDE DEF n
<1>5. \E i \in 1..n : s[i] = x
  BY <1>4 DEF Surjection
<1>6. QED
  BY <1>5 DEF n

\* A member that may come after all of them comes last.
LEMMA OrderAppend ==
  ASSUME NEW S, IsFiniteSet(S), NEW x, x \notin S, NEW R, NEW s, IsOrderOf(s, S, R),
         \A y \in S : <<y, x>> \in R
  PROVE  IsOrderOf([i \in 1..(Cardinality(S) + 1) |-> IF i = Cardinality(S) + 1 THEN x ELSE s[i]],
                   S \cup {x}, R)
<1> DEFINE n == Cardinality(S)
           t == [i \in 1..(n + 1) |-> IF i = n + 1 THEN x ELSE s[i]]
<1>1. n \in Nat /\ Cardinality(S \cup {x}) = n + 1
  BY FS_CardinalityType, FS_AddElement
<1>2. /\ s \in [1..n -> S]
      /\ \A i, j \in 1..n : i # j => s[i] # s[j]
      /\ \A i, j \in 1..n : i < j => <<s[i], s[j]>> \in R
  BY DEF IsOrderOf
<1> HIDE DEF n
<1>3. /\ t[n + 1] = x
      /\ \A i \in 1..n : i # n + 1 /\ t[i] = s[i]
      /\ \A i \in 1..(n + 1) : i = n + 1 \/ i \in 1..n
  BY <1>1
<1>4. t \in [1..(n + 1) -> S \cup {x}]
  <2>1. \A i \in 1..(n + 1) : t[i] \in S \cup {x}
    BY <1>2, <1>3
  <2>2. QED
    BY <2>1
<1> HIDE DEF t
<1>5. ASSUME NEW i \in 1..(n + 1), NEW j \in 1..(n + 1), i # j
      PROVE  t[i] # t[j]
  <2>1. CASE i \in 1..n /\ j \in 1..n
    <3>1. t[i] = s[i] /\ t[j] = s[j]
      BY <1>1, <1>3, <2>1
    <3>2. QED
      BY <1>2, <1>5, <2>1, <3>1
  <2>2. CASE i = n + 1
    <3>1. t[i] = x /\ j \in 1..n /\ t[j] = s[j]
      BY <1>1, <1>3, <1>5, <2>2
    <3>2. QED
      BY <1>2, <3>1
  <2>3. CASE j = n + 1
    <3>1. t[j] = x /\ i \in 1..n /\ t[i] = s[i]
      BY <1>1, <1>3, <1>5, <2>3
    <3>2. QED
      BY <1>2, <3>1
  <2>4. QED
    BY <1>3, <2>1, <2>2, <2>3
<1>6. ASSUME NEW i \in 1..(n + 1), NEW j \in 1..(n + 1), i < j
      PROVE  <<t[i], t[j]>> \in R
  <2>1. i \in 1..n /\ t[i] = s[i]
    BY <1>1, <1>3, <1>6
  <2>2. CASE j \in 1..n
    <3>1. t[j] = s[j]
      BY <1>1, <1>3, <2>2
    <3>2. QED
      BY <1>2, <1>6, <2>1, <2>2, <3>1
  <2>3. CASE j = n + 1
    <3>1. t[j] = x /\ s[i] \in S
      BY <1>2, <1>3, <2>1, <2>3
    <3>2. QED
      BY <2>1, <3>1
  <2>4. QED
    BY <1>3, <2>2, <2>3
<1>7. IsOrderOf(t, S \cup {x}, R)
  BY <1>1, <1>4, <1>5, <1>6 DEF IsOrderOf
<1>8. QED
  BY <1>7 DEF t, n

\* Without its last, an order is one of the others, who may all come before it.
LEMMA OrderFront ==
  ASSUME NEW S, IsFiniteSet(S), S # {}, NEW R, NEW s, IsOrderOf(s, S, R)
  PROVE  LET n == Cardinality(S)
         IN  /\ n \in Nat \ {0} /\ s[n] \in S
             /\ Cardinality(S \ {s[n]}) = n - 1
             /\ IsOrderOf([i \in 1..(n - 1) |-> s[i]], S \ {s[n]}, R)
             /\ \A y \in S \ {s[n]} : <<y, s[n]>> \in R
<1> DEFINE n == Cardinality(S)
           x == s[n]
           t == [i \in 1..(n - 1) |-> s[i]]
<1>1. n \in Nat \ {0}
  BY FS_CardinalityType, FS_EmptySet
<1>2. /\ s \in [1..n -> S]
      /\ \A i, j \in 1..n : i # j => s[i] # s[j]
      /\ \A i, j \in 1..n : i < j => <<s[i], s[j]>> \in R
  BY DEF IsOrderOf
<1>3. ASSUME NEW y \in S
      PROVE  \E i \in 1..n : s[i] = y
  BY OrderHasAll
<1>4. x \in S
  <2> HIDE DEF n
  <2>1. QED
    BY <1>1, <1>2
<1>5. Cardinality(S \ {x}) = n - 1
  BY <1>4, FS_RemoveElement
<1> HIDE DEF n
<1>6. \A i \in 1..(n - 1) : i \in 1..n /\ i < n /\ i # n /\ n \in 1..n
  BY <1>1
<1>7. ASSUME NEW y \in S \ {x}
      PROVE  <<y, x>> \in R
  <2>1. PICK i \in 1..n : s[i] = y
    BY <1>3
  <2>2. i < n /\ n \in 1..n
    <3>1. i # n
      BY <1>7, <2>1
    <3>2. QED
      BY <1>1, <3>1
  <2>3. QED
    BY <1>2, <2>1, <2>2
<1>8. t \in [1..(n - 1) -> S \ {x}]
  <2>1. \A i \in 1..(n - 1) : s[i] \in S \ {x}
    BY <1>2, <1>6
  <2>2. QED
    BY <2>1
<1>9. \A i \in 1..(n - 1) : t[i] = s[i]
  OBVIOUS
<1> HIDE DEF t, x
<1>10. IsOrderOf(t, S \ {x}, R)
  <2>1. \A i, j \in 1..(n - 1) : i # j => t[i] # t[j]
    BY <1>2, <1>6, <1>9
  <2>2. \A i, j \in 1..(n - 1) : i < j => <<t[i], t[j]>> \in R
    BY <1>2, <1>6, <1>9
  <2>3. QED
    BY <1>5, <1>8, <2>1, <2>2 DEF IsOrderOf
<1>11. QED
  BY <1>1, <1>4, <1>5, <1>7, <1>10 DEF n, x, t

\* Among finitely many, of whom any two are related, one may come last.
LEMMA LastExists ==
  ASSUME NEW S, IsFiniteSet(S), S # {}, NEW R,
         \A x, y \in S : x # y => <<x, y>> \in R \/ <<y, x>> \in R,
         \A x, y, z \in S : <<x, y>> \in R /\ <<y, z>> \in R => <<x, z>> \in R
  PROVE  \E m \in S : \A x \in S : x # m => <<x, m>> \in R
<1> DEFINE last(s) == \E m \in s : \A x \in s : x # m => <<x, m>> \in R
           T == {s \in SUBSET S : s # {} => last(s)}
<1>1. ASSUME NEW s \in SUBSET S, \A t \in SUBSET s : t # s => t \in T
      PROVE  s \in T
  <2> SUFFICES ASSUME s # {} PROVE last(s)
    OBVIOUS
  <2> DEFINE c == FirstOf(s)
             r == s \ {c}
  <2>1. c \in s /\ r \in T
    BY <1>1, FirstOfIn
  <2>2. CASE r = {}
    <3>1. s = {c}
      BY <2>1, <2>2
    <3> HIDE DEF c
    <3>2. QED
      BY <3>1
  <2>3. CASE r # {}
    <3>1. PICK m \in r : \A x \in r : x # m => <<x, m>> \in R
      BY <2>1, <2>3
    <3> HIDE DEF c
    <3>2. c # m /\ c \in S /\ m \in S /\ m \in s
      BY <2>1, <3>1
    <3>3. CASE <<c, m>> \in R
      <4>1. \A x \in s : x # m => <<x, m>> \in R
        BY <3>1, <3>3
      <4>2. QED
        BY <3>2, <4>1
    <3>4. CASE <<m, c>> \in R
      <4>1. ASSUME NEW x \in s, x # c
            PROVE  <<x, c>> \in R
        <5>1. x = m \/ <<x, m>> \in R
          BY <3>1, <4>1
        <5>2. x \in S
          OBVIOUS
        <5>3. QED
          BY <3>2, <3>4, <5>1, <5>2
      <4>2. QED
        BY <2>1, <4>1
    <3>5. QED
      BY <3>2, <3>3, <3>4
  <2>4. QED
    BY <2>2, <2>3
<1> HIDE DEF last, T
<1>2. \A s \in SUBSET S : s \in T
  BY <1>1, SubsetInduction
<1>3. last(S)
  BY <1>2 DEF T
<1>4. QED
  BY <1>3 DEF last

\* Any finite set has an order by a relation that is total on it.
LEMMA OrderExists ==
  ASSUME NEW S, IsFiniteSet(S), NEW R,
         \A x, y \in S : x # y => <<x, y>> \in R \/ <<y, x>> \in R,
         \A x, y, z \in S : <<x, y>> \in R /\ <<y, z>> \in R => <<x, z>> \in R
  PROVE  \E s : IsOrderOf(s, S, R)
<1> DEFINE T == {u \in SUBSET S : \E s : IsOrderOf(s, u, R)}
<1>1. ASSUME NEW u \in SUBSET S, \A t \in SUBSET u : t # u => t \in T
      PROVE  u \in T
  <2>0. IsFiniteSet(u)
    BY FS_Subset
  <2>1. CASE u = {}
    <3>1. Cardinality(u) = 0 /\ 1..0 = {}
      BY <2>1, FS_EmptySet
    <3>2. IsOrderOf([i \in 1..0 |-> i], u, R)
      BY <3>1 DEF IsOrderOf
    <3>3. QED
      BY <3>2
  <2>2. CASE u # {}
    <3>1. PICK m \in u : \A x \in u : x # m => <<x, m>> \in R
      BY <2>0, <2>2, LastExists
    <3> DEFINE r == u \ {m}
    <3>2. r \in T /\ r \cup {m} = u /\ m \notin r /\ IsFiniteSet(r)
      BY <1>1, <2>0, FS_Subset
    <3>3. PICK s : IsOrderOf(s, r, R)
      BY <3>2
    <3>4. \A y \in r : <<y, m>> \in R
      BY <3>1
    <3> HIDE DEF r
    <3>5. \E t : IsOrderOf(t, r \cup {m}, R)
      BY <3>2, <3>3, <3>4, OrderAppend
    <3>6. QED
      BY <3>2, <3>5
  <2>3. QED
    BY <2>1, <2>2
<1> HIDE DEF T
<1>2. \A u \in SUBSET S : u \in T
  BY <1>1, SubsetInduction
<1>3. QED
  BY <1>2 DEF T
---------------------------------------------------------------------------
\* Places of a sequence, if any, have a greatest.
LEMMA GreatestPlace ==
  ASSUME NEW n \in Nat, NEW s \in SUBSET (1..n), s # {}
  PROVE  \E x \in s : \A y \in s : x >= y
<1> DEFINE R == {p \in (1..n) \X (1..n) : p[1] <= p[2]}
<1>1. \A x, y \in s : (<<x, y>> \in R <=> x <= y) /\ x \in Int
  OBVIOUS
<1>2. IsFiniteSet(s)
  <2>1. IsFiniteSet(1..n)
    BY FS_Interval
  <2>2. QED
    BY <2>1, FS_Subset
<1> HIDE DEF R
<1>3. \A x, y \in s : x # y => <<x, y>> \in R \/ <<y, x>> \in R
  BY <1>1
<1>4. \A x, y, z \in s : <<x, y>> \in R /\ <<y, z>> \in R => <<x, z>> \in R
  BY <1>1
<1>5. \E m \in s : \A x \in s : x # m => <<x, m>> \in R
  BY <1>2, <1>3, <1>4, LastExists
<1>6. PICK m \in s : \A x \in s : x # m => <<x, m>> \in R
  BY <1>5
<1>7. ASSUME NEW y \in s
      PROVE  m >= y
  <2>1. y = m \/ y <= m
    BY <1>1, <1>6
  <2>2. y \in Int /\ m \in Int
    BY <1>1
  <2>3. QED
    BY <2>1, <2>2
<1>8. QED
  BY <1>7

(* A table of the values of a fold, which may be known only where its      *)
(* values are of D, goes along a walk.                                     *)
Folds(C, D, base, n, step, top) ==
  /\ C[{}] = base
  /\ \A s \in SUBSET (1..n) : s # {} /\ C[s \ {top[s]}] \in D =>
       C[s] = step[top[s]][C[s \ {top[s]}]]
LEMMA FoldWalks ==
  ASSUME NEW D, NEW base \in D, NEW n \in Nat, NEW step \in [1..n -> [D -> D]],
         NEW top, Greatest(top, n), NEW C,
         Folds(C, D, base, n, step, top)
  PROVE  \E h \in [0..n -> D] : Walks(h, base, n, step) /\ h[n] = C[1..n]
<1>0. /\ C[{}] = base
      /\ \A s \in SUBSET (1..n) : s # {} /\ C[s \ {top[s]}] \in D =>
           C[s] = step[top[s]][C[s \ {top[s]}]]
  BY DEF Folds
<1> DEFINE h == [i \in 0..n |-> C[1..i]]
<1>1. h[0] = base
  <2>1. 1..0 = {}
    OBVIOUS
  <2>2. h[0] = C[1..0]
    OBVIOUS
  <2>3. QED
    BY <1>0, <2>1, <2>2, Zenon
<1>2. ASSUME NEW i \in 1..n, h[i - 1] \in D
      PROVE  h[i] = step[i][h[i - 1]]
  <2> DEFINE t == 1..i
  <2>1. t \in SUBSET (1..n) /\ t # {} /\ i \in t /\ t \ {i} = 1..(i - 1)
    OBVIOUS
  <2>2. top[t] = i
    <3>1. top[t] \in t /\ i <= top[t]
      <4> HIDE DEF t
      <4>1. QED
        BY <2>1 DEF Greatest
    <3>2. QED
      BY <3>1
  <2>3. C[t \ {i}] = C[1..(i - 1)]
    BY <2>1, Zenon
  <2>4. h[i] = C[t] /\ h[i - 1] = C[1..(i - 1)]
    OBVIOUS
  <2> HIDE DEF h, t
  <2>5. C[t \ {top[t]}] \in D
    BY <1>2, <2>2, <2>3, <2>4
  <2>6. C[t] = step[top[t]][C[t \ {top[t]}]]
    BY <1>0, <2>1, <2>5
  <2>7. QED
    BY <2>2, <2>3, <2>4, <2>6
<1>3. h \in [0..n -> D]
  <2> DEFINE T == {k \in Nat : k <= n => h[k] \in D}
  <2>1. 0 \in T
    BY <1>1
  <2>2. ASSUME NEW k \in Nat, k \in T
        PROVE  k + 1 \in T
    <3>1. CASE k + 1 <= n
      <4> HIDE DEF h
      <4>1. k + 1 \in 1..n /\ (k + 1) - 1 = k /\ h[k] \in D
        BY <2>2, <3>1
      <4>2. h[k + 1] = step[k + 1][h[k]]
        BY <1>2, <4>1
      <4>3. h[k + 1] \in D
        BY <4>1, <4>2
      <4>4. QED
        BY <4>3
    <3>2. QED
      BY <3>1
  <2> HIDE DEF T
  <2>3. \A k \in Nat : k \in T
    BY <2>1, <2>2, Counting
  <2>4. \A k \in 0..n : h[k] \in D
    <3> HIDE DEF h
    <3>1. QED
      BY <2>3 DEF T
  <2>5. QED
    BY <2>4
<1>4. h[n] = C[1..n]
  OBVIOUS
<1> HIDE DEF h
<1>5. \A i \in 1..n : i - 1 \in 0..n
  OBVIOUS
<1>6. \A i \in 1..n : h[i] = step[i][h[i - 1]]
  BY <1>2, <1>3, <1>5
<1>7. QED
  BY <1>1, <1>3, <1>4, <1>6 DEF Walks
=============================================================================
