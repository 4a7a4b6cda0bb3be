------------------------- MODULE ThreadDetailProofs -------------------------
(***************************************************************************)
(* The detail of a thread keeps its budgets, before and after it is        *)
(* trimmed, fits the browser's bound, and tells what it leaves out: for    *)
(* every archive, budget and selected message.  Sums and shares are        *)
(* defined by recursion, so induction comes first: the provers have no     *)
(* induction rule over an operator, but of a set of numbers they can take  *)
(* the least.                                                              *)
(***************************************************************************)
EXTENDS ThreadDetail, FiniteSetTheorems, WellFoundedInduction, TLAPS

-----------------------------------------------------------------------------
(* Induction, stated of sets.                                              *)

LEMMA Least ==
  ASSUME NEW S \in SUBSET Nat, S # {} PROVE \E m \in S : \A k \in S : m <= k
<1>1. PICK m \in S : \A k \in S : ~(<<k, m>> \in OpToRel(<, Nat))
  BY NatLessThanWellFounded, WFMin
<1>2. \A k \in S : ~(k < m)
  BY <1>1, Zenon DEF OpToRel
<1>3. \A k \in S : k \in Nat /\ m \in Nat
  OBVIOUS
<1>4. \A k \in S : m <= k
  BY <1>2, <1>3
<1> QED BY <1>4

LEMMA NumbersInduct ==
  ASSUME NEW Q, 0 \in Q, \A k \in Nat : k \in Q => k + 1 \in Q PROVE Nat \subseteq Q
<1> DEFINE S == Nat \ Q
<1> SUFFICES ASSUME S # {} PROVE FALSE
  OBVIOUS
<1>1. PICK m \in S : \A k \in S : m <= k
  BY Least
<1>2. m \in Nat /\ m # 0 /\ m - 1 \in Nat /\ ~(m <= m - 1)
  OBVIOUS
<1>3. m - 1 \in Q
  BY <1>1, <1>2
<1>4. (m - 1) + 1 \in Q /\ (m - 1) + 1 = m
  BY <1>2, <1>3
<1> QED BY <1>4

LEMMA SetsInduct ==
  ASSUME NEW D, IsFiniteSet(D), NEW Q, {} \in Q,
         \A S \in SUBSET D : \A x \in D \ S : S \in Q => S \cup {x} \in Q
  PROVE  D \in Q
<1> DEFINE K == {k \in Nat : \A S \in SUBSET D : Cardinality(S) = k => S \in Q}
<1>1. \A S \in SUBSET D : IsFiniteSet(S) /\ Cardinality(S) \in Nat
  BY FS_Subset, FS_CardinalityType
<1>2. 0 \in K
  BY <1>1, FS_EmptySet
<1>3. ASSUME NEW k \in Nat, k \in K PROVE k + 1 \in K
  <2> SUFFICES ASSUME NEW S \in SUBSET D, Cardinality(S) = k + 1 PROVE S \in Q
    OBVIOUS
  <2>1. S # {}
    BY FS_EmptySet
  <2>2. PICK x \in S : TRUE
    BY <2>1
  <2>3. Cardinality(S \ {x}) = k
    <3>1. Cardinality(S \ {x}) = Cardinality(S) - 1
      BY <1>1, FS_RemoveElement
    <3> QED BY <2>2, <3>1
  <2>4. S \ {x} \in Q
    BY <1>3, <2>3
  <2>5. (S \ {x}) \cup {x} = S /\ x \in D \ (S \ {x})
    OBVIOUS
  <2>6. (S \ {x}) \cup {x} \in Q
    BY <2>4, <2>5
  <2> QED BY <2>5, <2>6
<1>4. Nat \subseteq K
  <2> HIDE DEF K
  <2> QED BY <1>2, <1>3, NumbersInduct
<1> QED BY <1>1, <1>4

(* What is computed from 0 to n, each value from the one before it.        *)
Computes(n, V, b, step, g) ==
  /\ g \in [0 .. n -> V]
  /\ g[0] = b /\ \A i \in 1 .. n : g[i] = step[i][g[i - 1]]

LEMMA Recursion ==
  ASSUME NEW n \in Nat, NEW V, NEW b \in V, NEW step \in [1 .. n -> [V -> V]]
  PROVE  \E g : Computes(n, V, b, step, g)
<1> DEFINE UpTo(g, k) == g[0] = b /\ \A i \in 1 .. n : i <= k => g[i] = step[i][g[i - 1]]
           K == {k \in Nat : \E g \in [0 .. n -> V] : UpTo(g, k)}
<1>1. 0 \in K
  <2>1. [i \in 0 .. n |-> b] \in [0 .. n -> V] /\ UpTo([i \in 0 .. n |-> b], 0)
    OBVIOUS
  <2> QED BY <2>1
<1>2. ASSUME NEW k \in Nat, k \in K PROVE k + 1 \in K
  <2>1. PICK g \in [0 .. n -> V] : UpTo(g, k)
    BY <1>2
  <2>2. CASE k + 1 \notin 1 .. n
    <3>1. UpTo(g, k + 1)
      BY <2>1, <2>2
    <3> QED BY <3>1
  <2>3. CASE k + 1 \in 1 .. n
    <3> DEFINE v == step[k + 1][g[k]]
               h == [g EXCEPT ![k + 1] = v]
    <3>1. v \in V
      <4>1. k \in 0 .. n
        BY <2>3
      <4>2. g[k] \in V
        BY <4>1
      <4> QED BY <2>3, <4>2
    <3>2. h \in [0 .. n -> V] /\ h[k + 1] = v /\ \A i \in 0 .. n : i # k + 1 => h[i] = g[i]
      <4> HIDE DEF v
      <4> QED BY <2>3, <3>1
    <3>3. h[0] = b
      BY <2>1, <3>2
    <3>4. ASSUME NEW i \in 1 .. n, i <= k + 1 PROVE h[i] = step[i][h[i - 1]]
      <4> HIDE DEF h, v
      <4>1. i - 1 \in 0 .. n /\ i - 1 # k + 1 /\ i \in 0 .. n
        BY <3>4
      <4>2. h[i - 1] = g[i - 1]
        BY <3>2, <4>1
      <4>3. CASE i = k + 1
        BY <3>2, <4>2, <4>3 DEF v
      <4>4. CASE i # k + 1
        BY <2>1, <3>2, <3>4, <4>1, <4>2, <4>4
      <4> QED BY <4>3, <4>4
    <3>5. UpTo(h, k + 1)
      <4> HIDE DEF h
      <4> QED BY <3>3, <3>4
    <3> HIDE DEF h
    <3> QED BY <3>2, <3>5
  <2> QED BY <2>2, <2>3
<1>3. n \in K
  <2> HIDE DEF K
  <2> QED BY <1>1, <1>2, NumbersInduct
<1>4. PICK g \in [0 .. n -> V] : UpTo(g, n)
  BY <1>3
<1>5. Computes(n, V, b, step, g)
  BY <1>4 DEF Computes
<1> QED BY <1>5

-----------------------------------------------------------------------------
(* Sums over finite sets.  A sum goes through a set by CHOOSE; it is the    *)
(* same whichever member is taken first.                                   *)

Pick(S) == CHOOSE x \in S : TRUE

Adds(f, g) ==
  /\ g \in [SUBSET DOMAIN f -> Nat]
  /\ g[{}] = 0
  /\ \A S \in SUBSET DOMAIN f : S # {} => g[S] = f[Pick(S)] + g[S \ {Pick(S)}]

LEMMA SumsExist ==
  ASSUME NEW D, IsFiniteSet(D), NEW f \in [D -> Nat] PROVE \E g : Adds(f, g)
<1> DEFINE AddsTo(g, k) ==
             /\ g \in [SUBSET D -> Nat] /\ g[{}] = 0
             /\ \A S \in SUBSET D : S # {} /\ Cardinality(S) <= k
                                  => g[S] = f[Pick(S)] + g[S \ {Pick(S)}]
           K == {k \in Nat : \E g : AddsTo(g, k)}
<1>1. \A S \in SUBSET D : /\ IsFiniteSet(S) /\ Cardinality(S) \in Nat
                          /\ Cardinality(S) = 0 <=> S = {}
  BY FS_Subset, FS_CardinalityType, FS_EmptySet
<1>2. \A S \in SUBSET D : S # {} => /\ Pick(S) \in S /\ S \ {Pick(S)} \in SUBSET D
                                    /\ Cardinality(S \ {Pick(S)}) = Cardinality(S) - 1
  <2> SUFFICES ASSUME NEW S \in SUBSET D, S # {}
               PROVE  /\ Pick(S) \in S /\ S \ {Pick(S)} \in SUBSET D
                      /\ Cardinality(S \ {Pick(S)}) = Cardinality(S) - 1
    OBVIOUS
  <2>1. Pick(S) \in S
    BY DEF Pick
  <2> QED BY <1>1, <2>1, FS_RemoveElement
<1>3. 0 \in K
  <2>1. AddsTo([S \in SUBSET D |-> 0], 0)
    BY <1>1
  <2> QED BY <2>1
<1>4. ASSUME NEW k \in Nat, k \in K PROVE k + 1 \in K
  <2>1. PICK g : AddsTo(g, k)
    BY <1>4
  <2> DEFINE value(S) == IF Cardinality(S) = k + 1 THEN f[Pick(S)] + g[S \ {Pick(S)}] ELSE g[S]
             h == [S \in SUBSET D |-> value(S)]
  <2>2. \A S \in SUBSET D : value(S) \in Nat
    <3> SUFFICES ASSUME NEW S \in SUBSET D, Cardinality(S) = k + 1
                 PROVE  f[Pick(S)] + g[S \ {Pick(S)}] \in Nat
      BY <2>1
    <3>1. S # {}
      BY <1>1
    <3>2. f[Pick(S)] \in Nat /\ g[S \ {Pick(S)}] \in Nat
      BY <1>2, <2>1, <3>1
    <3> QED BY <3>2
  <2>3. h \in [SUBSET D -> Nat] /\ \A S \in SUBSET D : h[S] = value(S)
    <3> HIDE DEF value
    <3> QED BY <2>2
  <2>4. h[{}] = 0
    <3> HIDE DEF h
    <3> QED BY <1>1, <2>1, <2>3
  <2>5. ASSUME NEW S \in SUBSET D, S # {}, Cardinality(S) <= k + 1
        PROVE  h[S] = f[Pick(S)] + h[S \ {Pick(S)}]
    <3>1. S \ {Pick(S)} \in SUBSET D /\ Cardinality(S \ {Pick(S)}) # k + 1
      BY <1>1, <1>2, <2>5
    <3> HIDE DEF h
    <3>2. h[S \ {Pick(S)}] = g[S \ {Pick(S)}]
      BY <2>3, <3>1
    <3>3. CASE Cardinality(S) = k + 1
      BY <2>3, <3>2, <3>3
    <3>4. CASE Cardinality(S) # k + 1
      <4>1. Cardinality(S) <= k
        BY <1>1, <2>5, <3>4
      <4>2. g[S] = f[Pick(S)] + g[S \ {Pick(S)}]
        BY <2>1, <2>5, <4>1
      <4> QED BY <2>3, <3>2, <3>4, <4>2
    <3> QED BY <3>3, <3>4
  <2>6. AddsTo(h, k + 1)
    <3> HIDE DEF h
    <3> QED BY <2>3, <2>4, <2>5
  <2> HIDE DEF h
  <2> QED BY <2>6
<1>5. Cardinality(D) \in K
  <2> HIDE DEF K
  <2> QED BY <1>1, <1>3, <1>4, NumbersInduct
<1>6. PICK g : AddsTo(g, Cardinality(D))
  BY <1>5
<1>7. \A S \in SUBSET D : Cardinality(S) <= Cardinality(D)
  BY FS_Subset
<1>8. Adds(f, g)
  BY <1>6, <1>7 DEF Adds
<1> QED BY <1>8

LEMMA SumIs ==
  ASSUME NEW D, IsFiniteSet(D), NEW f \in [D -> Nat] PROVE \E g : Adds(f, g) /\ SumFunction(f) = g[D]
<1> DEFINE step(g) == [S \in SUBSET D |-> IF S = {} THEN 0 ELSE f[Pick(S)] + g[S \ {Pick(S)}]]
           g == CHOOSE g : g = step(g)
<1>1. SumFunction(f) = g[D]
  BY DEF SumFunction, SumFunctionOnSet, FoldFunctionOnSet, MapThenFoldSet, Pick
<1>2. PICK h : Adds(f, h)
  BY SumsExist
<1>3. h = step(h)
  BY <1>2 DEF Adds
<1>4. g = step(g)
  <2> HIDE DEF step
  <2> QED BY <1>3
<1> HIDE DEF g
<1>5. \A S \in SUBSET D : IsFiniteSet(S) /\ Cardinality(S) \in Nat
  BY FS_Subset, FS_CardinalityType
<1> DEFINE K == {k \in Nat : \A S \in SUBSET D : Cardinality(S) = k => g[S] = h[S]}
<1>6. /\ DOMAIN g = SUBSET D /\ g[{}] = 0
      /\ \A S \in SUBSET D : S # {} => g[S] = f[Pick(S)] + g[S \ {Pick(S)}]
  <2>1. DOMAIN g = DOMAIN step(g) /\ \A S \in SUBSET D : g[S] = step(g)[S]
    BY <1>4
  <2>2. DOMAIN step(g) = SUBSET D
    OBVIOUS
  <2>3. \A S \in SUBSET D : step(g)[S] = IF S = {} THEN 0 ELSE f[Pick(S)] + g[S \ {Pick(S)}]
    OBVIOUS
  <2> HIDE DEF step
  <2> QED BY <2>1, <2>2, <2>3
<1>7. 0 \in K
  <2>1. \A S \in SUBSET D : Cardinality(S) = 0 => S = {}
    BY <1>5, FS_EmptySet
  <2>2. h[{}] = 0
    BY <1>2 DEF Adds
  <2> QED BY <1>6, <2>1, <2>2
<1>8. ASSUME NEW k \in Nat, k \in K PROVE k + 1 \in K
  <2> SUFFICES ASSUME NEW S \in SUBSET D, Cardinality(S) = k + 1 PROVE g[S] = h[S]
    OBVIOUS
  <2>1. S # {}
    BY FS_EmptySet
  <2>2. Pick(S) \in S
    BY <2>1 DEF Pick
  <2>3. Cardinality(S \ {Pick(S)}) = Cardinality(S) - 1
    BY <1>5, <2>2, FS_RemoveElement
  <2>4. g[S \ {Pick(S)}] = h[S \ {Pick(S)}]
    BY <1>8, <2>3
  <2>5. h[S] = f[Pick(S)] + h[S \ {Pick(S)}]
    BY <1>2, <2>1 DEF Adds
  <2> QED BY <1>6, <2>1, <2>4, <2>5
<1>9. Nat \subseteq K
  <2> HIDE DEF K
  <2> QED BY <1>7, <1>8, NumbersInduct
<1>10. g[D] = h[D]
  BY <1>5, <1>9
<1> QED BY <1>1, <1>2, <1>10

LEMMA AnyFirst ==
  ASSUME NEW D, IsFiniteSet(D), NEW f \in [D -> Nat], NEW g, Adds(f, g),
         NEW S \in SUBSET D, NEW x \in S
  PROVE  g[S] = f[x] + g[S \ {x}]
<1> DEFINE K == {k \in Nat : \A T \in SUBSET D : \A y \in T :
                              Cardinality(T) <= k => g[T] = f[y] + g[T \ {y}]}
<1>1. \A T \in SUBSET D : IsFiniteSet(T) /\ Cardinality(T) \in Nat /\ g[T] \in Nat
  BY FS_Subset, FS_CardinalityType DEF Adds
<1>2. 0 \in K
  <2>1. \A T \in SUBSET D : Cardinality(T) <= 0 => T = {}
    BY <1>1, FS_EmptySet
  <2> QED BY <2>1
<1>3. ASSUME NEW k \in Nat, k \in K PROVE k + 1 \in K
  <2> SUFFICES ASSUME NEW T \in SUBSET D, NEW y \in T, Cardinality(T) <= k + 1
               PROVE  g[T] = f[y] + g[T \ {y}]
    OBVIOUS
  <2> DEFINE c == Pick(T)
  <2>1. c \in T
    BY DEF Pick
  <2>2. g[T] = f[c] + g[T \ {c}]
    BY DEF Adds
  <2> HIDE DEF c
  <2>3. CASE c = y
    BY <2>2, <2>3
  <2>4. CASE c # y
    <3>1. T \ {c} \in SUBSET D /\ T \ {y} \in SUBSET D /\ y \in T \ {c} /\ c \in T \ {y}
      BY <2>1, <2>4
    <3>2. Cardinality(T \ {c}) = Cardinality(T) - 1 /\ Cardinality(T \ {y}) = Cardinality(T) - 1
      BY <1>1, <2>1, FS_RemoveElement
    <3>3. Cardinality(T \ {c}) <= k /\ Cardinality(T \ {y}) <= k
      BY <1>1, <2>1, <3>2
    <3>4. g[T \ {c}] = f[y] + g[(T \ {c}) \ {y}]
      BY <1>3, <3>1, <3>3
    <3>5. g[T \ {y}] = f[c] + g[(T \ {y}) \ {c}]
      BY <1>3, <3>1, <3>3
    <3>6. (T \ {c}) \ {y} = (T \ {y}) \ {c} /\ (T \ {y}) \ {c} \in SUBSET D
      OBVIOUS
    <3>7. g[(T \ {y}) \ {c}] \in Nat /\ f[c] \in Nat /\ f[y] \in Nat
      BY <1>1, <2>1, <3>6
    <3>8. g[T \ {y}] = f[c] + g[(T \ {c}) \ {y}]
      BY <3>5, <3>6
    <3> DEFINE rest == g[(T \ {c}) \ {y}]
    <3>9. rest \in Nat /\ g[T] = f[c] + (f[y] + rest)
      BY <2>2, <3>4, <3>6, <3>7
    <3>10. g[T \ {y}] = f[c] + rest
      BY <3>8
    <3> HIDE DEF rest
    <3>11. f[c] + (f[y] + rest) = f[y] + (f[c] + rest)
      BY <3>7, <3>9
    <3> QED BY <3>9, <3>10, <3>11
  <2> QED BY <2>3, <2>4
<1>4. Nat \subseteq K
  <2> HIDE DEF K
  <2> QED BY <1>2, <1>3, NumbersInduct
<1>5. Cardinality(S) \in K /\ Cardinality(S) <= Cardinality(S)
  BY <1>1, <1>4
<1> QED BY <1>5

(* Partial sums of f.                                                      *)
Totals(f, g) ==
  /\ g \in [SUBSET DOMAIN f -> Nat]
  /\ g[{}] = 0
  /\ \A S \in SUBSET DOMAIN f : \A x \in S : g[S] = f[x] + g[S \ {x}]

LEMMA SumTotals ==
  ASSUME NEW D, IsFiniteSet(D), NEW f \in [D -> Nat]
  PROVE  \E g : Totals(f, g) /\ SumFunction(f) = g[D]
<1>1. PICK g : Adds(f, g) /\ SumFunction(f) = g[D]
  BY SumIs
<1>2. \A S \in SUBSET D : \A x \in S : g[S] = f[x] + g[S \ {x}]
  <2> SUFFICES ASSUME NEW S \in SUBSET D, NEW x \in S PROVE g[S] = f[x] + g[S \ {x}]
    OBVIOUS
  <2>1. Adds(f, g)
    BY <1>1
  <2> QED BY <2>1, AnyFirst
<1>3. g \in [SUBSET DOMAIN f -> Nat] /\ g[{}] = 0 /\ DOMAIN f = D
  BY <1>1 DEF Adds
<1>4. Totals(f, g)
  BY <1>2, <1>3 DEF Totals
<1> QED BY <1>1, <1>4

(* A sum is a natural number, and only grows with what it sums.            *)
LEMMA SumsGrow ==
  ASSUME NEW D, IsFiniteSet(D), NEW f \in [D -> Nat],
         NEW C \in SUBSET D, NEW e \in [C -> Nat], \A x \in C : e[x] <= f[x]
  PROVE  SumFunction(e) \in Nat /\ SumFunction(f) \in Nat /\ SumFunction(e) <= SumFunction(f)
<1>1. IsFiniteSet(C)
  BY FS_Subset
<1>2. PICK g : Totals(f, g) /\ SumFunction(f) = g[D]
  BY SumTotals
<1>3. PICK h : Totals(e, h) /\ SumFunction(e) = h[C]
  BY <1>1, SumTotals
<1> DEFINE Q == {S \in SUBSET D : h[S \cap C] <= g[S]}
<1>4. /\ \A S \in SUBSET D : g[S] \in Nat /\ h[S \cap C] \in Nat
      /\ g[{}] = 0 /\ h[{}] = 0
  BY <1>2, <1>3 DEF Totals
<1>5. {} \in Q
  <2>1. {} \cap C = {}
    OBVIOUS
  <2> QED BY <1>4, <2>1
<1>6. ASSUME NEW S \in SUBSET D, NEW x \in D \ S, S \in Q PROVE S \cup {x} \in Q
  <2> DEFINE T == S \cup {x}
  <2>1. T \in SUBSET D /\ x \in T /\ T \ {x} = S
    OBVIOUS
  <2>2. g[T] = f[x] + g[T \ {x}]
    BY <1>2, <2>1 DEF Totals
  <2>3. CASE x \in C
    <3>1. T \cap C \in SUBSET C /\ x \in T \cap C /\ (T \cap C) \ {x} = S \cap C
      BY <2>3
    <3> HIDE DEF T
    <3>2. h[T \cap C] = e[x] + h[(T \cap C) \ {x}]
      BY <1>3, <3>1 DEF Totals
    <3>3. e[x] \in Nat /\ f[x] \in Nat /\ e[x] <= f[x] /\ h[S \cap C] <= g[S]
      BY <1>6, <2>3
    <3>4. h[T \cap C] <= g[T]
      <4>1. g[T] = f[x] + g[S] /\ h[T \cap C] = e[x] + h[S \cap C]
        BY <2>1, <2>2, <3>1, <3>2
      <4>2. g[S] \in Nat /\ h[S \cap C] \in Nat
        BY <1>4
      <4> DEFINE lower == h[S \cap C]
                 upper == g[S]
      <4>3. lower \in Nat /\ upper \in Nat /\ lower <= upper
        BY <3>3, <4>2
      <4>4. g[T] = f[x] + upper /\ h[T \cap C] = e[x] + lower
        BY <4>1
      <4> HIDE DEF lower, upper
      <4>5. e[x] + lower <= f[x] + upper
        BY <3>3, <4>3
      <4> QED BY <4>4, <4>5
    <3> QED BY <2>1, <3>4 DEF T
  <2>4. CASE x \notin C
    <3>1. T \cap C = S \cap C
      BY <2>4
    <3> HIDE DEF T
    <3>2. f[x] \in Nat /\ h[S \cap C] <= g[S]
      BY <1>6
    <3>3. h[T \cap C] <= g[T]
      <4>1. g[T] = f[x] + g[S] /\ h[T \cap C] = h[S \cap C]
        BY <2>1, <2>2, <3>1
      <4>2. g[S] \in Nat /\ h[S \cap C] \in Nat
        BY <1>4
      <4> DEFINE lower == h[S \cap C]
                 upper == g[S]
      <4>3. lower \in Nat /\ upper \in Nat /\ lower <= upper
        BY <3>2, <4>2
      <4>4. g[T] = f[x] + upper /\ h[T \cap C] = lower
        BY <4>1
      <4> HIDE DEF lower, upper
      <4>5. lower <= f[x] + upper
        BY <3>2, <4>3
      <4> QED BY <4>4, <4>5
    <3> QED BY <2>1, <3>3 DEF T
  <2> QED BY <2>3, <2>4
<1>7. D \in Q
  <2> HIDE DEF Q
  <2> QED BY <1>5, <1>6, SetsInduct
<1>8. D \cap C = C
  OBVIOUS
<1> QED BY <1>2, <1>3, <1>4, <1>7, <1>8

LEMMA SumOfOne ==
  ASSUME NEW x, NEW f \in [{x} -> Nat] PROVE SumFunction(f) = f[x]
<1>1. IsFiniteSet({x})
  BY FS_Singleton
<1>2. PICK g : Totals(f, g) /\ SumFunction(f) = g[{x}]
  BY <1>1, SumTotals
<1>3. {x} \in SUBSET {x} /\ x \in {x} /\ {x} \ {x} = {}
  OBVIOUS
<1>4. g[{x}] = f[x] + g[{x} \ {x}]
  BY <1>2, <1>3 DEF Totals
<1>5. g[{}] = 0 /\ f[x] \in Nat
  BY <1>2 DEF Totals
<1>6. g[{x}] = f[x] + 0
  BY <1>3, <1>4, <1>5
<1> QED BY <1>2, <1>5, <1>6

(* What is handed out of a stock, one after the other, is no more than the *)
(* stock.                                                                  *)
LEMMA SumOfShares ==
  ASSUME NEW S, IsFiniteSet(S), NEW n \in Nat, NEW order \in Bijection(1 .. n, S),
         NEW left \in [0 .. n -> Nat], NEW f \in [S -> Nat],
         \A i \in 1 .. n : f[order[i]] = left[i - 1] - left[i]
  PROVE  SumFunction(f) <= left[0]
<1>1. PICK g : Totals(f, g) /\ SumFunction(f) = g[S]
  BY SumTotals
<1> DEFINE upTo(k) == {order[i] : i \in 1 .. k}
           K == {k \in Nat : k <= n => g[upTo(k)] + left[k] = left[0]}
<1>2. \A T \in SUBSET S : g[T] \in Nat
  BY <1>1 DEF Totals
<1>3. /\ \A i \in 1 .. n : order[i] \in S
      /\ \A i, j \in 1 .. n : order[i] = order[j] => i = j
      /\ \A m \in S : \E i \in 1 .. n : order[i] = m
  BY DEF Bijection, Injection, IsInjective, Surjection
<1>4. 0 \in K
  <2>1. upTo(0) = {}
    OBVIOUS
  <2>2. g[{}] = 0 /\ left[0] \in Nat
    BY <1>1 DEF Totals
  <2>3. left[0] = 0 + left[0]
    BY <2>2
  <2> HIDE DEF upTo
  <2>4. g[upTo(0)] + left[0] = left[0]
    BY <2>1, <2>2, <2>3
  <2> QED BY <2>4
<1>5. ASSUME NEW k \in Nat, k \in K PROVE k + 1 \in K
  <2> SUFFICES ASSUME k + 1 <= n PROVE g[upTo(k + 1)] + left[k + 1] = left[0]
    OBVIOUS
  <2> DEFINE x == order[k + 1]
  <2>1. k + 1 \in 1 .. n /\ (k + 1) - 1 = k /\ k \in 0 .. n /\ k + 1 \in 0 .. n
    OBVIOUS
  <2>2. x \in upTo(k + 1) /\ upTo(k + 1) \in SUBSET S
    <3>1. \A i \in 1 .. k + 1 : i \in 1 .. n
      BY <2>1
    <3>2. k + 1 \in 1 .. k + 1
      BY <2>1
    <3>3. \A i \in 1 .. k + 1 : order[i] \in S
      BY <1>3, <3>1
    <3>4. upTo(k + 1) \subseteq S
      BY <3>3
    <3> QED BY <3>2, <3>4
  <2>3. upTo(k + 1) \ {x} = upTo(k)
    <3>1. \A i \in 1 .. k + 1 : i # k + 1 => i \in 1 .. k
      OBVIOUS
    <3>2. \A i \in 1 .. k : i \in 1 .. k + 1 /\ i # k + 1 /\ i \in 1 .. n
      BY <2>1
    <3>3. \A i \in 1 .. k : order[i] \in upTo(k + 1) /\ order[i] # x
      BY <1>3, <2>1, <3>2
    <3>4. \A i \in 1 .. k + 1 : order[i] # x => order[i] \in upTo(k)
      BY <3>1
    <3>5. upTo(k) \subseteq upTo(k + 1) \ {x}
      BY <3>3
    <3>6. upTo(k + 1) \ {x} \subseteq upTo(k)
      BY <3>4
    <3> QED BY <3>5, <3>6
  <2> HIDE DEF upTo, x
  <2>4. g[upTo(k + 1)] = f[x] + g[upTo(k)]
    <3> DEFINE T == upTo(k + 1)
    <3>1. T \in SUBSET S /\ x \in T
      BY <2>2
    <3> HIDE DEF T
    <3>2. g[T] = f[x] + g[T \ {x}]
      BY <1>1, <3>1 DEF Totals
    <3> QED BY <2>3, <3>2 DEF T
  <2>5. f[x] = left[k] - left[k + 1]
    BY <2>1 DEF x
  <2>6. left[k] \in Nat /\ left[k + 1] \in Nat /\ left[0] \in Nat
    BY <2>1
  <2>7. g[upTo(k)] + left[k] = left[0]
    BY <1>5, <2>1
  <2>8. upTo(k) \in SUBSET S
    BY <2>2, <2>3
  <2>9. g[upTo(k)] \in Nat
    BY <1>2, <2>8
  <2> DEFINE sum == g[upTo(k)]
  <2>10. g[upTo(k + 1)] = (left[k] - left[k + 1]) + sum /\ sum + left[k] = left[0] /\ sum \in Nat
    BY <2>4, <2>5, <2>7, <2>9
  <2> HIDE DEF sum
  <2> QED BY <2>6, <2>10
<1>6. n \in K
  <2> HIDE DEF K
  <2> QED BY <1>4, <1>5, NumbersInduct
<1>7. upTo(n) = S
  BY <1>3
<1>8. g[S] + left[n] = left[0]
  <2> HIDE DEF upTo
  <2> QED BY <1>6, <1>7
<1>9. g[S] \in Nat /\ left[n] \in Nat /\ left[0] \in Nat
  BY <1>2
<1> QED BY <1>1, <1>8, <1>9

-----------------------------------------------------------------------------
(* Places in a finite order: before[m] is what comes before m.             *)

Orders(S, before) ==
  /\ before \in [S -> SUBSET S]
  /\ \A m \in S : m \notin before[m] /\ \A k \in before[m] : before[k] \subseteq before[m]
  /\ \A m, k \in S : m # k => m \in before[k] \/ k \in before[m]

LEMMA Places ==
  ASSUME NEW S, IsFiniteSet(S), NEW before, Orders(S, before)
  PROVE  /\ \A m \in S : Cardinality(before[m]) \in 0 .. Cardinality(S) - 1
         /\ \A m, k \in S : k \in before[m] => Cardinality(before[k]) < Cardinality(before[m])
         /\ \A m, k \in S : Cardinality(before[k]) = Cardinality(before[m]) => k = m
<1>1. \A T \in SUBSET S : IsFiniteSet(T) /\ Cardinality(T) \in Nat
  BY FS_Subset, FS_CardinalityType
<1>2. \A T \in SUBSET S : \A U \in SUBSET T : \A m \in T \ U : Cardinality(U) < Cardinality(T)
  <2> SUFFICES ASSUME NEW T \in SUBSET S, NEW U \in SUBSET T, NEW m \in T \ U
               PROVE  Cardinality(U) < Cardinality(T)
    OBVIOUS
  <2>1. Cardinality(U) <= Cardinality(T) /\ (Cardinality(T) = Cardinality(U) => T = U)
    BY <1>1, FS_Subset
  <2>2. Cardinality(U) \in Nat /\ Cardinality(T) \in Nat /\ Cardinality(U) # Cardinality(T)
    BY <1>1, <2>1
  <2> QED BY <2>1, <2>2
<1>3. ASSUME NEW m \in S PROVE Cardinality(before[m]) \in 0 .. Cardinality(S) - 1
  <2>1. before[m] \in SUBSET S /\ m \in S \ before[m]
    BY DEF Orders
  <2>2. S \in SUBSET S /\ Cardinality(before[m]) < Cardinality(S)
    BY <1>2, <2>1
  <2> QED BY <1>1, <2>1, <2>2
<1>4. ASSUME NEW m \in S, NEW k \in S, k \in before[m] PROVE Cardinality(before[k]) < Cardinality(before[m])
  <2>1. /\ before[m] \in SUBSET S /\ before[k] \in SUBSET before[m]
        /\ k \in before[m] \ before[k]
    BY <1>4 DEF Orders
  <2> QED BY <1>2, <2>1
<1>5. ASSUME NEW m \in S, NEW k \in S, Cardinality(before[k]) = Cardinality(before[m]) PROVE k = m
  <2>1. Cardinality(before[k]) \in Nat /\ ~(Cardinality(before[k]) < Cardinality(before[k]))
    BY <1>3
  <2> SUFFICES ASSUME k # m PROVE FALSE
    OBVIOUS
  <2>2. m \in before[k] \/ k \in before[m]
    BY DEF Orders
  <2> QED BY <1>4, <1>5, <2>1, <2>2
<1> QED BY <1>3, <1>4, <1>5

(* At most n have fewer than n before them.                                *)
LEMMA FewAreFirst ==
  ASSUME NEW S, IsFiniteSet(S), NEW before, Orders(S, before), NEW n \in Nat
  PROVE  /\ Cardinality({m \in S : Cardinality(before[m]) < n}) <= n
         /\ Cardinality(S) <= n => {m \in S : Cardinality(before[m]) < n} = S
<1> DEFINE F == {m \in S : Cardinality(before[m]) < n}
           place == [m \in F |-> Cardinality(before[m])]
           T == 0 .. n - 1
<1>1. Cardinality(S) \in Nat
  BY FS_CardinalityType
<1>2. \A m \in F : place[m] \in T
  BY <1>1, Places
<1>3. \A m, k \in F : place[m] = place[k] => m = k
  BY Places
<1>4. IsFiniteSet(T) /\ Cardinality(T) = n
  <2>1. 0 \in Int /\ n - 1 \in Int
    OBVIOUS
  <2>2. IsFiniteSet(T) /\ Cardinality(T) = IF 0 > n - 1 THEN 0 ELSE (n - 1) - 0 + 1
    BY <2>1, FS_Interval, Zenon
  <2> HIDE DEF T
  <2> QED BY <2>2
<1>5. DOMAIN place = F
  OBVIOUS
<1>6. place \in Injection(F, T)
  <2>1. place \in [F -> T]
    BY <1>2
  <2> HIDE DEF place, F, T
  <2> QED BY <1>3, <1>5, <2>1 DEF Injection, IsInjective
<1>7. Cardinality(F) <= Cardinality(T)
  <2> HIDE DEF place, F, T
  <2> QED BY <1>4, <1>6, FS_Injection
<1>8. Cardinality(S) <= n => F = S
  BY <1>1, Places
<1> HIDE DEF F
<1>9. Cardinality(F) <= n
  BY <1>4, <1>7
<1> QED BY <1>8, <1>9 DEF F

(* The order can be written down.                                          *)
LEMMA OrdersAreListed ==
  ASSUME NEW S, IsFiniteSet(S), NEW before, Orders(S, before)
  PROVE  \E order \in [1 .. Cardinality(S) -> S] :
           \A i, j \in 1 .. Cardinality(S) : i < j => order[i] \in before[order[j]]
<1> DEFINE n == Cardinality(S)
           T == 0 .. n - 1
           place == [m \in S |-> Cardinality(before[m])]
           order == [i \in 1 .. n |-> CHOOSE m \in S : place[m] = i - 1]
<1>1. n \in Nat
  BY FS_CardinalityType
<1> HIDE DEF n
<1>2. place \in [S -> T] /\ \A m \in S : place[m] = Cardinality(before[m])
  BY Places DEF n
<1>3. \A m, k \in S : place[m] = place[k] => m = k
  BY Places
<1>4. IsFiniteSet(T) /\ Cardinality(T) = n
  <2>1. 0 \in Int /\ n - 1 \in Int
    BY <1>1
  <2>2. IsFiniteSet(T) /\ Cardinality(T) = IF 0 > n - 1 THEN 0 ELSE (n - 1) - 0 + 1
    BY <2>1, FS_Interval, Zenon
  <2> HIDE DEF T
  <2> QED BY <1>1, <2>2
<1>5. DOMAIN place = S
  OBVIOUS
<1> HIDE DEF place
<1>6. place \in Injection(S, T)
  <2> HIDE DEF T
  <2> QED BY <1>2, <1>3, <1>5 DEF Injection, IsInjective
<1>7. place \in Surjection(S, T)
  <2> HIDE DEF T
  <2> QED BY <1>4, <1>6, FS_Injection DEF n
<1>8. \A i \in 1 .. n : order[i] \in S /\ place[order[i]] = i - 1
  <2> SUFFICES ASSUME NEW i \in 1 .. n PROVE order[i] \in S /\ place[order[i]] = i - 1
    OBVIOUS
  <2>1. i - 1 \in T
    BY <1>1
  <2>2. \E m \in S : place[m] = i - 1
    BY <1>7, <2>1 DEF Surjection
  <2> QED BY <2>2
<1>9. order \in [1 .. n -> S]
  <2>1. \A i \in 1 .. n : (CHOOSE m \in S : place[m] = i - 1) \in S
    BY <1>8
  <2> QED BY <2>1
<1>10. ASSUME NEW i \in 1 .. n, NEW j \in 1 .. n, i < j PROVE order[i] \in before[order[j]]
  <2> HIDE DEF order
  <2>1. /\ order[i] \in S /\ order[j] \in S
        /\ Cardinality(before[order[i]]) = i - 1 /\ Cardinality(before[order[j]]) = j - 1
    BY <1>2, <1>8
  <2>2. order[i] # order[j]
    BY <1>1, <1>10, <2>1
  <2>3. ~(Cardinality(before[order[j]]) < Cardinality(before[order[i]]))
    BY <1>1, <1>10, <2>1
  <2>4. order[j] \notin before[order[i]]
    BY <2>1, <2>3, Places
  <2> QED BY <2>1, <2>2, <2>4 DEF Orders
<1> HIDE DEF order
<1> QED BY <1>9, <1>10 DEF n

-----------------------------------------------------------------------------
(* What is measured.                                                       *)

Measured == [chars : Nat, width : Nat \ {0}]
Text == Measured \cup {None}

LEMMA LessIsLess == \A x, y, w \in Nat : x <= y => x * w \in Nat /\ y * w \in Nat /\ x * w <= y * w
<1> SUFFICES ASSUME NEW x \in Nat, NEW y \in Nat, NEW w \in Nat, x <= y
             PROVE  x * w \in Nat /\ y * w \in Nat /\ x * w <= y * w
  OBVIOUS
<1> DEFINE d == y - x
<1>1. d \in Nat /\ y = x + d
  OBVIOUS
<1> HIDE DEF d
<1>2. (x + d) * w = x * w + d * w
  BY <1>1
<1>3. x * w \in Nat /\ d * w \in Nat
  BY <1>1
<1> QED BY <1>1, <1>2, <1>3

LEMMA QuotientsFit == \A x, w \in Nat : w > 0 => x \div w \in Nat /\ (x \div w) * w <= x
OBVIOUS

LEMMA TextsCut ==
  ASSUME NEW b \in Text, NEW limit \in Nat
  PROVE  /\ Cut(b, limit) \in Text
         /\ Bytes(b) \in Nat /\ Bytes(Cut(b, limit)) \in Nat
         /\ Bytes(Cut(b, limit)) <= limit /\ Bytes(Cut(b, limit)) <= Bytes(b)
         /\ Cut(Cut(b, limit), limit) = Cut(b, limit)
<1>1. CASE b = None
  BY <1>1 DEF Cut, Bytes, Text
<1>2. CASE b # None
  <2>1. b \in Measured /\ None \notin Measured
    BY <1>2, ContentsAreMeasured DEF Text, Measured
  <2> DEFINE c == b.chars
             w == b.width
             q == limit \div w
             s == Smaller(c, q)
             t == [b EXCEPT !.chars = s]
  <2>2. c \in Nat /\ w \in Nat /\ w # 0
    BY <2>1 DEF Measured
  <2>3. q \in Nat /\ q * w <= limit
    <3> HIDE DEF c, w
    <3>1. w \in Nat /\ w > 0
      BY <2>2
    <3> QED BY <3>1, QuotientsFit
  <2>4. s \in Nat /\ s <= c /\ s <= q
    <3> HIDE DEF c, w, q
    <3> QED BY <2>2, <2>3 DEF Smaller
  <2>5. t \in Measured /\ t.chars = s /\ t.width = w
    <3> HIDE DEF s, q
    <3> QED BY <2>1, <2>4 DEF Measured
  <2>6. Cut(b, limit) = t /\ t # None
    BY <1>2, <2>1, <2>5 DEF Cut
  <2> HIDE DEF t
  <2>7. Bytes(b) = c * w /\ Bytes(t) = s * w
    BY <1>2, <2>5, <2>6 DEF Bytes
  <2>8. Cut(t, limit) = [t EXCEPT !.chars = Smaller(s, q)]
    BY <2>5, <2>6 DEF Cut
  <2> HIDE DEF s, q, c, w
  <2>9. Smaller(s, q) = s
    BY <2>3, <2>4 DEF Smaller
  <2>10. Cut(t, limit) = t
    <3>1. [t EXCEPT !.chars = t.chars] = t
      BY <2>5 DEF Measured
    <3> QED BY <2>5, <2>8, <2>9, <3>1
  <2>11. s * w \in Nat /\ c * w \in Nat /\ s * w <= c * w /\ s * w <= q * w /\ q * w \in Nat
    BY <2>2, <2>3, <2>4, LessIsLess
  <2>12. s * w <= limit
    <3> DEFINE low == s * w
               high == q * w
    <3>1. low \in Nat /\ high \in Nat /\ low <= high /\ high <= limit
      BY <2>3, <2>11
    <3> HIDE DEF low, high
    <3>2. low <= limit
      BY <3>1
    <3> QED BY <3>2 DEF low
  <2>13. t \in Text
    BY <2>5 DEF Text
  <2> QED BY <2>6, <2>7, <2>10, <2>11, <2>12, <2>13
<1> QED BY <1>1, <1>2

LEMMA MailHolds ==
  ASSUME NEW a \in Archive, NEW m \in Messages
  PROVE  /\ a.mail[m].body \in Text
         /\ a.mail[m].recipients.rows \in Nat
         /\ a.mail[m].recipients.refused \in 0 .. Smaller(a.mail[m].recipients.rows, MetadataCap)
         /\ a.mail[m].attachments \in Nat
         /\ a.mail[m].sent \in Nat
<1>1. a.mail[m] \in Message
  BY DEF Archive
<1>2. /\ a.mail[m].body \in Bodies \cup {None}
      /\ a.mail[m].recipients \in RecipientLists
      /\ a.mail[m].attachments \in Attachments
      /\ a.mail[m].sent \in Times \cup {NoTime}
  BY <1>1 DEF Message
<1>3. Bodies \subseteq Measured /\ Attachments \subseteq Nat /\ Times \cup {NoTime} \subseteq Nat
  BY ContentsAreMeasured, IdsAreNumbers DEF Measured, NoTime
<1>4. \A list \in RecipientLists : /\ list.rows \in Nat
                                   /\ list.refused \in 0 .. Smaller(list.rows, MetadataCap)
  BY ContentsAreMeasured
<1> QED BY <1>2, <1>3, <1>4 DEF Text

(* What is decoded keeps the caps of one message, and tells what it drops. *)
LEMMA DecodedKeepsCaps ==
  ASSUME NEW a \in Archive, NEW m \in Messages
  PROVE  LET r == Decoded(a, m)  msg == a.mail[m] IN
         /\ r.body = Cut(msg.body, BodyCap) /\ r.body \in Text
         /\ r.recipients \in 0 .. MetadataCap /\ r.attachments \in 0 .. MetadataCap
         /\ Bytes(msg.body) > Bytes(r.body) => r.bodyCut
         /\ msg.recipients.rows > r.recipients => r.metadataCut
         /\ msg.attachments > r.attachments => r.metadataCut
<1> DEFINE r == Decoded(a, m)
           msg == a.mail[m]
           rows == msg.recipients.rows
           refused == msg.recipients.refused
           files == msg.attachments
<1>1. /\ r.body = Cut(msg.body, BodyCap)
      /\ r.bodyCut = (Bytes(msg.body) > Bytes(Cut(msg.body, BodyCap)))
      /\ r.recipients = Smaller(rows, MetadataCap) - refused
      /\ r.attachments = Smaller(files, MetadataCap)
      /\ r.metadataCut = (rows > MetadataCap \/ refused > 0 \/ files > MetadataCap)
  BY DEF Decoded
<1>2. /\ rows \in Nat /\ files \in Nat /\ MetadataCap \in Nat
      /\ refused \in 0 .. Smaller(rows, MetadataCap)
  BY MailHolds, BudgetsAreSound
<1>3. r.body \in Text
  <2>1. BodyCap \in Nat /\ msg.body \in Text
    BY MailHolds, BudgetsAreSound
  <2> HIDE DEF r, msg
  <2> QED BY <1>1, <2>1, TextsCut
<1> HIDE DEF r, rows, refused, files
<1>4. /\ r.recipients \in 0 .. MetadataCap /\ r.attachments \in 0 .. MetadataCap
      /\ rows > r.recipients => rows > MetadataCap \/ refused > 0
      /\ files > r.attachments => files > MetadataCap
  BY <1>1, <1>2 DEF Smaller
<1> QED BY <1>1, <1>3, <1>4 DEF r, rows, refused, files

-----------------------------------------------------------------------------
(* Windows and priorities.                                                 *)

LEMMA MailIsFinite == \A S \in SUBSET Messages : IsFiniteSet(S) /\ Cardinality(S) \in Nat
BY IdsAreNumbers, FS_Subset, FS_CardinalityType

LEMMA NewestAreFew ==
  ASSUME NEW a \in Archive, NEW S \in SUBSET Messages, NEW n \in Nat
  PROVE  /\ Newest(a, S, n) \in SUBSET S /\ Cardinality(Newest(a, S, n)) <= n
         /\ Cardinality(S) <= n => Newest(a, S, n) = S
<1> DEFINE before == [m \in S |-> {x \in S : Newer(a, x, m)}]
<1>1. \A m \in S : m \in Nat /\ a.mail[m].sent \in Nat
  BY MailHolds, IdsAreNumbers
<1>2. before \in [S -> SUBSET S]
  OBVIOUS
<1>3. \A m \in S : ~Newer(a, m, m)
  BY <1>1 DEF Newer
<1>4. \A m, k, l \in S : Newer(a, m, k) /\ Newer(a, k, l) => Newer(a, m, l)
  BY <1>1 DEF Newer
<1>5. \A m, k \in S : m # k => Newer(a, m, k) \/ Newer(a, k, m)
  BY <1>1 DEF Newer
<1>6. \A m \in S : before[m] = {x \in S : Newer(a, x, m)}
  OBVIOUS
<1> HIDE DEF before
<1>7. Orders(S, before)
  BY <1>2, <1>3, <1>4, <1>5, <1>6 DEF Orders
<1>8. Newest(a, S, n) = {m \in S : Cardinality(before[m]) < n}
  BY <1>6 DEF Newest
<1>9. IsFiniteSet(S)
  BY MailIsFinite
<1>10. /\ Cardinality({m \in S : Cardinality(before[m]) < n}) <= n
       /\ Cardinality(S) <= n => {m \in S : Cardinality(before[m]) < n} = S
  BY <1>7, <1>9, FewAreFirst
<1>11. Newest(a, S, n) \in SUBSET S
  BY <1>8
<1> QED BY <1>8, <1>10, <1>11

LEMMA InspectedIsMail == \A a, sel : /\ Candidates(a, sel) \in SUBSET Messages
                                    /\ Inspected(a, sel) \in SUBSET Messages
BY DEF Candidates, Inspected, Newest

LEMMA RetainedIs ==
  ASSUME NEW a \in Archive, NEW sel \in Messages
  PROVE  /\ Retained(a, sel) \in SUBSET Messages /\ sel \in Retained(a, sel)
         /\ Cardinality(Retained(a, sel)) \in 1 .. MaxMessages
<1>1. \A n \in Nat : /\ Newest(a, Inspected(a, sel), n) \in SUBSET Messages
                     /\ Cardinality(Newest(a, Inspected(a, sel), n)) <= n
  BY InspectedIsMail, NewestAreFew
<1>2. MaxMessages \in Nat /\ MaxMessages - 1 \in Nat
  BY BudgetsAreSound
<1>3. Retained(a, sel) \in SUBSET Messages /\ sel \in Retained(a, sel)
  BY <1>1, <1>2 DEF Retained, Recent
<1>4. Cardinality(Retained(a, sel)) \in Nat /\ Cardinality(Retained(a, sel)) # 0
  BY <1>3, MailIsFinite, FS_EmptySet
<1>5. Cardinality(Retained(a, sel)) <= MaxMessages
  <2>1. CASE sel \in Recent(a, sel)
    BY <1>1, <1>2, <2>1 DEF Retained, Recent
  <2>2. CASE sel \notin Recent(a, sel)
    <3> DEFINE N == Newest(a, Inspected(a, sel), MaxMessages - 1)
    <3>1. N \in SUBSET Messages /\ Cardinality(N) <= MaxMessages - 1
      BY <1>1, <1>2
    <3>2. Retained(a, sel) = N \cup {sel}
      BY <2>2 DEF Retained
    <3> HIDE DEF N
    <3>3. IsFiniteSet(N) /\ Cardinality(N) \in Nat
      BY <3>1, MailIsFinite
    <3>4. Cardinality(N \cup {sel}) = IF sel \in N THEN Cardinality(N) ELSE Cardinality(N) + 1
      BY <3>3, FS_AddElement
    <3>5. Cardinality(N \cup {sel}) <= Cardinality(N) + 1
      BY <3>3, <3>4
    <3> QED BY <1>2, <1>4, <3>1, <3>2, <3>3, <3>5
  <2> QED BY <2>1, <2>2
<1> QED BY <1>2, <1>3, <1>4, <1>5

LEMMA PriorityIs ==
  ASSUME NEW a \in Archive, NEW sel \in Messages
  PROVE  LET n == Cardinality(Retained(a, sel))  order == Priority(a, sel) IN
         order \in Bijection(1 .. n, Retained(a, sel)) /\ order[1] = sel
<1> DEFINE S == Retained(a, sel)
           n == Cardinality(S)
           order == Priority(a, sel)
           before == [m \in S |-> {x \in S : Sooner(a, sel, x, m)}]
           Lists(o) == \A i, j \in 1 .. n : i < j => Sooner(a, sel, o[i], o[j])
<1>1. S \in SUBSET Messages /\ sel \in S /\ IsFiniteSet(S) /\ n \in Nat /\ 1 <= n
  BY RetainedIs, MailIsFinite
<1>2. \A m \in S : m \in Nat /\ a.mail[m].sent \in Nat /\ Second(a.mail[m].sent) \in Int
  <2>1. \A m \in S : m \in Nat /\ a.mail[m].sent \in Nat
    BY <1>1, MailHolds, IdsAreNumbers
  <2>2. \A t \in Nat : Second(t) \in Int
    BY DEF Second
  <2> QED BY <2>1, <2>2
<1>3. order = CHOOSE o \in [1 .. n -> S] : Lists(o)
  <2>1. \A o \in [1 .. n -> S] : DOMAIN o = 1 .. n
    OBVIOUS
  <2> QED BY DEF Priority
<1> HIDE DEF S, n
<1>4. \A m, k \in S : ShownBefore(a, m, k) <=> \/ Second(a.mail[m].sent) < Second(a.mail[k].sent)
                                               \/ /\ Second(a.mail[m].sent) = Second(a.mail[k].sent)
                                                  /\ a.mail[m].sent > a.mail[k].sent
                                               \/ a.mail[m].sent = a.mail[k].sent /\ m < k
  BY DEF ShownBefore
<1>5. /\ \A m \in S : ~ShownBefore(a, m, m)
      /\ \A m, k \in S : m # k => ShownBefore(a, m, k) \/ ShownBefore(a, k, m)
  BY <1>2, <1>4
<1>6. \A m, k, l \in S : ShownBefore(a, m, k) /\ ShownBefore(a, k, l) => ShownBefore(a, m, l)
  BY <1>2, <1>4
<1>7. Orders(S, before)
  <2>1. before \in [S -> SUBSET S] /\ \A m \in S : before[m] = {x \in S : Sooner(a, sel, x, m)}
    OBVIOUS
  <2> HIDE DEF before
  <2>2. \A m \in S : ~Sooner(a, sel, m, m)
    BY <1>5 DEF Sooner
  <2>3. \A m, k, l \in S : Sooner(a, sel, m, k) /\ Sooner(a, sel, k, l) => Sooner(a, sel, m, l)
    BY <1>6 DEF Sooner
  <2>4. \A m, k \in S : m # k => Sooner(a, sel, m, k) \/ Sooner(a, sel, k, m)
    BY <1>5 DEF Sooner
  <2> QED BY <2>1, <2>2, <2>3, <2>4 DEF Orders
<1>8. \E o \in [1 .. n -> S] : Lists(o)
  <2>1. PICK o \in [1 .. n -> S] : \A i, j \in 1 .. n : i < j => o[i] \in before[o[j]]
    BY <1>1, <1>7, OrdersAreListed DEF n
  <2>2. \A i, j \in 1 .. n : i < j => Sooner(a, sel, o[i], o[j])
    BY <2>1
  <2> QED BY <2>2
<1>9. order \in [1 .. n -> S] /\ Lists(order)
  <2> HIDE DEF order, Lists
  <2> QED BY <1>3, <1>8
<1> HIDE DEF order
<1>10. \A i, j \in 1 .. n : order[i] = order[j] => i = j
  <2>1. \A i \in 1 .. n : ~Sooner(a, sel, order[i], order[i])
    BY <1>5, <1>9 DEF Sooner
  <2>2. \A i, j \in 1 .. n : i = j \/ i < j \/ j < i
    OBVIOUS
  <2> QED BY <1>9, <2>1, <2>2
<1>11. order \in Injection(1 .. n, S)
  BY <1>9, <1>10 DEF Injection, IsInjective
<1>12. IsFiniteSet(1 .. n) /\ Cardinality(1 .. n) = n
  BY <1>1, FS_Interval
<1>13. order \in Surjection(1 .. n, S)
  BY <1>1, <1>11, <1>12, FS_Injection DEF n
<1>14. order[1] = sel
  <2>1. PICK i \in 1 .. n : order[i] = sel
    BY <1>1, <1>13 DEF Surjection
  <2>2. 1 \in 1 .. n
    BY <1>1
  <2>3. ~(1 < i)
    BY <1>9, <2>1, <2>2 DEF Sooner
  <2> QED BY <2>1, <2>3
<1> QED BY <1>11, <1>13, <1>14 DEF Bijection, n, S, order

-----------------------------------------------------------------------------
(* Shares.                                                                 *)

LEMMA Lengths ==
  ASSUME NEW n \in Nat, NEW T, NEW wanted \in [1 .. n -> T] PROVE Len(wanted) = n
OBVIOUS

LEMMA SmallerIs == \A x, y \in Nat : Smaller(x, y) \in Nat /\ Smaller(x, y) <= x /\ Smaller(x, y) <= y
BY DEF Smaller

LEMMA BodyLeftIs ==
  ASSUME NEW n \in Nat, NEW wanted \in [1 .. n -> Text]
  PROVE  LET left == BodyLeft(wanted) IN
         /\ left \in [0 .. n -> Nat] /\ left[0] = BodyTotal
         /\ \A i \in 1 .. n : left[i] = left[i - 1] - Bytes(Cut(wanted[i], Smaller(BodyCap, left[i - 1])))
<1> DEFINE used(i, v) == Bytes(Cut(wanted[i], Smaller(BodyCap, v)))
           value(g) == [i \in 0 .. n |-> IF i = 0 THEN BodyTotal ELSE g[i - 1] - used(i, g[i - 1])]
           step == [i \in 1 .. n |-> [v \in Nat |-> v - used(i, v)]]
           left == BodyLeft(wanted)
<1>1. left = CHOOSE g : g = value(g)
  BY Lengths DEF BodyLeft
<1>2. BodyTotal \in Nat /\ BodyCap \in Nat
  BY BudgetsAreSound
<1>3. \A i \in 1 .. n : \A v \in Nat : v - used(i, v) \in Nat
  <2> SUFFICES ASSUME NEW i \in 1 .. n, NEW v \in Nat PROVE v - used(i, v) \in Nat
    OBVIOUS
  <2>1. Smaller(BodyCap, v) \in Nat /\ Smaller(BodyCap, v) <= v
    BY <1>2, SmallerIs
  <2>2. wanted[i] \in Text
    OBVIOUS
  <2>3. used(i, v) \in Nat /\ used(i, v) <= Smaller(BodyCap, v)
    BY <2>1, <2>2, TextsCut
  <2> HIDE DEF used
  <2> QED BY <2>1, <2>3
<1> HIDE DEF used
<1>4. step \in [1 .. n -> [Nat -> Nat]]
  BY <1>3
<1>5. \A i \in 1 .. n : \A v \in Nat : step[i][v] = v - used(i, v)
  OBVIOUS
<1> HIDE DEF step
<1>6. PICK g \in [0 .. n -> Nat] : g[0] = BodyTotal /\ \A i \in 1 .. n : g[i] = step[i][g[i - 1]]
  <2>1. \E g : Computes(n, Nat, BodyTotal, step, g)
    BY <1>2, <1>4, Recursion
  <2> QED BY <2>1 DEF Computes
<1>7. \A i \in 1 .. n : g[i] = g[i - 1] - used(i, g[i - 1])
  <2>1. \A i \in 1 .. n : g[i - 1] \in Nat
    OBVIOUS
  <2> QED BY <1>5, <1>6, <2>1
<1>8. g = value(g)
  BY <1>6, <1>7
<1>9. left = value(left)
  <2> HIDE DEF value, left
  <2> QED BY <1>1, <1>8
<1>10. /\ DOMAIN left = 0 .. n /\ left[0] = BodyTotal
       /\ \A i \in 1 .. n : left[i] = left[i - 1] - used(i, left[i - 1])
  <2> HIDE DEF left
  <2> QED BY <1>9
<1> HIDE DEF left
<1> DEFINE K == {k \in Nat : k <= n => left[k] = g[k]}
<1>11. 0 \in K
  BY <1>6, <1>10
<1>12. ASSUME NEW k \in Nat, k \in K PROVE k + 1 \in K
  <2> SUFFICES ASSUME k + 1 <= n PROVE left[k + 1] = g[k + 1]
    OBVIOUS
  <2>1. k + 1 \in 1 .. n /\ (k + 1) - 1 = k /\ left[k] = g[k]
    BY <1>12
  <2> QED BY <1>7, <1>10, <2>1
<1>13. Nat \subseteq K
  <2> HIDE DEF K
  <2> QED BY <1>11, <1>12, NumbersInduct
<1>14. left \in [0 .. n -> Nat]
  <2>1. \A k \in 0 .. n : left[k] = g[k]
    BY <1>13
  <2>2. left = [k \in 0 .. n |-> left[k]]
    <3> HIDE DEF value
    <3> QED BY <1>9, <1>10 DEF value
  <2> QED BY <2>1, <2>2
<1> QED BY <1>10, <1>14 DEF used, left

LEMMA BodySharesAre ==
  ASSUME NEW n \in Nat, NEW wanted \in [1 .. n -> Text]
  PROVE  LET left == BodyLeft(wanted)  share == BodyShares(wanted) IN
         \A i \in 1 .. n : /\ share[i] = Smaller(BodyCap, left[i - 1]) /\ share[i] \in Nat
                           /\ Bytes(Cut(wanted[i], share[i])) = left[i - 1] - left[i]
<1> DEFINE left == BodyLeft(wanted)
           share == BodyShares(wanted)
<1>1. share = [i \in 1 .. n |-> Smaller(BodyCap, left[i - 1])]
  BY Lengths DEF BodyShares
<1> HIDE DEF left, share
<1> SUFFICES ASSUME NEW i \in 1 .. n
             PROVE  /\ share[i] = Smaller(BodyCap, left[i - 1]) /\ share[i] \in Nat
                    /\ Bytes(Cut(wanted[i], share[i])) = left[i - 1] - left[i]
  BY DEF left, share
<1>2. share[i] = Smaller(BodyCap, left[i - 1])
  BY <1>1
<1>3. /\ left \in [0 .. n -> Nat]
      /\ left[i] = left[i - 1] - Bytes(Cut(wanted[i], Smaller(BodyCap, left[i - 1])))
  BY BodyLeftIs DEF left
<1>4. left[i - 1] \in Nat /\ left[i] \in Nat
  BY <1>3
<1>5. share[i] \in Nat
  <2>1. BodyCap \in Nat
    BY BudgetsAreSound
  <2> QED BY <1>2, <1>4, <2>1, SmallerIs
<1>6. Bytes(Cut(wanted[i], share[i])) \in Nat
  BY <1>5, TextsCut
<1>7. left[i] = left[i - 1] - Bytes(Cut(wanted[i], share[i]))
  BY <1>2, <1>3
<1> DEFINE v == Bytes(Cut(wanted[i], share[i]))
<1>8. v \in Nat /\ left[i] = left[i - 1] - v
  BY <1>6, <1>7
<1> HIDE DEF v
<1>9. v = left[i - 1] - left[i]
  BY <1>4, <1>8
<1> QED BY <1>2, <1>5, <1>9 DEF v

LEMMA MetadataLeftIs ==
  ASSUME NEW n \in Nat, NEW wanted \in [1 .. n -> Nat]
  PROVE  LET left == MetadataLeft(wanted) IN
         /\ left \in [0 .. n -> Nat] /\ left[0] = MetadataTotal
         /\ \A i \in 1 .. n : left[i] = left[i - 1] - Smaller(wanted[i], left[i - 1])
<1> DEFINE used(i, v) == Smaller(wanted[i], v)
           value(g) == [i \in 0 .. n |-> IF i = 0 THEN MetadataTotal ELSE g[i - 1] - used(i, g[i - 1])]
           step == [i \in 1 .. n |-> [v \in Nat |-> v - used(i, v)]]
           left == MetadataLeft(wanted)
<1>1. left = CHOOSE g : g = value(g)
  BY Lengths DEF MetadataLeft
<1>2. MetadataTotal \in Nat
  BY BudgetsAreSound
<1>3. \A i \in 1 .. n : \A v \in Nat : v - used(i, v) \in Nat
  <2> SUFFICES ASSUME NEW i \in 1 .. n, NEW v \in Nat PROVE v - used(i, v) \in Nat
    OBVIOUS
  <2>1. wanted[i] \in Nat
    OBVIOUS
  <2>2. used(i, v) \in Nat /\ used(i, v) <= v
    BY <2>1, SmallerIs
  <2> HIDE DEF used
  <2> QED BY <2>2
<1> HIDE DEF used
<1>4. step \in [1 .. n -> [Nat -> Nat]]
  BY <1>3
<1>5. \A i \in 1 .. n : \A v \in Nat : step[i][v] = v - used(i, v)
  OBVIOUS
<1> HIDE DEF step
<1>6. PICK g \in [0 .. n -> Nat] : g[0] = MetadataTotal /\ \A i \in 1 .. n : g[i] = step[i][g[i - 1]]
  <2>1. \E g : Computes(n, Nat, MetadataTotal, step, g)
    BY <1>2, <1>4, Recursion
  <2> QED BY <2>1 DEF Computes
<1>7. \A i \in 1 .. n : g[i] = g[i - 1] - used(i, g[i - 1])
  <2>1. \A i \in 1 .. n : g[i - 1] \in Nat
    OBVIOUS
  <2> QED BY <1>5, <1>6, <2>1
<1>8. g = value(g)
  BY <1>6, <1>7
<1>9. left = value(left)
  <2> HIDE DEF value, left
  <2> QED BY <1>1, <1>8
<1>10. /\ DOMAIN left = 0 .. n /\ left[0] = MetadataTotal
       /\ \A i \in 1 .. n : left[i] = left[i - 1] - used(i, left[i - 1])
  <2> HIDE DEF left
  <2> QED BY <1>9
<1> HIDE DEF left
<1> DEFINE K == {k \in Nat : k <= n => left[k] = g[k]}
<1>11. 0 \in K
  BY <1>6, <1>10
<1>12. ASSUME NEW k \in Nat, k \in K PROVE k + 1 \in K
  <2> SUFFICES ASSUME k + 1 <= n PROVE left[k + 1] = g[k + 1]
    OBVIOUS
  <2>1. k + 1 \in 1 .. n /\ (k + 1) - 1 = k /\ left[k] = g[k]
    BY <1>12
  <2> QED BY <1>7, <1>10, <2>1
<1>13. Nat \subseteq K
  <2> HIDE DEF K
  <2> QED BY <1>11, <1>12, NumbersInduct
<1>14. left \in [0 .. n -> Nat]
  <2>1. \A k \in 0 .. n : left[k] = g[k]
    BY <1>13
  <2>2. left = [k \in 0 .. n |-> left[k]]
    <3> HIDE DEF value
    <3> QED BY <1>9, <1>10 DEF value
  <2> QED BY <2>1, <2>2
<1> QED BY <1>10, <1>14 DEF used, left

LEMMA MetadataSharesAre ==
  ASSUME NEW n \in Nat, NEW wanted \in [1 .. n -> Nat]
  PROVE  LET left == MetadataLeft(wanted)  share == MetadataShares(wanted) IN
         \A i \in 1 .. n : share[i] \in Nat /\ share[i] <= wanted[i] /\ share[i] = left[i - 1] - left[i]
<1> DEFINE left == MetadataLeft(wanted)
           share == MetadataShares(wanted)
<1>1. share = [i \in 1 .. n |-> Smaller(wanted[i], left[i - 1])]
  BY Lengths DEF MetadataShares
<1> HIDE DEF left, share
<1> SUFFICES ASSUME NEW i \in 1 .. n
             PROVE  share[i] \in Nat /\ share[i] <= wanted[i] /\ share[i] = left[i - 1] - left[i]
  BY DEF left, share
<1>2. share[i] = Smaller(wanted[i], left[i - 1])
  BY <1>1
<1>3. left \in [0 .. n -> Nat] /\ left[i] = left[i - 1] - Smaller(wanted[i], left[i - 1])
  BY MetadataLeftIs DEF left
<1>4. left[i - 1] \in Nat /\ left[i] \in Nat /\ wanted[i] \in Nat
  BY <1>3
<1>5. share[i] \in Nat /\ share[i] <= wanted[i]
  BY <1>2, <1>4, SmallerIs
<1>6. left[i] = left[i - 1] - share[i]
  BY <1>2, <1>3
<1>7. share[i] = left[i - 1] - left[i]
  BY <1>4, <1>5, <1>6
<1> QED BY <1>5, <1>7

-----------------------------------------------------------------------------
(* The detail.                                                             *)

Raw(a, sel) == [i \in DOMAIN Priority(a, sel) |-> Decoded(a, Priority(a, sel)[i])]
Texts(a, sel) == [i \in DOMAIN Priority(a, sel) |-> Raw(a, sel)[i].body]
People(a, sel) == [i \in DOMAIN Priority(a, sel) |-> Raw(a, sel)[i].recipients]
Files(a, sel) == [i \in DOMAIN Priority(a, sel) |-> Raw(a, sel)[i].attachments]
PlaceOf(a, sel, m) == CHOOSE i \in DOMAIN Priority(a, sel) : Priority(a, sel)[i] = m

Shown(a, sel, m, i) ==
  [ body        |-> Cut(Raw(a, sel)[i].body, BodyShares(Texts(a, sel))[i]),
    unavailable |-> Raw(a, sel)[i].unavailable,
    bodyCut     |-> \/ Raw(a, sel)[i].bodyCut
                    \/ Bytes(Raw(a, sel)[i].body)
                         > Bytes(Cut(Raw(a, sel)[i].body, BodyShares(Texts(a, sel))[i]))
                    \/ m # sel /\ BodyShares(Texts(a, sel))[i] = 0,
    recipients  |-> MetadataShares(People(a, sel))[i],
    attachments |-> MetadataShares(Files(a, sel))[i],
    metadataCut |-> \/ Raw(a, sel)[i].metadataCut
                    \/ Raw(a, sel)[i].recipients > MetadataShares(People(a, sel))[i]
                    \/ Raw(a, sel)[i].attachments > MetadataShares(Files(a, sel))[i] ]

LEMMA DetailIs ==
  ASSUME NEW a, NEW sel
  PROVE  LET d == Detail(a, sel) IN
         /\ DOMAIN d = {"selected", "messages", "historyCut", "outside"}
         /\ d.selected = sel
         /\ d.messages = [m \in Retained(a, sel) |-> Shown(a, sel, m, PlaceOf(a, sel, m))]
         /\ d.historyCut <=> \/ Cardinality(Candidates(a, sel)) >= CandidateLimit
                             \/ Cardinality(Inspected(a, sel)) > Cardinality(Retained(a, sel))
                             \/ sel \notin Recent(a, sel)
<1> DEFINE d == Detail(a, sel)
           messages == [m \in Retained(a, sel) |-> Shown(a, sel, m, PlaceOf(a, sel, m))]
           cut == \/ Cardinality(Candidates(a, sel)) >= CandidateLimit
                  \/ Cardinality(Inspected(a, sel)) > Cardinality(Retained(a, sel))
                  \/ sel \notin Recent(a, sel)
<1>1. d = [selected |-> sel, messages |-> messages, historyCut |-> cut, outside |-> sel \notin Recent(a, sel)]
  BY DEF Detail, Raw, Texts, People, Files, PlaceOf, Shown
<1> HIDE DEF d, messages, cut
<1>2. /\ DOMAIN d = {"selected", "messages", "historyCut", "outside"}
      /\ d.selected = sel /\ d.messages = messages /\ d.historyCut = cut
  BY <1>1
<1> QED BY <1>2 DEF d, messages, cut

(* The places and what is asked for in order of priority.                  *)
LEMMA Asked ==
  ASSUME NEW a \in Archive, NEW sel \in Messages
  PROVE  LET n == Cardinality(Retained(a, sel)) IN
         /\ n \in Nat \ {0} /\ DOMAIN Priority(a, sel) = 1 .. n
         /\ Texts(a, sel) \in [1 .. n -> Text]
         /\ People(a, sel) \in [1 .. n -> Nat] /\ Files(a, sel) \in [1 .. n -> Nat]
         /\ \A i \in 1 .. n : /\ Priority(a, sel)[i] \in Retained(a, sel)
                              /\ Priority(a, sel)[i] \in Messages
                              /\ Raw(a, sel)[i] = Decoded(a, Priority(a, sel)[i])
                              /\ Texts(a, sel)[i] = Raw(a, sel)[i].body
                              /\ People(a, sel)[i] = Raw(a, sel)[i].recipients
                              /\ Files(a, sel)[i] = Raw(a, sel)[i].attachments
<1> DEFINE n == Cardinality(Retained(a, sel))
           order == Priority(a, sel)
<1>1. n \in Nat \ {0}
  BY RetainedIs
<1>2. order \in [1 .. n -> Retained(a, sel)] /\ Retained(a, sel) \subseteq Messages
  BY PriorityIs, RetainedIs DEF Bijection, Injection
<1> HIDE DEF n, order
<1>3. \A i \in 1 .. n : /\ order[i] \in Retained(a, sel) /\ order[i] \in Messages
                        /\ Raw(a, sel)[i] = Decoded(a, order[i])
                        /\ Texts(a, sel)[i] = Raw(a, sel)[i].body
                        /\ People(a, sel)[i] = Raw(a, sel)[i].recipients
                        /\ Files(a, sel)[i] = Raw(a, sel)[i].attachments
  BY <1>2 DEF Raw, Texts, People, Files, order
<1>4. \A i \in 1 .. n : /\ Texts(a, sel)[i] \in Text /\ People(a, sel)[i] \in Nat
                        /\ Files(a, sel)[i] \in Nat
  <2> SUFFICES ASSUME NEW i \in 1 .. n
               PROVE  /\ Texts(a, sel)[i] \in Text /\ People(a, sel)[i] \in Nat
                      /\ Files(a, sel)[i] \in Nat
    OBVIOUS
  <2>1. order[i] \in Messages
    BY <1>3
  <2>2. /\ Decoded(a, order[i]).body \in Text
        /\ Decoded(a, order[i]).recipients \in 0 .. MetadataCap
        /\ Decoded(a, order[i]).attachments \in 0 .. MetadataCap
    BY <2>1, DecodedKeepsCaps
  <2> QED BY <1>3, <2>2
<1>5. /\ DOMAIN order = 1 .. n
      /\ Texts(a, sel) = [i \in 1 .. n |-> Texts(a, sel)[i]]
      /\ People(a, sel) = [i \in 1 .. n |-> People(a, sel)[i]]
      /\ Files(a, sel) = [i \in 1 .. n |-> Files(a, sel)[i]]
  BY <1>2 DEF Texts, People, Files, order
<1>6. /\ Texts(a, sel) \in [1 .. n -> Text]
      /\ People(a, sel) \in [1 .. n -> Nat] /\ Files(a, sel) \in [1 .. n -> Nat]
  BY <1>4, <1>5
<1> QED BY <1>1, <1>3, <1>5, <1>6 DEF n, order

(* What is shown of one message.                                           *)
Tells(a, sel, m, x) ==
  LET msg == a.mail[m] IN
  /\ Bytes(msg.body) > Bytes(x.body) => x.bodyCut
  /\ msg.recipients.rows > x.recipients => x.metadataCut
  /\ msg.attachments > x.attachments => x.metadataCut
  /\ m = sel => Bytes(x.body) = Bytes(Cut(msg.body, BodyCap))

KeepsCaps(x) ==
  /\ {"body", "bodyCut", "recipients", "attachments", "metadataCut"} \subseteq DOMAIN x
  /\ x.body \in Text /\ Bytes(x.body) \in Nat /\ Bytes(x.body) <= BodyCap
  /\ x.recipients \in 0 .. MetadataCap /\ x.attachments \in 0 .. MetadataCap

LEMMA ShownIs ==
  ASSUME NEW a \in Archive, NEW sel \in Messages,
         NEW i \in 1 .. Cardinality(Retained(a, sel)), NEW m, m = Priority(a, sel)[i]
  PROVE  LET x == Shown(a, sel, m, i) IN
         /\ KeepsCaps(x) /\ Tells(a, sel, m, x)
         /\ Bytes(x.body) = BodyLeft(Texts(a, sel))[i - 1] - BodyLeft(Texts(a, sel))[i]
         /\ x.recipients = MetadataLeft(People(a, sel))[i - 1] - MetadataLeft(People(a, sel))[i]
         /\ x.attachments = MetadataLeft(Files(a, sel))[i - 1] - MetadataLeft(Files(a, sel))[i]
<1> DEFINE n == Cardinality(Retained(a, sel))
           r == Decoded(a, m)
           msg == a.mail[m]
           x == Shown(a, sel, m, i)
           share == BodyShares(Texts(a, sel))[i]
           left == BodyLeft(Texts(a, sel))
           people == MetadataShares(People(a, sel))[i]
           files == MetadataShares(Files(a, sel))[i]
<1>1. /\ m \in Messages /\ n \in Nat /\ i \in 1 .. n
      /\ Raw(a, sel)[i] = r /\ Texts(a, sel)[i] = r.body
      /\ People(a, sel)[i] = r.recipients /\ Files(a, sel)[i] = r.attachments
      /\ Texts(a, sel) \in [1 .. n -> Text]
      /\ People(a, sel) \in [1 .. n -> Nat] /\ Files(a, sel) \in [1 .. n -> Nat]
  BY Asked
<1>2. /\ r.body = Cut(msg.body, BodyCap) /\ r.body \in Text
      /\ r.recipients \in 0 .. MetadataCap /\ r.attachments \in 0 .. MetadataCap
      /\ Bytes(msg.body) > Bytes(r.body) => r.bodyCut
      /\ msg.recipients.rows > r.recipients => r.metadataCut
      /\ msg.attachments > r.attachments => r.metadataCut
  BY <1>1, DecodedKeepsCaps
<1>3. /\ x.body = Cut(r.body, share)
      /\ x.bodyCut = (r.bodyCut \/ Bytes(r.body) > Bytes(Cut(r.body, share)) \/ (m # sel /\ share = 0))
      /\ x.recipients = people /\ x.attachments = files
      /\ x.metadataCut = (r.metadataCut \/ r.recipients > people \/ r.attachments > files)
  BY <1>1 DEF Shown
<1> HIDE DEF n, r, x, share, left, people, files
<1>4. /\ share = Smaller(BodyCap, left[i - 1]) /\ share \in Nat
      /\ Bytes(Cut(r.body, share)) = left[i - 1] - left[i]
  BY <1>1, BodySharesAre DEF share, left
<1>5. /\ people \in Nat /\ people <= r.recipients
      /\ people = MetadataLeft(People(a, sel))[i - 1] - MetadataLeft(People(a, sel))[i]
  BY <1>1, MetadataSharesAre DEF people
<1>6. /\ files \in Nat /\ files <= r.attachments
      /\ files = MetadataLeft(Files(a, sel))[i - 1] - MetadataLeft(Files(a, sel))[i]
  BY <1>1, MetadataSharesAre DEF files
<1>7. BodyCap \in Nat /\ BodyTotal \in Nat /\ BodyCap <= BodyTotal /\ MetadataCap \in Nat
  BY BudgetsAreSound
<1>8. msg.body \in Text /\ msg.recipients.rows \in Nat /\ msg.attachments \in Nat
  BY <1>1, MailHolds
<1> HIDE DEF msg
<1>9. /\ x.body \in Text /\ Bytes(x.body) \in Nat /\ Bytes(r.body) \in Nat /\ Bytes(msg.body) \in Nat
      /\ Bytes(x.body) <= Bytes(r.body) /\ Bytes(r.body) <= BodyCap
  BY <1>2, <1>3, <1>4, <1>7, <1>8, TextsCut
<1>10. KeepsCaps(x)
  <2>1. Bytes(x.body) <= BodyCap
    BY <1>7, <1>9
  <2>2. x.recipients \in 0 .. MetadataCap /\ x.attachments \in 0 .. MetadataCap
    BY <1>2, <1>3, <1>5, <1>6, <1>7
  <2>3. {"body", "bodyCut", "recipients", "attachments", "metadataCut"} \subseteq DOMAIN x
    BY DEF x, Shown
  <2> QED BY <1>9, <2>1, <2>2, <2>3 DEF KeepsCaps
<1>11. Bytes(msg.body) > Bytes(x.body) => x.bodyCut
  <2>1. Bytes(msg.body) > Bytes(x.body) => \/ Bytes(msg.body) > Bytes(r.body)
                                           \/ Bytes(r.body) > Bytes(x.body)
    BY <1>9
  <2>2. Bytes(x.body) = Bytes(Cut(r.body, share))
    BY <1>3
  <2>3. \/ r.bodyCut
        \/ Bytes(r.body) > Bytes(Cut(r.body, share))
        \/ ~(Bytes(msg.body) > Bytes(x.body))
    BY <1>2, <2>1, <2>2
  <2> QED BY <1>3, <2>3
<1>12. msg.recipients.rows > x.recipients => x.metadataCut
  <2>1. msg.recipients.rows > people => msg.recipients.rows > r.recipients \/ r.recipients > people
    BY <1>2, <1>5, <1>7, <1>8
  <2> QED BY <1>2, <1>3, <2>1
<1>13. msg.attachments > x.attachments => x.metadataCut
  <2>1. msg.attachments > files => msg.attachments > r.attachments \/ r.attachments > files
    BY <1>2, <1>6, <1>7, <1>8
  <2> QED BY <1>2, <1>3, <2>1
<1>14. ASSUME m = sel PROVE Bytes(x.body) = Bytes(Cut(msg.body, BodyCap))
  <2>1. i = 1
    <3>1. Priority(a, sel)[1] = sel /\ 1 \in 1 .. n
      BY <1>1, PriorityIs DEF n
    <3>2. \A j, k \in 1 .. n : Priority(a, sel)[j] = Priority(a, sel)[k] => j = k
      BY Asked, PriorityIs DEF n, Bijection, Injection, IsInjective
    <3> QED BY <1>1, <1>14, <3>1, <3>2
  <2>2. left[0] = BodyTotal
    BY <1>1, BodyLeftIs DEF left
  <2>3. share = BodyCap
    BY <1>4, <1>7, <2>1, <2>2 DEF Smaller
  <2>4. Cut(r.body, BodyCap) = r.body
    BY <1>2, <1>7, <1>8, TextsCut
  <2> QED BY <1>2, <1>3, <2>3, <2>4
<1>15. Tells(a, sel, m, x)
  BY <1>11, <1>12, <1>13, <1>14 DEF Tells, msg
<1> QED BY <1>3, <1>4, <1>5, <1>6, <1>10, <1>15 DEF x, left

LEMMA DetailShows ==
  ASSUME NEW a \in Archive, NEW sel \in Messages
  PROVE  LET ms == Detail(a, sel).messages  S == Retained(a, sel) IN
         /\ DOMAIN ms = S
         /\ \A m \in S : KeepsCaps(ms[m]) /\ Tells(a, sel, m, ms[m])
         /\ \A i \in 1 .. Cardinality(S) :
              LET x == ms[Priority(a, sel)[i]] IN
              /\ Bytes(x.body) = BodyLeft(Texts(a, sel))[i - 1] - BodyLeft(Texts(a, sel))[i]
              /\ x.recipients = MetadataLeft(People(a, sel))[i - 1] - MetadataLeft(People(a, sel))[i]
              /\ x.attachments = MetadataLeft(Files(a, sel))[i - 1] - MetadataLeft(Files(a, sel))[i]
<1> DEFINE ms == Detail(a, sel).messages
           S == Retained(a, sel)
           n == Cardinality(S)
           order == Priority(a, sel)
<1>1. ms = [m \in S |-> Shown(a, sel, m, PlaceOf(a, sel, m))]
  BY DetailIs
<1> HIDE DEF ms
<1>2. /\ DOMAIN order = 1 .. n /\ \A i \in 1 .. n : order[i] \in S
      /\ \A i, j \in 1 .. n : order[i] = order[j] => i = j
      /\ \A m \in S : \E i \in 1 .. n : order[i] = m
  <2>1. order \in Bijection(1 .. n, S) /\ DOMAIN order = 1 .. n
    BY PriorityIs, Asked
  <2> HIDE DEF order, n, S
  <2> QED BY <2>1 DEF Bijection, Injection, IsInjective, Surjection
<1> HIDE DEF S, n, order
<1>3. \A m \in S : PlaceOf(a, sel, m) \in 1 .. n /\ order[PlaceOf(a, sel, m)] = m
  BY <1>2 DEF PlaceOf, order
<1>4. \A i \in 1 .. n : PlaceOf(a, sel, order[i]) = i
  BY <1>2, <1>3
<1>5. ASSUME NEW i \in 1 .. n
      PROVE  LET x == ms[order[i]] IN
             /\ KeepsCaps(x) /\ Tells(a, sel, order[i], x)
             /\ Bytes(x.body) = BodyLeft(Texts(a, sel))[i - 1] - BodyLeft(Texts(a, sel))[i]
             /\ x.recipients = MetadataLeft(People(a, sel))[i - 1] - MetadataLeft(People(a, sel))[i]
             /\ x.attachments = MetadataLeft(Files(a, sel))[i - 1] - MetadataLeft(Files(a, sel))[i]
  <2>1. ms[order[i]] = Shown(a, sel, order[i], i)
    BY <1>1, <1>2, <1>4
  <2> DEFINE m == order[i]
  <2>2. m = Priority(a, sel)[i] /\ i \in 1 .. Cardinality(Retained(a, sel))
    BY DEF order, n, S
  <2> HIDE DEF m
  <2>3. LET x == Shown(a, sel, m, i) IN
        /\ KeepsCaps(x) /\ Tells(a, sel, m, x)
        /\ Bytes(x.body) = BodyLeft(Texts(a, sel))[i - 1] - BodyLeft(Texts(a, sel))[i]
        /\ x.recipients = MetadataLeft(People(a, sel))[i - 1] - MetadataLeft(People(a, sel))[i]
        /\ x.attachments = MetadataLeft(Files(a, sel))[i - 1] - MetadataLeft(Files(a, sel))[i]
    BY <2>2, ShownIs
  <2> QED BY <2>1, <2>3 DEF m
<1>6. \A m \in S : KeepsCaps(ms[m]) /\ Tells(a, sel, m, ms[m])
  BY <1>2, <1>5
<1>7. DOMAIN ms = S
  BY <1>1
<1> QED BY <1>5, <1>6, <1>7 DEF ms, S, n, order

(* What the projection builds passes validateInternalThreadDetail: the     *)
(* shares that allocateBodies and allocateMetadata hand out one by one add *)
(* up to no more than the totals, for every conversation.                  *)
THEOREM DetailsKeepBudgets ==
  ASSUME NEW a \in Archive, NEW sel \in Messages PROVE WithinBudgets(Detail(a, sel))
<1> DEFINE d == Detail(a, sel)
           ms == d.messages
           S == Retained(a, sel)
           n == Cardinality(S)
           order == Priority(a, sel)
<1>1. /\ DOMAIN ms = S /\ \A m \in S : KeepsCaps(ms[m])
      /\ \A i \in 1 .. n :
           /\ Bytes(ms[order[i]].body) = BodyLeft(Texts(a, sel))[i - 1] - BodyLeft(Texts(a, sel))[i]
           /\ ms[order[i]].recipients
                = MetadataLeft(People(a, sel))[i - 1] - MetadataLeft(People(a, sel))[i]
           /\ ms[order[i]].attachments
                = MetadataLeft(Files(a, sel))[i - 1] - MetadataLeft(Files(a, sel))[i]
  BY DetailShows
<1>2. d.selected = sel
  BY DetailIs
<1>3. /\ S \in SUBSET Messages /\ sel \in S /\ n \in 1 .. MaxMessages /\ n \in Nat /\ IsFiniteSet(S)
      /\ order \in Bijection(1 .. n, S)
  BY RetainedIs, PriorityIs, MailIsFinite
<1>4. /\ Texts(a, sel) \in [1 .. n -> Text]
      /\ People(a, sel) \in [1 .. n -> Nat] /\ Files(a, sel) \in [1 .. n -> Nat]
  BY Asked
<1> HIDE DEF d, S, n, order
<1>5. \A m \in S : /\ Bytes(ms[m].body) \in Nat /\ Bytes(ms[m].body) <= BodyCap
                   /\ ms[m].recipients \in Nat /\ ms[m].recipients <= MetadataCap
                   /\ ms[m].attachments \in Nat /\ ms[m].attachments <= MetadataCap
  BY <1>1, BudgetsAreSound DEF KeepsCaps
<1>6. \A i \in 1 .. n : order[i] \in S
  BY <1>3 DEF Bijection, Injection
<1>7. SumFunction([m \in DOMAIN ms |-> Bytes(ms[m].body)]) <= BodyTotal
  <2> DEFINE f == [m \in DOMAIN ms |-> Bytes(ms[m].body)]
             left == BodyLeft(Texts(a, sel))
  <2>1. f \in [S -> Nat] /\ \A i \in 1 .. n : f[order[i]] = left[i - 1] - left[i]
    BY <1>1, <1>5, <1>6
  <2>2. left \in [0 .. n -> Nat] /\ left[0] = BodyTotal
    BY <1>3, <1>4, BodyLeftIs
  <2> HIDE DEF f, left
  <2>3. SumFunction(f) <= left[0]
    BY <1>3, <2>1, <2>2, SumOfShares
  <2> QED BY <2>2, <2>3 DEF f
<1>8. SumFunction([m \in DOMAIN ms |-> ms[m].recipients]) <= MetadataTotal
  <2> DEFINE f == [m \in DOMAIN ms |-> ms[m].recipients]
             left == MetadataLeft(People(a, sel))
  <2>1. f \in [S -> Nat] /\ \A i \in 1 .. n : f[order[i]] = left[i - 1] - left[i]
    BY <1>1, <1>5, <1>6
  <2>2. left \in [0 .. n -> Nat] /\ left[0] = MetadataTotal
    BY <1>3, <1>4, MetadataLeftIs
  <2> HIDE DEF f, left
  <2>3. SumFunction(f) <= left[0]
    BY <1>3, <2>1, <2>2, SumOfShares
  <2> QED BY <2>2, <2>3 DEF f
<1>9. SumFunction([m \in DOMAIN ms |-> ms[m].attachments]) <= MetadataTotal
  <2> DEFINE f == [m \in DOMAIN ms |-> ms[m].attachments]
             left == MetadataLeft(Files(a, sel))
  <2>1. f \in [S -> Nat] /\ \A i \in 1 .. n : f[order[i]] = left[i - 1] - left[i]
    BY <1>1, <1>5, <1>6
  <2>2. left \in [0 .. n -> Nat] /\ left[0] = MetadataTotal
    BY <1>3, <1>4, MetadataLeftIs
  <2> HIDE DEF f, left
  <2>3. SumFunction(f) <= left[0]
    BY <1>3, <2>1, <2>2, SumOfShares
  <2> QED BY <2>2, <2>3 DEF f
<1>10. /\ d.selected \in DOMAIN ms /\ Cardinality(DOMAIN ms) \in 1 .. MaxMessages
       /\ \A m \in DOMAIN ms : /\ Bytes(ms[m].body) <= BodyCap
                                /\ ms[m].recipients <= MetadataCap
                                /\ ms[m].attachments <= MetadataCap
  BY <1>1, <1>2, <1>3, <1>5 DEF n
<1> QED BY <1>7, <1>8, <1>9, <1>10 DEF WithinBudgets, d

-----------------------------------------------------------------------------
(* Trimming.                                                               *)

IsDetail(d) ==
  /\ {"selected", "messages", "historyCut"} \subseteq DOMAIN d
  /\ DOMAIN d.messages \in SUBSET Messages /\ d.selected \in DOMAIN d.messages
  /\ \A m \in DOMAIN d.messages : KeepsCaps(d.messages[m])

LEMMA TrimIs ==
  ASSUME NEW a, NEW d, NEW k, NEW m, KeepsCaps(d.messages[m])
  PROVE  LET x == d.messages[m]
             t == Trim(a, d, k, m)
             noBody == Reached(a, d, k, 0, m) /\ Bytes(x.body) > 0
             noMeta == Reached(a, d, k, 1, m) /\ x.recipients + x.attachments > 0
         IN /\ t.body = (IF noBody THEN Cut(x.body, 0) ELSE x.body)
            /\ t.bodyCut = (x.bodyCut \/ noBody)
            /\ t.recipients = (IF noMeta THEN 0 ELSE x.recipients)
            /\ t.attachments = (IF noMeta THEN 0 ELSE x.attachments)
            /\ t.metadataCut = (x.metadataCut \/ noMeta)
            /\ DOMAIN t = DOMAIN x
<1> DEFINE x == d.messages[m]
           noBody == Reached(a, d, k, 0, m) /\ Bytes(x.body) > 0
           noMeta == Reached(a, d, k, 1, m) /\ x.recipients + x.attachments > 0
           t == Trim(a, d, k, m)
<1>1. t = [x EXCEPT !.body = IF noBody THEN Cut(@, 0) ELSE @,
                    !.bodyCut = @ \/ noBody,
                    !.recipients = IF noMeta THEN 0 ELSE @,
                    !.attachments = IF noMeta THEN 0 ELSE @,
                    !.metadataCut = @ \/ noMeta]
  BY DEF Trim
<1>2. {"body", "bodyCut", "recipients", "attachments", "metadataCut"} \subseteq DOMAIN x
  BY DEF KeepsCaps
<1> HIDE DEF x, noBody, noMeta, t
<1>3. /\ t.body = (IF noBody THEN Cut(x.body, 0) ELSE x.body)
      /\ t.bodyCut = (x.bodyCut \/ noBody)
      /\ t.recipients = (IF noMeta THEN 0 ELSE x.recipients)
      /\ t.attachments = (IF noMeta THEN 0 ELSE x.attachments)
      /\ t.metadataCut = (x.metadataCut \/ noMeta)
      /\ DOMAIN t = DOMAIN x
  BY <1>1, <1>2
<1> QED BY <1>3 DEF x, noBody, noMeta, t

Kept(a, d, k) == {m \in DOMAIN d.messages : ~Reached(a, d, k, 2, m)}

(* Entry y has no more than entry x.                                       *)
NoMore(y, x) ==
  /\ Bytes(y.body) <= Bytes(x.body)
  /\ y.recipients <= x.recipients /\ y.attachments <= x.attachments

LEMMA TrimmedByIs ==
  ASSUME NEW a, NEW d, IsDetail(d), NEW k
  PROVE  LET t == TrimmedBy(a, d, k) IN
         /\ t.selected = d.selected /\ DOMAIN t = DOMAIN d
         /\ DOMAIN t.messages = Kept(a, d, k) /\ d.selected \in Kept(a, d, k)
         /\ t.historyCut = (d.historyCut \/ Kept(a, d, k) # DOMAIN d.messages)
         /\ \A m \in Kept(a, d, k) : t.messages[m] = Trim(a, d, k, m)
<1> DEFINE t == TrimmedBy(a, d, k)
           kept == Kept(a, d, k)
           messages == [m \in kept |-> Trim(a, d, k, m)]
<1>1. t = [d EXCEPT !.messages = messages, !.historyCut = @ \/ kept # DOMAIN d.messages]
  BY DEF TrimmedBy, Kept
<1>2. d.selected \in kept
  BY DEF IsDetail, Kept, Reached, Others
<1>3. DOMAIN messages = kept /\ \A m \in kept : messages[m] = Trim(a, d, k, m)
  OBVIOUS
<1> HIDE DEF t, kept, messages
<1>4. /\ t.messages = messages /\ DOMAIN t = DOMAIN d /\ t.selected = d.selected
      /\ t.historyCut = (d.historyCut \/ kept # DOMAIN d.messages)
  BY <1>1 DEF IsDetail
<1> QED BY <1>2, <1>3, <1>4 DEF t, kept

LEMMA TrimTakes ==
  ASSUME NEW a, NEW d, IsDetail(d), NEW k, NEW m \in DOMAIN d.messages
  PROVE  LET x == d.messages[m]  y == Trim(a, d, k, m) IN
         /\ KeepsCaps(y) /\ NoMore(y, x)
         /\ \A b, sel : Tells(b, sel, m, x) /\ (m = sel => m = d.selected) => Tells(b, sel, m, y)
<1> DEFINE x == d.messages[m]
           y == Trim(a, d, k, m)
           noBody == Reached(a, d, k, 0, m) /\ Bytes(x.body) > 0
           noMeta == Reached(a, d, k, 1, m) /\ x.recipients + x.attachments > 0
<1>1. KeepsCaps(x)
  BY DEF IsDetail
<1>2. /\ y.body = (IF noBody THEN Cut(x.body, 0) ELSE x.body)
      /\ y.bodyCut = (x.bodyCut \/ noBody)
      /\ y.recipients = (IF noMeta THEN 0 ELSE x.recipients)
      /\ y.attachments = (IF noMeta THEN 0 ELSE x.attachments)
      /\ y.metadataCut = (x.metadataCut \/ noMeta)
      /\ DOMAIN y = DOMAIN x
  BY <1>1, TrimIs
<1>3. m = d.selected => ~noBody
  BY DEF Reached, Others
<1> HIDE DEF x, y, noBody, noMeta
<1>4. /\ x.body \in Text /\ Bytes(x.body) \in Nat /\ Bytes(x.body) <= BodyCap
      /\ x.recipients \in 0 .. MetadataCap /\ x.attachments \in 0 .. MetadataCap
      /\ {"body", "bodyCut", "recipients", "attachments", "metadataCut"} \subseteq DOMAIN x
  BY <1>1 DEF KeepsCaps
<1>5. BodyCap \in Nat /\ MetadataCap \in Nat
  BY BudgetsAreSound
<1>6. y.body \in Text /\ Bytes(y.body) \in Nat /\ Bytes(y.body) <= Bytes(x.body)
  <2>1. CASE noBody
    <3>1. y.body = Cut(x.body, 0) /\ 0 \in Nat
      BY <1>2, <2>1
    <3> QED BY <1>4, <3>1, TextsCut
  <2>2. CASE ~noBody
    BY <1>2, <1>4, <2>2
  <2> QED BY <2>1, <2>2
<1>7. /\ y.recipients \in 0 .. MetadataCap /\ y.attachments \in 0 .. MetadataCap
      /\ y.recipients <= x.recipients /\ y.attachments <= x.attachments
  BY <1>2, <1>4, <1>5
<1>8. KeepsCaps(y)
  <2>1. Bytes(y.body) <= BodyCap
    BY <1>4, <1>5, <1>6
  <2>2. {"body", "bodyCut", "recipients", "attachments", "metadataCut"} \subseteq DOMAIN y
    BY <1>2, <1>4
  <2> QED BY <1>6, <1>7, <2>1, <2>2 DEF KeepsCaps
<1>9. NoMore(y, x)
  BY <1>6, <1>7 DEF NoMore
<1>10. ASSUME NEW b, NEW sel, Tells(b, sel, m, x), m = sel => m = d.selected
       PROVE  Tells(b, sel, m, y)
  <2>1. Bytes(b.mail[m].body) > Bytes(y.body) => y.bodyCut
    <3>1. CASE noBody
      BY <1>2, <3>1
    <3>2. CASE ~noBody
      <4>1. y.body = x.body /\ (x.bodyCut => y.bodyCut)
        BY <1>2, <3>2
      <4> QED BY <1>10, <4>1 DEF Tells
    <3> QED BY <3>1, <3>2
  <2>2. /\ b.mail[m].recipients.rows > y.recipients => y.metadataCut
        /\ b.mail[m].attachments > y.attachments => y.metadataCut
    <3>1. CASE noMeta
      BY <1>2, <3>1
    <3>2. CASE ~noMeta
      <4>1. y.recipients = x.recipients /\ y.attachments = x.attachments /\ (x.metadataCut => y.metadataCut)
        BY <1>2, <3>2
      <4> QED BY <1>10, <4>1 DEF Tells
    <3> QED BY <3>1, <3>2
  <2>3. m = sel => Bytes(y.body) = Bytes(Cut(b.mail[m].body, BodyCap))
    <3>1. m = sel => y.body = x.body
      BY <1>2, <1>3, <1>10
    <3> QED BY <1>10, <3>1 DEF Tells
  <2> QED BY <2>1, <2>2, <2>3 DEF Tells
<1> QED BY <1>8, <1>9, <1>10 DEF x, y

(* Whatever trimming leaves keeps the budgets too.                         *)
LEMMA TrimmedKeepBudgets ==
  ASSUME NEW a, NEW d, IsDetail(d), WithinBudgets(d), NEW k PROVE WithinBudgets(TrimmedBy(a, d, k))
<1> DEFINE t == TrimmedBy(a, d, k)
           C == Kept(a, d, k)
           D == DOMAIN d.messages
<1>1. /\ t.selected = d.selected /\ DOMAIN t.messages = C /\ d.selected \in C
      /\ \A m \in C : t.messages[m] = Trim(a, d, k, m)
  BY TrimmedByIs
<1>2. C \in SUBSET D /\ D \in SUBSET Messages
  BY DEF Kept, IsDetail
<1>3. \A m \in C : KeepsCaps(t.messages[m]) /\ NoMore(t.messages[m], d.messages[m])
  BY <1>1, <1>2, TrimTakes
<1> HIDE DEF t, C
<1>4. \A m \in C : /\ Bytes(t.messages[m].body) \in Nat /\ Bytes(t.messages[m].body) <= BodyCap
                   /\ t.messages[m].recipients \in Nat /\ t.messages[m].recipients <= MetadataCap
                   /\ t.messages[m].attachments \in Nat /\ t.messages[m].attachments <= MetadataCap
  BY <1>3, BudgetsAreSound DEF KeepsCaps
<1>5. \A m \in D : /\ Bytes(d.messages[m].body) \in Nat
                   /\ d.messages[m].recipients \in Nat /\ d.messages[m].attachments \in Nat
  BY BudgetsAreSound DEF IsDetail, KeepsCaps
<1>6. IsFiniteSet(D) /\ IsFiniteSet(C) /\ Cardinality(C) \in Nat /\ Cardinality(D) \in Nat
      /\ Cardinality(C) <= Cardinality(D) /\ Cardinality(C) # 0
  <2>1. IsFiniteSet(D) /\ IsFiniteSet(C) /\ Cardinality(C) \in Nat /\ Cardinality(D) \in Nat
    BY <1>2, MailIsFinite
  <2> QED BY <1>1, <1>2, <2>1, FS_Subset, FS_EmptySet
<1>7. /\ Cardinality(D) \in 1 .. MaxMessages
      /\ SumFunction([m \in D |-> Bytes(d.messages[m].body)]) <= BodyTotal
      /\ SumFunction([m \in D |-> d.messages[m].recipients]) <= MetadataTotal
      /\ SumFunction([m \in D |-> d.messages[m].attachments]) <= MetadataTotal
  BY DEF WithinBudgets
<1> HIDE DEF D
<1>8. SumFunction([m \in C |-> Bytes(t.messages[m].body)]) <= BodyTotal
  <2> DEFINE f == [m \in D |-> Bytes(d.messages[m].body)]
             e == [m \in C |-> Bytes(t.messages[m].body)]
  <2>1. f \in [D -> Nat] /\ e \in [C -> Nat] /\ \A m \in C : e[m] <= f[m]
    BY <1>2, <1>3, <1>4, <1>5 DEF NoMore
  <2> HIDE DEF f, e
  <2>2. SumFunction(e) \in Nat /\ SumFunction(f) \in Nat /\ SumFunction(e) <= SumFunction(f)
    BY <1>2, <1>6, <2>1, SumsGrow
  <2>3. SumFunction(f) <= BodyTotal /\ BodyTotal \in Nat
    BY <1>7, BudgetsAreSound DEF f
  <2>4. SumFunction(e) <= BodyTotal
    BY <2>2, <2>3
  <2> QED BY <2>4 DEF e
<1>9. SumFunction([m \in C |-> t.messages[m].recipients]) <= MetadataTotal
  <2> DEFINE f == [m \in D |-> d.messages[m].recipients]
             e == [m \in C |-> t.messages[m].recipients]
  <2>1. f \in [D -> Nat] /\ e \in [C -> Nat] /\ \A m \in C : e[m] <= f[m]
    BY <1>2, <1>3, <1>4, <1>5 DEF NoMore
  <2> HIDE DEF f, e
  <2>2. SumFunction(e) \in Nat /\ SumFunction(f) \in Nat /\ SumFunction(e) <= SumFunction(f)
    BY <1>2, <1>6, <2>1, SumsGrow
  <2>3. SumFunction(f) <= MetadataTotal /\ MetadataTotal \in Nat
    BY <1>7, BudgetsAreSound DEF f
  <2>4. SumFunction(e) <= MetadataTotal
    BY <2>2, <2>3
  <2> QED BY <2>4 DEF e
<1>10. SumFunction([m \in C |-> t.messages[m].attachments]) <= MetadataTotal
  <2> DEFINE f == [m \in D |-> d.messages[m].attachments]
             e == [m \in C |-> t.messages[m].attachments]
  <2>1. f \in [D -> Nat] /\ e \in [C -> Nat] /\ \A m \in C : e[m] <= f[m]
    BY <1>2, <1>3, <1>4, <1>5 DEF NoMore
  <2> HIDE DEF f, e
  <2>2. SumFunction(e) \in Nat /\ SumFunction(f) \in Nat /\ SumFunction(e) <= SumFunction(f)
    BY <1>2, <1>6, <2>1, SumsGrow
  <2>3. SumFunction(f) <= MetadataTotal /\ MetadataTotal \in Nat
    BY <1>7, BudgetsAreSound DEF f
  <2>4. SumFunction(e) <= MetadataTotal
    BY <2>2, <2>3
  <2> QED BY <2>4 DEF e
<1>11. Cardinality(C) \in 1 .. MaxMessages
  BY <1>6, <1>7, BudgetsAreSound
<1> QED BY <1>1, <1>4, <1>8, <1>9, <1>10, <1>11 DEF WithinBudgets, t

(* The selected message fits, whatever it holds, and it is what is left    *)
(* when everything else is gone.                                           *)
LEMMA OneEntryFits ==
  ASSUME NEW x, KeepsCaps(x)
  PROVE  LET json == EnvelopeJson + Escaped * Bytes(x.body) + MetadataJson * (x.recipients + x.attachments)
         IN json \in Nat /\ json < OutputMax
<1> DEFINE b == Bytes(x.body)
           e == x.recipients + x.attachments
<1>1. b \in Nat /\ b <= BodyCap /\ e \in Nat /\ e <= 2 * MetadataCap
  <2>1. /\ x.recipients \in 0 .. MetadataCap /\ x.attachments \in 0 .. MetadataCap
        /\ b \in Nat /\ b <= BodyCap
    BY DEF KeepsCaps
  <2>2. MetadataCap \in Nat
    BY BudgetsAreSound
  <2> HIDE DEF b
  <2>3. x.recipients + x.attachments \in Nat /\ x.recipients + x.attachments <= 2 * MetadataCap
    BY <2>1, <2>2
  <2> QED BY <2>1, <2>3
<1>2. /\ BodyCap \in Nat /\ MetadataCap \in Nat /\ OutputMax \in Nat /\ Escaped \in Nat
      /\ EnvelopeJson \in Nat /\ MetadataJson \in Nat /\ 2 * MetadataCap \in Nat
  BY BudgetsAreSound
<1> HIDE DEF b, e
<1>3. /\ b * Escaped \in Nat /\ BodyCap * Escaped \in Nat /\ b * Escaped <= BodyCap * Escaped
      /\ e * MetadataJson \in Nat /\ 2 * MetadataCap * MetadataJson \in Nat
      /\ e * MetadataJson <= 2 * MetadataCap * MetadataJson
  <2>1. b * Escaped \in Nat /\ BodyCap * Escaped \in Nat /\ b * Escaped <= BodyCap * Escaped
    BY <1>1, <1>2, LessIsLess
  <2> DEFINE c == 2 * MetadataCap
  <2>2. c \in Nat /\ e <= c
    BY <1>1, <1>2
  <2> HIDE DEF c
  <2>3. e * MetadataJson \in Nat /\ c * MetadataJson \in Nat /\ e * MetadataJson <= c * MetadataJson
    BY <1>1, <1>2, <2>2, LessIsLess
  <2> QED BY <2>1, <2>3 DEF c
<1>4. b * Escaped = Escaped * b /\ BodyCap * Escaped = Escaped * BodyCap /\ e * MetadataJson = MetadataJson * e
  BY <1>1, <1>2
<1> DEFINE text == Escaped * b
           most == Escaped * BodyCap
           list == MetadataJson * e
           longest == 2 * MetadataCap * MetadataJson
<1>5. /\ text \in Nat /\ most \in Nat /\ list \in Nat /\ longest \in Nat
      /\ text <= most /\ list <= longest
  BY <1>3, <1>4
<1>6. EnvelopeJson + most + longest < OutputMax
  BY OneMessageFits
<1> HIDE DEF text, most, list, longest
<1>7. EnvelopeJson + text + list \in Nat /\ EnvelopeJson + text + list < OutputMax
  BY <1>2, <1>5, <1>6
<1> QED BY <1>7 DEF text, list, b, e

LEMMA OneIsLeft ==
  ASSUME NEW a, NEW d, IsDetail(d)
  PROVE  Kept(a, d, 3 * Cardinality(Others(d))) = {d.selected}
<1> DEFINE N == Cardinality(Others(d))
<1>1. Others(d) \in SUBSET Messages
  BY DEF Others, IsDetail
<1>2. IsFiniteSet(Others(d)) /\ N \in Nat
  BY <1>1, MailIsFinite
<1>3. ASSUME NEW m \in Others(d) PROVE Reached(a, d, 3 * N, 2, m)
  <2> DEFINE P == {x \in Others(d) : ~ShownBefore(a, m, x)}
  <2>1. P \in SUBSET Others(d)
    OBVIOUS
  <2> HIDE DEF P
  <2>2. Cardinality(P) <= N /\ IsFiniteSet(P)
    BY <1>2, <2>1, FS_Subset
  <2>3. Cardinality(P) \in Nat
    BY <2>2, FS_CardinalityType
  <2> HIDE DEF N
  <2>4. 2 * N + Cardinality(P) <= 3 * N
    BY <1>2, <2>2, <2>3
  <2> QED BY <1>3, <2>4 DEF Reached, N, P
<1>4. \A m : Reached(a, d, 3 * N, 2, m) => m \in Others(d)
  BY DEF Reached
<1>5. d.selected \in DOMAIN d.messages
  BY DEF IsDetail
<1>6. \A m : m \in Others(d) <=> m \in DOMAIN d.messages /\ m # d.selected
  BY DEF Others
<1>7. \A m : m \in Kept(a, d, 3 * N) <=> m \in DOMAIN d.messages /\ ~Reached(a, d, 3 * N, 2, m)
  BY DEF Kept
<1> HIDE DEF N
<1>8. \A m : m \in Kept(a, d, 3 * N) <=> m = d.selected
  BY <1>3, <1>4, <1>5, <1>6, <1>7
<1> QED BY <1>8 DEF N

LEMMA FullyTrimmedFits ==
  ASSUME NEW a, NEW d, IsDetail(d)
  PROVE  Json(TrimmedBy(a, d, 3 * Cardinality(Others(d)))) < OutputMax
<1> DEFINE k == 3 * Cardinality(Others(d))
           t == TrimmedBy(a, d, k)
           sel == d.selected
           size(x) == EnvelopeJson + Escaped * Bytes(x.body) + MetadataJson * (x.recipients + x.attachments)
           f == [m \in {sel} |-> size(t.messages[m])]
<1>1. DOMAIN t.messages = {sel} /\ t.messages[sel] = Trim(a, d, k, sel)
  BY OneIsLeft, TrimmedByIs
<1>2. sel \in DOMAIN d.messages
  BY DEF IsDetail
<1>3. KeepsCaps(t.messages[sel])
  <2> HIDE DEF k, t, sel
  <2>1. KeepsCaps(Trim(a, d, k, sel))
    BY <1>2, TrimTakes
  <2> QED BY <1>1, <2>1
<1>4. size(t.messages[sel]) \in Nat /\ size(t.messages[sel]) < OutputMax
  <2> DEFINE x == t.messages[sel]
  <2> HIDE DEF x
  <2>1. KeepsCaps(x)
    BY <1>3 DEF x
  <2>2. size(x) \in Nat /\ size(x) < OutputMax
    BY <2>1, OneEntryFits
  <2> QED BY <2>2 DEF x
<1>5. Json(t) = SumFunction(f)
  <2> HIDE DEF t, sel
  <2> QED BY <1>1 DEF Json
<1> HIDE DEF t, sel, size
<1>6. f \in [{sel} -> Nat] /\ f[sel] = size(t.messages[sel])
  BY <1>4
<1> HIDE DEF f
<1>7. SumFunction(f) = f[sel]
  BY <1>6, SumOfOne
<1>8. Json(t) < OutputMax
  BY <1>4, <1>5, <1>6, <1>7
<1> QED BY <1>8 DEF t, k

LEMMA TrimmedIs ==
  ASSUME NEW a, NEW d, IsDetail(d)
  PROVE  \E k \in Nat : Trimmed(a, d) = TrimmedBy(a, d, k) /\ Json(TrimmedBy(a, d, k)) < OutputMax
<1> DEFINE steps == 3 * Cardinality(Others(d))
           fits == {k \in 0 .. steps : Json(TrimmedBy(a, d, k)) < OutputMax}
           k == CHOOSE k \in fits : \A j \in fits : k <= j
<1>1. steps \in Nat
  <2>1. Others(d) \in SUBSET Messages
    BY DEF Others, IsDetail
  <2>2. Cardinality(Others(d)) \in Nat
    BY <2>1, MailIsFinite
  <2> QED BY <2>2
<1>2. Json(TrimmedBy(a, d, steps)) < OutputMax
  BY FullyTrimmedFits
<1>3. Trimmed(a, d) = TrimmedBy(a, d, IF fits = {} THEN steps ELSE k)
  BY DEF Trimmed
<1> HIDE DEF steps
<1>4. steps \in fits /\ fits \in SUBSET Nat /\ fits # {}
  BY <1>1, <1>2
<1>5. \E l \in fits : \A j \in fits : l <= j
  <2> HIDE DEF fits
  <2> QED BY <1>4, Least
<1>6. k \in fits
  <2> HIDE DEF fits
  <2> QED BY <1>5
<1>7. Trimmed(a, d) = TrimmedBy(a, d, k)
  <2> HIDE DEF fits, k
  <2> QED BY <1>3, <1>4
<1>8. k \in Nat /\ Json(TrimmedBy(a, d, k)) < OutputMax
  <2> HIDE DEF k
  <2> QED BY <1>1, <1>6
<1> HIDE DEF k, fits
<1> QED BY <1>7, <1>8

-----------------------------------------------------------------------------
(* What the browser gets.                                                  *)

LEMMA DetailsAre ==
  ASSUME NEW a \in Archive, NEW sel \in Messages
  PROVE  /\ IsDetail(Detail(a, sel)) /\ Detail(a, sel).selected = sel
         /\ DOMAIN Detail(a, sel).messages = Retained(a, sel)
<1>1. /\ {"selected", "messages", "historyCut"} \subseteq DOMAIN Detail(a, sel)
      /\ Detail(a, sel).selected = sel
  <2>1. DOMAIN Detail(a, sel) = {"selected", "messages", "historyCut", "outside"}
    BY DetailIs
  <2>2. Detail(a, sel).selected = sel
    BY DetailIs
  <2> QED BY <2>1, <2>2
<1>2. /\ DOMAIN Detail(a, sel).messages = Retained(a, sel)
      /\ \A m \in Retained(a, sel) : KeepsCaps(Detail(a, sel).messages[m])
  BY DetailShows
<1>3. Retained(a, sel) \in SUBSET Messages /\ sel \in Retained(a, sel)
  BY RetainedIs
<1> QED BY <1>1, <1>2, <1>3 DEF IsDetail

(* mapUnifiedThreadToBrowserThread refuses no thread for its size: what    *)
(* may be selected and decoded keeps the budgets, and trimToJsonBudget     *)
(* stops below the JSON bound.                                             *)
THEOREM ThreadsOpen ==
  ASSUME NEW a \in Archive, NEW sel \in Messages, NEW E
  PROVE  LET told == ThreadAnswer(a, E, sel) IN
         /\ told.status # "over_budget"
         /\ Selectable(a, E, sel) => told.status # "not_found"
         /\ told.status = "ok" => told.thread = Trimmed(a, Detail(a, sel))
<1> DEFINE d == Detail(a, sel)
           t == Trimmed(a, d)
           told == ThreadAnswer(a, E, sel)
<1>1. IsDetail(d) /\ WithinBudgets(d)
  BY DetailsAre, DetailsKeepBudgets
<1> HIDE DEF d
<1>2. PICK k \in Nat : t = TrimmedBy(a, d, k) /\ Json(TrimmedBy(a, d, k)) < OutputMax
  BY <1>1, TrimmedIs
<1>3. WithinBudgets(t) /\ Json(t) < OutputMax
  BY <1>1, <1>2, TrimmedKeepBudgets
<1> HIDE DEF t
<1>4. told = IF ~Selectable(a, E, sel) THEN [status |-> "not_found"]
             ELSE IF ~Decodable(a, sel) THEN [status |-> "corrupt_data"]
             ELSE [status |-> "ok", thread |-> t]
  BY <1>1, <1>3 DEF ThreadAnswer, d, t
<1> HIDE DEF told
<1>5. CASE ~Selectable(a, E, sel)
  <2>1. told.status = "not_found"
    BY <1>4, <1>5
  <2> QED BY <1>5, <2>1 DEF told
<1>6. CASE Selectable(a, E, sel) /\ ~Decodable(a, sel)
  <2>1. told.status = "corrupt_data"
    BY <1>4, <1>6
  <2> QED BY <2>1 DEF told
<1>7. CASE Selectable(a, E, sel) /\ Decodable(a, sel)
  <2>1. told.status = "ok" /\ told.thread = t
    BY <1>4, <1>7
  <2> QED BY <2>1 DEF told, t, d
<1> QED BY <1>5, <1>6, <1>7

(* The mail of the conversation that a thread could show.                  *)
Visible(a, sel) ==
  {m \in Candidates(a, sel) : m \in a.live /\ a.mail[m].email /\ a.mail[m].source = a.mail[sel].source}

LEMMA WindowsMissNothing ==
  ASSUME NEW a \in Archive, NEW sel \in Messages, ~Detail(a, sel).historyCut
  PROVE  Retained(a, sel) = Visible(a, sel)
<1> DEFINE C == Candidates(a, sel)
           I == Inspected(a, sel)
           R == Retained(a, sel)
<1>1. ~(Cardinality(C) >= CandidateLimit) /\ ~(Cardinality(I) > Cardinality(R)) /\ sel \in Recent(a, sel)
  BY DetailIs
<1>2. /\ C \in SUBSET Messages /\ I \in SUBSET Messages /\ R \in SUBSET Messages
      /\ Cardinality(C) \in Nat /\ Cardinality(I) \in Nat /\ Cardinality(R) \in Nat
  BY InspectedIsMail, RetainedIs, MailIsFinite
<1>3. /\ CandidateLimit \in Nat /\ CandidateLimit - 1 \in Nat /\ MaxMessages \in Nat
      /\ Cardinality(C) <= CandidateLimit - 1
  <2> HIDE DEF C
  <2>1. CandidateLimit \in Nat /\ CandidateLimit - 1 \in Nat /\ MaxMessages \in Nat
    BY BudgetsAreSound
  <2> QED BY <1>1, <1>2, <2>1
<1>4. Newest(a, C, CandidateLimit - 1) = C
  <2> HIDE DEF C
  <2> QED BY <1>2, <1>3, NewestAreFew
<1>5. I = Visible(a, sel)
  BY <1>4 DEF Inspected, Visible
<1>6. R = Newest(a, I, MaxMessages)
  BY <1>1 DEF Retained, Recent
<1> HIDE DEF C, I, R
<1>7. R \in SUBSET I /\ IsFiniteSet(I)
  BY <1>2, <1>3, <1>6, NewestAreFew, MailIsFinite
<1>8. Cardinality(R) <= Cardinality(I)
  BY <1>7, FS_Subset
<1>9. Cardinality(I) = Cardinality(R)
  BY <1>1, <1>2, <1>8
<1>10. I = R
  BY <1>7, <1>9, FS_Subset
<1> QED BY <1>5, <1>10 DEF R

(* What it shows, and what it says of the rest.                            *)
LEMMA ThreadsTell ==
  ASSUME NEW a \in Archive, NEW sel \in Messages
  PROVE  LET t == Trimmed(a, Detail(a, sel)) IN
         /\ t.selected = sel /\ sel \in DOMAIN t.messages /\ DOMAIN t.messages \subseteq Retained(a, sel)
         /\ \A m \in DOMAIN t.messages : Tells(a, sel, m, t.messages[m])
         /\ DOMAIN t.messages # Visible(a, sel) => t.historyCut
<1> DEFINE d == Detail(a, sel)
           t == Trimmed(a, d)
<1>1. IsDetail(d) /\ d.selected = sel /\ DOMAIN d.messages = Retained(a, sel)
  BY DetailsAre
<1>2. \A m \in Retained(a, sel) : Tells(a, sel, m, d.messages[m])
  BY DetailShows
<1>3. ~d.historyCut => Retained(a, sel) = Visible(a, sel)
  BY WindowsMissNothing
<1> HIDE DEF d
<1>4. PICK k \in Nat : t = TrimmedBy(a, d, k)
  BY <1>1, TrimmedIs
<1> HIDE DEF t
<1> DEFINE kept == Kept(a, d, k)
<1>5. /\ t.selected = d.selected /\ DOMAIN t.messages = kept /\ d.selected \in kept
      /\ t.historyCut = (d.historyCut \/ kept # DOMAIN d.messages)
      /\ \A m \in kept : t.messages[m] = Trim(a, d, k, m)
  BY <1>1, <1>4, TrimmedByIs
<1>6. kept \subseteq Retained(a, sel)
  BY <1>1 DEF Kept
<1> HIDE DEF kept
<1>7. \A m \in kept : Tells(a, sel, m, t.messages[m])
  <2> SUFFICES ASSUME NEW m \in kept PROVE Tells(a, sel, m, Trim(a, d, k, m))
    BY <1>5
  <2>1. m \in DOMAIN d.messages /\ Tells(a, sel, m, d.messages[m])
    BY <1>1, <1>2, <1>6
  <2> QED BY <1>1, <2>1, TrimTakes
<1>8. kept # Visible(a, sel) => t.historyCut
  BY <1>1, <1>3, <1>5
<1> QED BY <1>1, <1>5, <1>6, <1>7, <1>8 DEF t, d
=============================================================================
