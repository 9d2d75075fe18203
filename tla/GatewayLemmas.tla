------------------------------- MODULE GatewayLemmas -------------------------------
(***************************************************************************)
(* What the proofs about the gateway share: sums over finite sets, and one *)
(* provider's circuit breaker.                                             *)
(***************************************************************************)
EXTENDS Breaker, Integers, Functions, FiniteSets, FiniteSetTheorems, SequenceTheorems,
        WellFoundedInduction, TLAPS

-----------------------------------------------------------------------------
(***************************************************************************)
(* Sums over finite sets of indices, SumFunctionOnSet of the community     *)
(* modules, for the proofs about counters that several clients add to.     *)
(* The library states no theorem about its folds that the provers can      *)
(* use: those that induction over data would need take an operator as a    *)
(* parameter.  Every induction is therefore by a smallest counterexample:  *)
(* strict inclusion is well founded on finite sets, so a non-empty set of  *)
(* counterexamples has one with none inside it.                            *)
(***************************************************************************)
OneOf(s) == CHOOSE x \in s : TRUE

\* g is the table of partial sums over the subsets of T.
IsTable(f, T, g) ==
  g = [s \in SUBSET T |-> IF s = {} THEN 0 ELSE f[OneOf(s)] + g[s \ {OneOf(s)}]]

(* A non-empty set of finite sets has a member with no other inside it.        *)
LEMMA Smallest ==
  ASSUME NEW S, IsFiniteSet(S), NEW Bad \in SUBSET SUBSET S, Bad # {}
  PROVE  \E T \in Bad : /\ T \subseteq S /\ IsFiniteSet(T)
                        /\ \A U \in Bad : U \subseteq T => U = T
<1>1. FiniteSubsetsOf(S) = SUBSET S
  BY FS_FiniteSubsetsOfFinite
<1>2. PICK T \in Bad : \A U \in Bad : <<U, T>> \notin StrictSubsetOrdering(S)
  BY <1>1, FS_StrictSubsetOrderingWellFounded, WFMin
<1>3. IsFiniteSet(T)
  BY FS_Subset
<1>4. \A U \in Bad : U \subseteq T => U = T
  BY <1>2 DEF StrictSubsetOrdering
<1>. QED BY <1>3, <1>4

LEMMA SumIsTable ==
  ASSUME NEW f, NEW S
  PROVE  SumFunctionOnSet(f, S) = (CHOOSE g : IsTable(f, S, g))[S]
BY DEF SumFunctionOnSet, FoldFunctionOnSet, MapThenFoldSet, IsTable, OneOf

-----------------------------------------------------------------------------
(* The recursion behind a sum has one solution.                                *)

LEMMA TableEntry ==
  ASSUME NEW f, NEW T, NEW g, IsTable(f, T, g), NEW s \in SUBSET T
  PROVE  /\ s \ {OneOf(s)} \in SUBSET T
         /\ g[s] = IF s = {} THEN 0 ELSE f[OneOf(s)] + g[s \ {OneOf(s)}]
BY Zenon DEF IsTable

LEMMA OneOfIsMember ==
  ASSUME NEW s, s # {}
  PROVE  OneOf(s) \in s
BY DEF OneOf

(* Tables agree wherever both are defined.                                     *)
LEMMA TablesAgree ==
  ASSUME NEW f, NEW T, NEW U, IsFiniteSet(T), NEW g, NEW h,
         IsTable(f, T, g), IsTable(f, U, h), NEW s \in SUBSET (T \cap U)
  PROVE  g[s] = h[s]
<1>. DEFINE Bad == {t \in SUBSET (T \cap U) : g[t] # h[t]}
<1>1. SUFFICES ASSUME Bad # {} PROVE FALSE
  OBVIOUS
<1>2. Bad \in SUBSET SUBSET T
  OBVIOUS
<1>3. PICK t \in Bad : \A u \in Bad : u \subseteq t => u = t
  <2>. HIDE DEF Bad
  <2>. QED BY <1>1, <1>2, Smallest
<1>4. CASE t = {}
  <2>1. g[t] = 0 /\ h[t] = 0
    BY <1>4, TableEntry
  <2>. QED BY <2>1
<1>5. CASE t # {}
  <2>. DEFINE u == t \ {OneOf(t)}
  <2>1. OneOf(t) \in t
    BY <1>5, OneOfIsMember
  <2>2. u \notin Bad /\ u \in SUBSET (T \cap U)
    BY <1>3, <2>1
  <2>3. g[u] = h[u]
    BY <2>2
  <2>4. g[t] = f[OneOf(t)] + g[u] /\ h[t] = f[OneOf(t)] + h[u]
    BY <1>5, TableEntry
  <2>. QED BY <2>3, <2>4
<1>. QED BY <1>4, <1>5

(* Every finite set has a table: a smallest set without one would get it from  *)
(* the tables of its subsets.                                                  *)
LEMMA TableExists ==
  ASSUME NEW f, NEW S, IsFiniteSet(S)
  PROVE  \E g : IsTable(f, S, g)
<1>. DEFINE Bad == {T \in SUBSET S : ~ \E g : IsTable(f, T, g)}
<1>1. SUFFICES ASSUME Bad # {} PROVE FALSE
  OBVIOUS
<1>2. PICK T \in Bad : IsFiniteSet(T) /\ \A U \in Bad : U \subseteq T => U = T
  <2>1. Bad \in SUBSET SUBSET S
    OBVIOUS
  <2>. HIDE DEF Bad
  <2>. QED BY <1>1, <2>1, Smallest
<1>3. CASE T = {}
  <2>. DEFINE g == [s \in SUBSET {} |-> 0]
  <2>1. \A s \in SUBSET {} : s = {}
    OBVIOUS
  <2>2. g = [s \in SUBSET {} |-> IF s = {} THEN 0 ELSE f[OneOf(s)] + g[s \ {OneOf(s)}]]
    BY <2>1
  <2>3. IsTable(f, T, g)
    BY <1>3, <2>2 DEF IsTable
  <2>. QED BY <2>3
<1>4. CASE T # {}
  <2>. DEFINE U == T \ {OneOf(T)}
  <2>1. OneOf(T) \in T
    BY <1>4, OneOfIsMember
  <2>2. ASSUME NEW V \in SUBSET T, V # T PROVE \E g : IsTable(f, V, g)
    BY <1>2, <2>2
  <2>. DEFINE G(V) == CHOOSE g : IsTable(f, V, g)
              H == [s \in SUBSET T |-> IF s = T THEN f[OneOf(T)] + G(U)[U] ELSE G(s)[s]]
  <2>3. ASSUME NEW V \in SUBSET T, V # T PROVE IsTable(f, V, G(V))
    BY <2>2, <2>3
  <2>4. ASSUME NEW s \in SUBSET T
        PROVE  H[s] = IF s = {} THEN 0 ELSE f[OneOf(s)] + H[s \ {OneOf(s)}]
    <3>1. CASE s = T
      <4>1. U \in SUBSET T /\ U # T
        BY <2>1
      <4>2. H[U] = G(U)[U]
        BY <4>1
      <4>. QED BY <1>4, <3>1, <4>2
    <3>2. CASE s # T /\ s = {}
      <4>1. IsTable(f, s, G(s))
        BY <2>3, <3>2
      <4>2. G(s)[s] = 0
        BY <3>2, <4>1, TableEntry
      <4>. QED BY <3>2, <4>2
    <3>3. CASE s # T /\ s # {}
      <4>. DEFINE r == s \ {OneOf(s)}
      <4>1. OneOf(s) \in s
        BY <3>3, OneOfIsMember
      <4>2. r \in SUBSET s /\ r \in SUBSET T /\ r # T
        BY <4>1
      <4>3. IsTable(f, s, G(s)) /\ IsTable(f, r, G(r))
        BY <2>3, <3>3, <4>2
      <4>4. G(s)[s] = f[OneOf(s)] + G(s)[r]
        BY <3>3, <4>3, TableEntry
      <4>5. G(s)[r] = G(r)[r]
        <5>1. IsFiniteSet(s)
          BY <1>2, FS_Subset
        <5>2. r \in SUBSET (s \cap r)
          OBVIOUS
        <5>. HIDE DEF G, r
        <5>. QED BY <4>3, <5>1, <5>2, TablesAgree
      <4>6. H[r] = G(r)[r] /\ H[s] = G(s)[s]
        BY <3>3, <4>2
      <4>. QED BY <3>3, <4>4, <4>5, <4>6
    <3>. QED BY <3>1, <3>2, <3>3
  <2>5. H = [s \in SUBSET T |-> IF s = {} THEN 0 ELSE f[OneOf(s)] + H[s \ {OneOf(s)}]]
    <3>1. H = [s \in SUBSET T |-> H[s]]
      OBVIOUS
    <3>. HIDE DEF H
    <3>. QED BY <2>4, <3>1, Zenon
  <2>6. IsTable(f, T, H)
    BY <2>5 DEF IsTable
  <2>. QED BY <2>6
<1>. QED BY <1>3, <1>4

-----------------------------------------------------------------------------
(* What a sum is.                                                              *)

LEMMA SumEmpty ==
  ASSUME NEW f
  PROVE  SumFunctionOnSet(f, {}) = 0
<1>. DEFINE g == CHOOSE h : IsTable(f, {}, h)
<1>1. IsTable(f, {}, g)
  BY TableExists, FS_EmptySet
<1>2. g[{}] = 0
  <2>. HIDE DEF g
  <2>. QED BY <1>1, TableEntry
<1>. QED BY <1>2, SumIsTable

(* A sum is one of its terms and the sum of the others: of the term that the   *)
(* library's definition happens to choose.                                     *)
LEMMA SumUnfold ==
  ASSUME NEW f, NEW S, IsFiniteSet(S), S # {}
  PROVE  SumFunctionOnSet(f, S) = f[OneOf(S)] + SumFunctionOnSet(f, S \ {OneOf(S)})
<1>. DEFINE U == S \ {OneOf(S)}
            g == CHOOSE h : IsTable(f, S, h)
            k == CHOOSE h : IsTable(f, U, h)
<1>1. IsFiniteSet(U)
  BY FS_Subset
<1>2. IsTable(f, S, g) /\ IsTable(f, U, k)
  BY <1>1, TableExists
<1>3. SumFunctionOnSet(f, S) = g[S] /\ SumFunctionOnSet(f, U) = k[U]
  BY SumIsTable
<1>4. U \in SUBSET (S \cap U) /\ S \in SUBSET S
  OBVIOUS
<1>. HIDE DEF g, k
<1>5. g[S] = f[OneOf(S)] + g[U]
  BY <1>2, <1>4, TableEntry
<1>6. g[U] = k[U]
  <2>. HIDE DEF U
  <2>. QED BY <1>2, <1>4, TablesAgree
<1>. QED BY <1>3, <1>5, <1>6

LEMMA SumInt ==
  ASSUME NEW f, NEW S, IsFiniteSet(S), \A i \in S : f[i] \in Int
  PROVE  SumFunctionOnSet(f, S) \in Int
<1>. DEFINE Bad == {T \in SUBSET S : SumFunctionOnSet(f, T) \notin Int}
<1>1. SUFFICES ASSUME Bad # {} PROVE FALSE
  OBVIOUS
<1>2. PICK T \in Bad : IsFiniteSet(T) /\ \A U \in Bad : U \subseteq T => U = T
  <2>1. Bad \in SUBSET SUBSET S
    OBVIOUS
  <2>. HIDE DEF Bad
  <2>. QED BY <1>1, <2>1, Smallest
<1>3. T # {}
  BY SumEmpty
<1>4. OneOf(T) \in T
  BY <1>3, OneOfIsMember
<1>5. T \ {OneOf(T)} \notin Bad /\ T \ {OneOf(T)} \in SUBSET S
  BY <1>2, <1>4
<1>6. SumFunctionOnSet(f, T \ {OneOf(T)}) \in Int /\ f[OneOf(T)] \in Int
  BY <1>4, <1>5
<1>. QED BY <1>2, <1>3, <1>6, SumUnfold

(* Of any of its terms: a smallest set S with a term x for which it fails      *)
(* unfolds to another one, a, and then S \ {x} and S \ {a} are smaller.        *)
LEMMA SumRemove ==
  ASSUME NEW f, NEW S, IsFiniteSet(S), \A i \in S : f[i] \in Int, NEW x \in S
  PROVE  SumFunctionOnSet(f, S) = f[x] + SumFunctionOnSet(f, S \ {x})
<1>. DEFINE Sum(T) == SumFunctionOnSet(f, T)
            Bad == {T \in SUBSET S : \E i \in T : Sum(T) # f[i] + Sum(T \ {i})}
<1>1. SUFFICES ASSUME Bad # {} PROVE FALSE
  OBVIOUS
<1>2. PICK T \in Bad : IsFiniteSet(T) /\ \A U \in Bad : U \subseteq T => U = T
  <2>1. Bad \in SUBSET SUBSET S
    OBVIOUS
  <2>. HIDE DEF Bad
  <2>. QED BY <1>1, <2>1, Smallest
<1>3. PICK i \in T : Sum(T) # f[i] + Sum(T \ {i})
  BY <1>2
<1>. DEFINE a == OneOf(T)
            W == T \ {a, i}
<1>4. a \in T /\ Sum(T) = f[a] + Sum(T \ {a})
  BY <1>2, <1>3, OneOfIsMember, SumUnfold
<1>5. a # i
  BY <1>3, <1>4
<1>6. IsFiniteSet(W) /\ \A U \in SUBSET T : IsFiniteSet(U)
  BY <1>2, FS_Subset
<1>7. T \ {a} \notin Bad /\ T \ {i} \notin Bad
  BY <1>2, <1>3, <1>4
<1>8. Sum(T \ {a}) = f[i] + Sum((T \ {a}) \ {i})
  <2>1. i \in T \ {a} /\ T \ {a} \in SUBSET S
    BY <1>3, <1>5
  <2>. HIDE DEF Sum, a
  <2>. QED BY <1>7, <2>1
<1>9. Sum(T \ {i}) = f[a] + Sum((T \ {i}) \ {a})
  <2>1. a \in T \ {i} /\ T \ {i} \in SUBSET S
    BY <1>4, <1>5
  <2>. HIDE DEF Sum, a
  <2>. QED BY <1>7, <2>1
<1>10. (T \ {a}) \ {i} = W /\ (T \ {i}) \ {a} = W
  OBVIOUS
<1>11. Sum(W) \in Int /\ f[a] \in Int /\ f[i] \in Int
  BY <1>3, <1>4, <1>6, SumInt
<1>. HIDE DEF Sum, a, W
<1>12. Sum(T \ {a}) = f[i] + Sum(W) /\ Sum(T \ {i}) = f[a] + Sum(W)
  BY <1>8, <1>9, <1>10, Zenon
<1>13. f[a] + (f[i] + Sum(W)) = f[i] + (f[a] + Sum(W))
  BY <1>11
<1>. QED BY <1>3, <1>4, <1>12, <1>13, Zenon

(* So an element is added to a sum, and only its own terms change it.          *)
LEMMA SumAdd ==
  ASSUME NEW f, NEW S, IsFiniteSet(S), NEW x, x \notin S, \A i \in S \cup {x} : f[i] \in Int
  PROVE  SumFunctionOnSet(f, S \cup {x}) = f[x] + SumFunctionOnSet(f, S)
<1>1. IsFiniteSet(S \cup {x}) /\ x \in S \cup {x}
  BY FS_AddElement
<1>2. SumFunctionOnSet(f, S \cup {x}) = f[x] + SumFunctionOnSet(f, (S \cup {x}) \ {x})
  BY <1>1, SumRemove
<1>3. (S \cup {x}) \ {x} = S
  OBVIOUS
<1>. QED BY <1>2, <1>3, Zenon

LEMMA SumOfEquals ==
  ASSUME NEW f, NEW g, NEW S, IsFiniteSet(S), \A i \in S : f[i] \in Int /\ g[i] = f[i]
  PROVE  SumFunctionOnSet(g, S) = SumFunctionOnSet(f, S)
<1>. DEFINE Bad == {T \in SUBSET S : SumFunctionOnSet(g, T) # SumFunctionOnSet(f, T)}
<1>1. SUFFICES ASSUME Bad # {} PROVE FALSE
  OBVIOUS
<1>2. PICK T \in Bad : IsFiniteSet(T) /\ \A U \in Bad : U \subseteq T => U = T
  <2>1. Bad \in SUBSET SUBSET S
    OBVIOUS
  <2>. HIDE DEF Bad
  <2>. QED BY <1>1, <2>1, Smallest
<1>3. T # {}
  BY SumEmpty
<1>4. PICK x \in T : TRUE
  BY <1>3
<1>5. T \ {x} \notin Bad /\ T \ {x} \in SUBSET S
  BY <1>2
<1>6. SumFunctionOnSet(g, T \ {x}) = SumFunctionOnSet(f, T \ {x})
  BY <1>5
<1>7. f[x] = g[x]
  OBVIOUS
<1>8. SumFunctionOnSet(f, T) = f[x] + SumFunctionOnSet(f, T \ {x})
  BY <1>2, SumRemove
<1>9. SumFunctionOnSet(g, T) = g[x] + SumFunctionOnSet(g, T \ {x})
  BY <1>2, SumRemove
<1>. QED BY <1>2, <1>6, <1>7, <1>8, <1>9

LEMMA SumChange ==
  ASSUME NEW f, NEW g, NEW S, IsFiniteSet(S), NEW x \in S,
         \A i \in S : f[i] \in Int /\ g[i] \in Int, \A i \in S \ {x} : g[i] = f[i]
  PROVE  SumFunctionOnSet(g, S) = SumFunctionOnSet(f, S) - f[x] + g[x]
<1>1. IsFiniteSet(S \ {x})
  BY FS_Subset
<1>2. SumFunctionOnSet(f, S) = f[x] + SumFunctionOnSet(f, S \ {x})
  BY SumRemove
<1>3. SumFunctionOnSet(g, S) = g[x] + SumFunctionOnSet(g, S \ {x})
  BY SumRemove
<1>4. SumFunctionOnSet(g, S \ {x}) = SumFunctionOnSet(f, S \ {x})
  <2>1. \A i \in S \ {x} : f[i] \in Int /\ g[i] = f[i]
    OBVIOUS
  <2>. QED BY <1>1, <2>1, SumOfEquals
<1>5. SumFunctionOnSet(f, S \ {x}) \in Int
  BY <1>1, SumInt
<1>. QED BY <1>2, <1>3, <1>4, <1>5

(* Larger terms make a larger sum; so a sum of natural numbers is one.         *)
LEMMA SumMonotone ==
  ASSUME NEW f, NEW g, NEW S, IsFiniteSet(S),
         \A i \in S : f[i] \in Int /\ g[i] \in Int /\ f[i] <= g[i]
  PROVE  SumFunctionOnSet(f, S) <= SumFunctionOnSet(g, S)
<1>. DEFINE Bad == {T \in SUBSET S : ~ SumFunctionOnSet(f, T) <= SumFunctionOnSet(g, T)}
<1>1. SUFFICES ASSUME Bad # {} PROVE FALSE
  OBVIOUS
<1>2. PICK T \in Bad : IsFiniteSet(T) /\ \A U \in Bad : U \subseteq T => U = T
  <2>1. Bad \in SUBSET SUBSET S
    OBVIOUS
  <2>. HIDE DEF Bad
  <2>. QED BY <1>1, <2>1, Smallest
<1>3. T # {}
  BY SumEmpty
<1>4. PICK x \in T : TRUE
  BY <1>3
<1>5. T \ {x} \notin Bad /\ T \ {x} \in SUBSET S /\ IsFiniteSet(T \ {x})
  BY <1>2, FS_Subset
<1>6. SumFunctionOnSet(f, T \ {x}) <= SumFunctionOnSet(g, T \ {x})
  BY <1>5
<1>7. SumFunctionOnSet(f, T \ {x}) \in Int /\ SumFunctionOnSet(g, T \ {x}) \in Int
  <2>1. \A i \in T \ {x} : f[i] \in Int /\ g[i] \in Int
    OBVIOUS
  <2>. QED BY <1>5, <2>1, SumInt
<1>8. SumFunctionOnSet(f, T) = f[x] + SumFunctionOnSet(f, T \ {x})
  BY <1>2, SumRemove
<1>9. SumFunctionOnSet(g, T) = g[x] + SumFunctionOnSet(g, T \ {x})
  BY <1>2, SumRemove
<1>. QED BY <1>2, <1>6, <1>7, <1>8, <1>9

LEMMA SumOfZeros ==
  ASSUME NEW f, NEW S, IsFiniteSet(S), \A i \in S : f[i] = 0
  PROVE  SumFunctionOnSet(f, S) = 0
<1>. DEFINE Bad == {T \in SUBSET S : SumFunctionOnSet(f, T) # 0}
<1>1. SUFFICES ASSUME Bad # {} PROVE FALSE
  OBVIOUS
<1>2. PICK T \in Bad : IsFiniteSet(T) /\ \A U \in Bad : U \subseteq T => U = T
  <2>1. Bad \in SUBSET SUBSET S
    OBVIOUS
  <2>. HIDE DEF Bad
  <2>. QED BY <1>1, <2>1, Smallest
<1>3. T # {}
  BY SumEmpty
<1>4. PICK x \in T : TRUE
  BY <1>3
<1>5. T \ {x} \notin Bad /\ T \ {x} \in SUBSET S
  BY <1>2
<1>6. SumFunctionOnSet(f, T) = f[x] + SumFunctionOnSet(f, T \ {x})
  BY <1>2, SumRemove
<1>. QED BY <1>2, <1>5, <1>6

LEMMA SumNat ==
  ASSUME NEW f, NEW S, IsFiniteSet(S), \A i \in S : f[i] \in Nat
  PROVE  SumFunctionOnSet(f, S) \in Nat
<1>. DEFINE zero == [i \in S |-> 0]
<1>1. SumFunctionOnSet(zero, S) = 0
  BY SumOfZeros
<1>2. \A i \in S : zero[i] \in Int /\ f[i] \in Int /\ zero[i] <= f[i]
  OBVIOUS
<1>. HIDE DEF zero
<1>3. SumFunctionOnSet(zero, S) <= SumFunctionOnSet(f, S)
  BY <1>2, SumMonotone
<1>4. SumFunctionOnSet(f, S) \in Int
  BY SumInt
<1>. QED BY <1>1, <1>3, <1>4

(* The sum over two disjoint sets: a smallest part of the second one for which *)
(* it fails has an element, and without it the law holds.                      *)
LEMMA SumUnion ==
  ASSUME NEW f, NEW S, NEW R, IsFiniteSet(S), IsFiniteSet(R), S \cap R = {},
         \A i \in S \cup R : f[i] \in Int
  PROVE  SumFunctionOnSet(f, S \cup R) = SumFunctionOnSet(f, S) + SumFunctionOnSet(f, R)
<1>. DEFINE Sum(T) == SumFunctionOnSet(f, T)
            Bad == {T \in SUBSET R : Sum(S \cup T) # Sum(S) + Sum(T)}
<1>1. SUFFICES ASSUME Bad # {} PROVE FALSE
  OBVIOUS
<1>2. PICK T \in Bad : IsFiniteSet(T) /\ \A U \in Bad : U \subseteq T => U = T
  <2>1. Bad \in SUBSET SUBSET R
    OBVIOUS
  <2>. HIDE DEF Bad
  <2>. QED BY <1>1, <2>1, Smallest
<1>3. Sum(S) \in Int
  BY SumInt
<1>4. T # {}
  <2>1. S \cup {} = S
    OBVIOUS
  <2>2. Sum(S \cup {}) = Sum(S) + Sum({})
    BY <1>3, <2>1, SumEmpty
  <2>. QED BY <1>2, <2>2
<1>5. PICK x \in T : TRUE
  BY <1>4
<1>. DEFINE U == T \ {x}
            V == S \cup U
<1>6. IsFiniteSet(U) /\ U \in SUBSET R
  BY <1>2, FS_Subset
<1>7. Sum(V) = Sum(S) + Sum(U)
  BY <1>2, <1>6
<1>8. IsFiniteSet(V) /\ V \cup {x} = S \cup T /\ x \notin V /\ \A i \in V \cup {x} : f[i] \in Int
  BY <1>6, FS_Union
<1>9. Sum(V \cup {x}) = f[x] + Sum(V)
  <2>. HIDE DEF V
  <2>. QED BY <1>8, SumAdd
<1>10. Sum(T) = f[x] + Sum(U)
  BY <1>2, SumRemove
<1>11. Sum(U) \in Int /\ f[x] \in Int
  BY <1>6, SumInt
<1>12. Sum(S \cup T) = f[x] + Sum(V)
  BY <1>8, <1>9, Zenon
<1>. HIDE DEF Sum, U, V
<1>13. Sum(S \cup T) = Sum(S) + Sum(T)
  BY <1>3, <1>7, <1>10, <1>11, <1>12
<1>. QED BY <1>2, <1>13 DEF Sum

LEMMA SumSubset ==
  ASSUME NEW f, NEW S, IsFiniteSet(S), \A i \in S : f[i] \in Nat, NEW T \in SUBSET S
  PROVE  SumFunctionOnSet(f, T) <= SumFunctionOnSet(f, S)
<1>. DEFINE R == S \ T
<1>1. IsFiniteSet(T) /\ IsFiniteSet(R)
  BY FS_Subset
<1>2. T \cup R = S /\ T \cap R = {} /\ \A i \in T \cup R : f[i] \in Int
  OBVIOUS
<1>3. SumFunctionOnSet(f, T) \in Nat /\ SumFunctionOnSet(f, R) \in Nat
  <2>1. (\A i \in T : f[i] \in Nat) /\ \A i \in R : f[i] \in Nat
    OBVIOUS
  <2>. HIDE DEF R
  <2>. QED BY <1>1, <2>1, SumNat
<1>4. SumFunctionOnSet(f, T \cup R) = SumFunctionOnSet(f, T) + SumFunctionOnSet(f, R)
  <2>. HIDE DEF R
  <2>. QED BY <1>1, <1>2, SumUnion
<1>5. SumFunctionOnSet(f, S) = SumFunctionOnSet(f, T) + SumFunctionOnSet(f, R)
  BY <1>2, <1>4, Zenon
<1>. HIDE DEF R
<1>. QED BY <1>3, <1>5

-----------------------------------------------------------------------------
(* Counting a finite set by the value of a key, and adding up.                 *)

\* The members of D whose key is x, and those whose key is in S.
KeyIs(D, key, x) == {i \in D : key[i] = x}
KeyIn(D, key, S) == {i \in D : key[i] \in S}

LEMMA SumOfCounts ==
  ASSUME NEW D, IsFiniteSet(D), NEW key, NEW S, IsFiniteSet(S), NEW count,
         \A x \in S : count[x] = Cardinality(KeyIs(D, key, x))
  PROVE  SumFunctionOnSet(count, S) = Cardinality(KeyIn(D, key, S))
<1>. DEFINE Bad == {T \in SUBSET S : SumFunctionOnSet(count, T) # Cardinality(KeyIn(D, key, T))}
<1>1. SUFFICES ASSUME Bad # {} PROVE FALSE
  OBVIOUS
<1>2. PICK T \in Bad : IsFiniteSet(T) /\ \A U \in Bad : U \subseteq T => U = T
  <2>1. Bad \in SUBSET SUBSET S
    OBVIOUS
  <2>. HIDE DEF Bad
  <2>. QED BY <1>1, <2>1, Smallest
<1>3. CASE T = {}
  <2>1. KeyIn(D, key, T) = {}
    BY <1>3 DEF KeyIn
  <2>. QED BY <1>3, <2>1, SumEmpty, FS_EmptySet
<1>4. CASE T # {}
  <2>1. PICK x \in T : TRUE
    BY <1>4
  <2>. DEFINE U == T \ {x}
              A == KeyIs(D, key, x)
              B == KeyIn(D, key, U)
  <2>2. U \in SUBSET S /\ U \notin Bad
    BY <1>2, <2>1
  <2>3. SumFunctionOnSet(count, U) = Cardinality(B)
    BY <2>2
  <2>4. KeyIn(D, key, T) = A \cup B /\ A \cap B = {} /\ A \in SUBSET D /\ B \in SUBSET D
    BY DEF KeyIs, KeyIn
  <2>5. IsFiniteSet(A) /\ IsFiniteSet(B)
    BY <2>4, FS_Subset
  <2>6. Cardinality(A \cup B) = Cardinality(A) + Cardinality(B)
    <3>1. Cardinality(A) \in Nat /\ Cardinality(B) \in Nat
      BY <2>5, FS_CardinalityType
    <3>2. Cardinality(A \cap B) = 0
      BY <2>4, FS_EmptySet
    <3>3. Cardinality(A \cup B) = Cardinality(A) + Cardinality(B) - Cardinality(A \cap B)
      BY <2>5, FS_Union
    <3>. HIDE DEF A, B
    <3>. QED BY <3>1, <3>2, <3>3
  <2>7. SumFunctionOnSet(count, T) = count[x] + SumFunctionOnSet(count, U)
    <3>1. \A i \in T : count[i] \in Int
      <4>. SUFFICES ASSUME NEW i \in T PROVE count[i] \in Int
        OBVIOUS
      <4>1. IsFiniteSet(KeyIs(D, key, i))
        BY FS_Subset DEF KeyIs
      <4>. QED BY <4>1, FS_CardinalityType
    <3>. QED BY <1>2, <2>1, <3>1, SumRemove
  <2>8. count[x] = Cardinality(A)
    OBVIOUS
  <2>. HIDE DEF A, B, U
  <2>9. SumFunctionOnSet(count, T) = Cardinality(KeyIn(D, key, T))
    BY <2>3, <2>4, <2>6, <2>7, <2>8
  <2>. QED BY <2>9
<1>. QED BY <1>3, <1>4

-----------------------------------------------------------------------------
(***************************************************************************)
(* What every method of a CircuitBreaker preserves, whatever the threshold *)
(* and the times.  These lemmas are about the operators of Breaker alone;  *)
(* the proofs about a system with breakers cite them.                      *)
(***************************************************************************)
OldestFirst(ages) == \A i, j \in DOMAIN ages : i < j => ages[i] >= ages[j]

\* A breaker the methods can produce.
Sound(b) ==
  /\ b \in BreakerRecord
  /\ Len(b.failures) < FailureThreshold
  /\ OldestFirst(b.failures)
  /\ b.trial => b.state = "half_open"

-----------------------------------------------------------------------------

(* Min is a minimum. *)
LEMMA MinOfNats ==
  ASSUME NEW S \in SUBSET Nat, S # {}
  PROVE  Min(S) \in S /\ \A n \in S : Min(S) <= n
<1>1. PICK m \in S : \A n \in S : ~ <<n, m>> \in OpToRel(<, Nat)
  BY WFMin, NatLessThanWellFounded
<1>2. ASSUME NEW n \in S PROVE m <= n
  <2>1. <<n, m>> \in Nat \X Nat /\ <<n, m>>[1] = n /\ <<n, m>>[2] = m
    OBVIOUS
  <2>2. ~ n < m
    BY <1>1, <2>1, Zenon DEF OpToRel
  <2>. QED BY <2>2
<1>. QED BY <1>2 DEF Min

(* Pruning a deque whose last entry is fresh leaves a non-empty suffix of it. *)
LEMMA PrunedIsSuffix ==
  ASSUME NEW ages \in Seq(0 .. Stale), ages # <<>>, ages[Len(ages)] = 0
  PROVE  \E k \in 1 .. Len(ages) : Pruned(ages) = SubSeq(ages, k, Len(ages))
<1>. DEFINE fresh == {i \in DOMAIN ages : ages[i] <= Window}
<1>1. /\ Len(ages) \in Nat \ {0}
      /\ DOMAIN ages = 1 .. Len(ages)
  BY EmptySeq, LenProperties
<1>2. Len(ages) \in fresh /\ fresh \in SUBSET Nat
  BY <1>1, BreakerAssumption
<1>3. Min(fresh) \in fresh
  BY <1>2, MinOfNats
<1>. QED BY <1>1, <1>3 DEF Pruned

(* A suffix of a deque that is oldest first is a deque that is oldest first. *)
LEMMA SuffixOldestFirst ==
  ASSUME NEW ages \in Seq(0 .. Stale), OldestFirst(ages),
         NEW k \in 1 .. Len(ages)
  PROVE  /\ SubSeq(ages, k, Len(ages)) \in Seq(0 .. Stale)
         /\ OldestFirst(SubSeq(ages, k, Len(ages)))
<1>. DEFINE suffix == SubSeq(ages, k, Len(ages))
<1>1. Len(ages) \in Nat /\ DOMAIN ages = 1 .. Len(ages)
  BY LenProperties
<1>2. \A i \in k .. Len(ages) : ages[i] \in 0 .. Stale
  <2>1. k .. Len(ages) \subseteq DOMAIN ages BY <1>1
  <2>2. ages \in [DOMAIN ages -> 0 .. Stale] BY <1>1, LenProperties
  <2>. QED BY <2>1, <2>2
<1>3. /\ suffix \in Seq(0 .. Stale)
      /\ Len(suffix) = Len(ages) - k + 1
      /\ \A i \in 1 .. Len(ages) - k + 1 : suffix[i] = ages[k + i - 1]
  BY <1>1, <1>2, SubSeqProperties
<1>4. DOMAIN suffix = 1 .. Len(ages) - k + 1
  BY <1>3, LenProperties
<1>. HIDE DEF suffix
<1>5. ASSUME NEW i \in DOMAIN suffix, NEW j \in DOMAIN suffix, i < j
      PROVE  suffix[i] >= suffix[j]
  <2>1. k + i - 1 \in DOMAIN ages /\ k + j - 1 \in DOMAIN ages /\ k + i - 1 < k + j - 1
    BY <1>1, <1>4, <1>5
  <2>2. suffix[i] = ages[k + i - 1] /\ suffix[j] = ages[k + j - 1]
    BY <1>3, <1>4
  <2>. QED BY <2>1, <2>2 DEF OldestFirst
<1>6. OldestFirst(suffix)
  BY <1>5 DEF OldestFirst
<1>. QED BY <1>3, <1>6 DEF suffix

(* Appending a failure of now keeps the deque oldest first. *)
LEMMA AppendOldestFirst ==
  ASSUME NEW ages \in Seq(0 .. Stale), OldestFirst(ages)
  PROVE  /\ Append(ages, 0) \in Seq(0 .. Stale)
         /\ Append(ages, 0) # <<>>
         /\ Append(ages, 0)[Len(Append(ages, 0))] = 0
         /\ OldestFirst(Append(ages, 0))
<1>. DEFINE more == Append(ages, 0)
<1>1. Len(ages) \in Nat /\ DOMAIN ages = 1 .. Len(ages)
  BY LenProperties
<1>2. 0 \in 0 .. Stale
  BY BreakerAssumption DEF Stale
<1>3. /\ more \in Seq(0 .. Stale)
      /\ Len(more) = Len(ages) + 1
      /\ DOMAIN more = 1 .. Len(ages) + 1
      /\ \A i \in 1 .. Len(ages) : more[i] = ages[i]
      /\ more[Len(ages) + 1] = 0
  <2>1. more \in Seq(0 .. Stale) BY <1>2
  <2>2. DOMAIN more = 1 .. Len(more) BY <2>1, LenProperties
  <2>. QED BY <1>1, <1>2, <2>1, <2>2
<1>4. \A i \in 1 .. Len(ages) : ages[i] >= 0
  BY ElementOfSeq, BreakerAssumption DEF Stale
<1>. HIDE DEF more
<1>5. OldestFirst(more)
  BY <1>1, <1>3, <1>4 DEF OldestFirst
<1>6. more # <<>>
  BY <1>1, <1>3
<1>. QED BY <1>3, <1>5, <1>6 DEF more

(* Ageing a deque, each entry saturating at Stale, keeps it oldest first. *)
LEMMA AgedOldestFirst ==
  ASSUME NEW ages \in Seq(0 .. Stale), OldestFirst(ages)
  PROVE  LET aged == [i \in 1 .. Len(ages) |-> Older(ages[i], Stale)]
         IN  /\ aged \in Seq(0 .. Stale)
             /\ Len(aged) = Len(ages)
             /\ OldestFirst(aged)
<1>. DEFINE aged == [i \in 1 .. Len(ages) |-> Older(ages[i], Stale)]
<1>1. Len(ages) \in Nat /\ ages \in [1 .. Len(ages) -> 0 .. Stale]
  BY LenProperties
<1>2. Stale \in Nat
  BY BreakerAssumption DEF Stale
<1>3. \A age \in 0 .. Stale : Older(age, Stale) \in 0 .. Stale
  BY <1>2 DEF Older
<1>4. aged \in [1 .. Len(ages) -> 0 .. Stale]
  BY <1>1, <1>3
<1>5. aged \in Seq(0 .. Stale)
  BY <1>1, <1>4, SeqDef
<1>6. Len(aged) = Len(ages) /\ DOMAIN aged = 1 .. Len(ages)
  BY <1>1, <1>4, <1>5, LenProperties
<1>7. \A x, y \in 0 .. Stale : x >= y => Older(x, Stale) >= Older(y, Stale)
  BY <1>2 DEF Older
<1>8. OldestFirst(aged)
  <2>. SUFFICES ASSUME NEW i \in 1 .. Len(ages), NEW j \in 1 .. Len(ages), i < j
                PROVE  aged[i] >= aged[j]
    BY <1>6 DEF OldestFirst
  <2>1. ages[i] >= ages[j] /\ ages[i] \in 0 .. Stale /\ ages[j] \in 0 .. Stale
    BY <1>1 DEF OldestFirst
  <2>. QED BY <1>7, <2>1
<1>. QED BY <1>5, <1>6, <1>8

-----------------------------------------------------------------------------

(* A breaker with nothing recorded, in any state, is sound. *)
LEMMA EmptySound ==
  ASSUME NEW b \in BreakerRecord, b.failures = <<>>,
         b.trial => b.state = "half_open"
  PROVE  Sound(b)
<1>1. DOMAIN b.failures = {} /\ Len(b.failures) = 0
  OBVIOUS
<1>. QED BY <1>1, BreakerAssumption DEF Sound, OldestFirst

(* A breaker with the deque of a sound one is sound. *)
LEMMA SameDequeSound ==
  ASSUME NEW b, NEW d \in BreakerRecord, Sound(b), d.failures = b.failures,
         d.trial => d.state = "half_open"
  PROVE  Sound(d)
BY DEF Sound, OldestFirst

LEMMA NewBreakerSound == Sound(NewBreaker)
<1>1. NewBreaker \in BreakerRecord
  BY BreakerAssumption DEF NewBreaker, BreakerRecord, BreakerState
<1>. QED BY <1>1, EmptySound DEF NewBreaker

LEMMA OpenedSound == Sound(Opened)
<1>1. Opened \in BreakerRecord
  BY BreakerAssumption DEF Opened, BreakerRecord, BreakerState
<1>. QED BY <1>1, EmptySound DEF Opened

LEMMA RefreshSound ==
  ASSUME NEW b, Sound(b)
  PROVE  Sound(Refresh(b))
<1>1. b \in BreakerRecord
  BY DEF Sound
<1>2. /\ Refresh(b) \in BreakerRecord
      /\ Refresh(b).failures = b.failures
      /\ Refresh(b).trial => Refresh(b).state = "half_open"
  BY <1>1 DEF Sound, Refresh, BreakerRecord, BreakerState
<1>. QED BY <1>2, SameDequeSound

LEMMA AfterAllowSound ==
  ASSUME NEW b, Sound(b)
  PROVE  Sound(AfterAllow(b))
<1>. DEFINE now == Refresh(b)
<1>1. Sound(now)
  BY RefreshSound
<1>. HIDE DEF now
<1>2. now \in BreakerRecord
  BY <1>1 DEF Sound
<1>3. CASE now.state = "half_open"
  <2>1. AfterAllow(b) = [now EXCEPT !.trial = TRUE]
    BY <1>3 DEF AfterAllow, now
  <2>2. /\ AfterAllow(b) \in BreakerRecord
        /\ AfterAllow(b).failures = now.failures
        /\ AfterAllow(b).state = "half_open"
    BY <1>2, <1>3, <2>1 DEF BreakerRecord, BreakerState
  <2>. QED BY <1>1, <2>2, SameDequeSound
<1>4. CASE now.state # "half_open"
  BY <1>1, <1>4 DEF AfterAllow, now
<1>. QED BY <1>3, <1>4

LEMMA AfterSuccessSound ==
  ASSUME NEW b, Sound(b)
  PROVE  Sound(AfterSuccess(b))
<1>1. b \in BreakerRecord
  BY DEF Sound
<1>2. /\ AfterSuccess(b) \in BreakerRecord
      /\ AfterSuccess(b).failures = <<>>
      /\ AfterSuccess(b).trial = FALSE
  <2>1. <<>> \in Seq(0 .. Stale) BY EmptySeq
  <2>. QED BY <1>1, <2>1 DEF AfterSuccess, BreakerRecord, BreakerState
<1>. QED BY <1>2, EmptySound

(* A recorded failure opens the circuit or is only counted, and it is only     *)
(* counted when the breaker is not half-open and the count is below the        *)
(* threshold; the deque never reaches the threshold.                           *)
LEMMA AfterFailureSound ==
  ASSUME NEW b, Sound(b)
  PROVE  /\ Sound(AfterFailure(b))
         /\ \/ AfterFailure(b) = Opened
            \/ /\ b.state # "half_open"
               /\ AfterFailure(b) = [b EXCEPT !.failures = AfterFailure(b).failures]
<1>. DEFINE more == Append(b.failures, 0)
            counted == Pruned(more)
<1>1. b \in BreakerRecord /\ b.failures \in Seq(0 .. Stale) /\ OldestFirst(b.failures)
  BY DEF Sound, BreakerRecord
<1>2. more \in Seq(0 .. Stale) /\ more # <<>> /\ more[Len(more)] = 0 /\ OldestFirst(more)
  BY <1>1, AppendOldestFirst
<1>. HIDE DEF more
<1>3. PICK k \in 1 .. Len(more) : counted = SubSeq(more, k, Len(more))
  BY <1>2, PrunedIsSuffix
<1>4. counted \in Seq(0 .. Stale) /\ OldestFirst(counted)
  BY <1>2, <1>3, SuffixOldestFirst
<1>. HIDE DEF counted
<1>5. CASE b.state = "half_open" \/ Len(counted) >= FailureThreshold
  <2>1. AfterFailure(b) = Opened
    BY <1>5 DEF AfterFailure, counted, more
  <2>. QED BY <2>1, OpenedSound
<1>6. CASE ~(b.state = "half_open" \/ Len(counted) >= FailureThreshold)
  <2>1. AfterFailure(b) = [b EXCEPT !.failures = counted]
    BY <1>6 DEF AfterFailure, counted, more
  <2>2. /\ AfterFailure(b) \in BreakerRecord
        /\ AfterFailure(b).failures = counted
        /\ AfterFailure(b).trial = b.trial
        /\ AfterFailure(b).state = b.state
    BY <1>1, <1>4, <2>1 DEF BreakerRecord
  <2>3. Len(counted) \in Nat
    BY <1>4, LenProperties
  <2>4. Len(counted) < FailureThreshold
    BY <1>6, <2>3, BreakerAssumption
  <2>5. Sound(AfterFailure(b))
    BY <1>4, <2>2, <2>4 DEF Sound
  <2>. QED BY <1>6, <2>1, <2>2, <2>5
<1>. QED BY <1>5, <1>6

LEMMA AfterTickSound ==
  ASSUME NEW b, Sound(b)
  PROVE  Sound(AfterTick(b))
<1>. DEFINE aged == [i \in 1 .. Len(b.failures) |-> Older(b.failures[i], Stale)]
<1>1. b \in BreakerRecord /\ b.failures \in Seq(0 .. Stale) /\ OldestFirst(b.failures)
  BY DEF Sound, BreakerRecord
<1>2. aged \in Seq(0 .. Stale) /\ Len(aged) = Len(b.failures) /\ OldestFirst(aged)
  BY <1>1, AgedOldestFirst
<1>. HIDE DEF aged
<1>3. Older(b.openedFor, HalfOpenAfter) \in 0 .. HalfOpenAfter
  BY <1>1, BreakerAssumption DEF BreakerRecord, Older
<1>4. AfterTick(b) = [b EXCEPT !.openedFor = Older(b.openedFor, HalfOpenAfter),
                               !.failures = aged]
  BY DEF AfterTick, aged
<1>5. /\ AfterTick(b) \in BreakerRecord
      /\ AfterTick(b).failures = aged
      /\ AfterTick(b).trial = b.trial
      /\ AfterTick(b).state = b.state
  BY <1>1, <1>2, <1>3, <1>4 DEF BreakerRecord
<1>. QED BY <1>2, <1>5 DEF Sound
=============================================================================
